---------------------------- MODULE ProcessProofs ----------------------------
(***************************************************************************)
(* The Device Manager's records of a driver for any log size, budget,      *)
(* window and number of crashes (DriverRecovery), and the registers of     *)
(* user threads for any number of threads and traps on each of the three   *)
(* ports (TrapContext); the messages of the user-mode services for words   *)
(* of any width (Codec), and the handles of the file system for any        *)
(* requests (Services).                                                    *)
(***************************************************************************)
EXTENDS TrapContext, DriverRecovery, Services, FiniteSetTheorems, SequenceTheorems, WellFoundedInduction,
        TLAPS

\* Every non-empty set of naturals has a least member.
LEMMA LeastOf ==
  ASSUME NEW S \in SUBSET Nat, S # {}
  PROVE  \E x \in S : \A y \in S : x <= y
<1> DEFINE R == {p \in Nat \X Nat : p[1] < p[2]}
<1>1. IsWellFoundedOn(R, Nat)
  BY NatLessThanWellFounded DEF OpToRel
<1>2. PICK x \in S : \A y \in S : ~ (<<y, x>> \in R)
  BY <1>1, WFMin
<1>3. \A y \in S : x \in Nat /\ y \in Nat /\ ~ (y < x)
  BY <1>2
<1> QED BY <1>3
-----------------------------------------------------------------------------
(* The request log *)

LogTyped ==
  /\ log \in [Slot -> Request \union {NoRequest}]
  /\ accepted \in SUBSET Request

LogInv == LogTyped /\ LogExact

LEMMA InitLog == RecoveryInit => LogInv
  BY LogAssumption DEF RecoveryInit, LogInv, LogTyped, LogExact, InFlight, Slot

\* A request that enters the log takes a slot that was free.
LEMMA InsertLog ==
  ASSUME LogInv, NEW r \in Request, TryInsert(r)
  PROVE  LogInv'
<1> USE LogAssumption DEF LogInv
<1>1. CASE UNCHANGED <<log, accepted>>
  BY <1>1 DEF LogTyped, LogExact, InFlight, Slot
<1>2. CASE /\ r \notin InFlight /\ Free # {}
           /\ log' = [log EXCEPT ![CHOOSE k \in Free : \A j \in Free : k <= j] = r]
           /\ accepted' = accepted \union {r}
  <2> DEFINE k == CHOOSE k \in Free : \A j \in Free : k <= j
  <2>1. Free \in SUBSET Nat /\ Free # {}
    BY <1>2 DEF Free, Slot
  <2>2. \E x \in Free : \A j \in Free : x <= j
    <3> HIDE DEF LogInv
    <3> QED BY <2>1, LeastOf
  <2>3. k \in Free
    BY <2>2
  <2> HIDE DEF k
  <2>4. k \in Slot /\ log[k] = NoRequest /\ log' = [log EXCEPT ![k] = r]
    BY <1>2, <2>3 DEF Free, k
  <2>5. LogTyped'
    BY <1>2, <2>4 DEF LogTyped
  <2>6. \A j \in Slot : log[j] # r
    BY <1>2 DEF InFlight
  <2>7. InFlight' = InFlight \union {r}
    BY <2>4 DEF InFlight, LogTyped
  <2>8. \A i, j \in Slot : log'[i] = log'[j] => i = j \/ log'[i] = NoRequest
    BY <2>4, <2>6 DEF LogExact, LogTyped
  <2> QED BY <1>2, <2>5, <2>7, <2>8 DEF LogExact, Slot
<1> QED BY <1>1, <1>2 DEF TryInsert

LEMMA AckLog ==
  ASSUME LogInv, NEW r \in Request, Ack(r), accepted' = accepted \ {r}
  PROVE  LogInv'
<1> USE LogAssumption DEF LogInv
<1>1. log' = [k \in Slot |-> IF log[k] = r THEN NoRequest ELSE log[k]]
  BY DEF Ack
<1>2. LogTyped'
  BY <1>1 DEF LogTyped
<1>3. InFlight' = InFlight \ {r}
  BY <1>1 DEF InFlight, LogTyped
<1>4. \A i, j \in Slot : log'[i] = log'[j] => i = j \/ log'[i] = NoRequest
  BY <1>1 DEF LogExact, LogTyped
<1> QED BY <1>2, <1>3, <1>4 DEF LogExact, Slot

LEMMA NextLog == LogInv /\ [RecoveryNext]_recovery => LogInv'
<1> SUFFICES ASSUME LogInv, [RecoveryNext]_recovery PROVE LogInv'
  OBVIOUS
<1>1. CASE UNCHANGED <<log, accepted>>
  BY <1>1 DEF LogInv, LogTyped, LogExact, InFlight, Slot
<1>2. CASE Submit
  BY <1>2, InsertLog DEF Submit
<1>3. CASE Acknowledge
  BY <1>3, AckLog DEF Acknowledge
<1> QED
  BY <1>1, <1>2, <1>3 DEF RecoveryNext, Advance, OnProbeOk, OnCrash, OnRespawn, recovery

(***************************************************************************)
(* RequestLog: what a replacement driver would be given again is exactly   *)
(* what was accepted and not answered, each request once, for any size of  *)
(* the log.                                                                *)
(***************************************************************************)
THEOREM LogIsExact == RecoverySpec => []LogExact
<1>1. LogInv => LogExact
  BY DEF LogInv
<1> QED BY <1>1, InitLog, NextLog, PTL DEF RecoverySpec
-----------------------------------------------------------------------------
(* The ration of restarts *)

DriverState == {"Starting", "Running", "Restarting", "Failed"}

\* The index of the first crash of the current window.
First == Len(crashes) - sup.restarts + 1

\* Crashes are stamped by a clock that never runs back and never reads 0, the
\* value that stands for "no window yet".
CrashesTyped ==
  /\ sup \in [state : DriverState, restarts : Nat, start : Nat]
  /\ now \in Nat \ {0} /\ crashes \in Seq(Nat)
  /\ \A i \in 1 .. Len(crashes) : 0 < crashes[i] /\ crashes[i] <= now
  /\ \A i, j \in 1 .. Len(crashes) : i <= j => crashes[i] <= crashes[j]

\* The window holds the last restarts crashes.
WindowExact ==
  /\ sup.start = 0 => crashes = <<>> /\ sup.restarts = 0
  /\ sup.start # 0 => /\ sup.restarts \in 1 .. Len(crashes) /\ crashes[First] = sup.start
                      /\ \A i \in First .. Len(crashes) : crashes[i] <= sup.start + Window
  /\ sup.state = "Failed" <=> sup.restarts > MaxRestarts

\* What came before it within reach of its start is less than a budget, and
\* any span of crashes no longer than a window is less than two.
SpansBounded ==
  sup.state # "Failed" =>
    /\ \A i \in 1 .. Len(crashes) :
         i < First /\ crashes[i] + Window >= sup.start => First - i <= MaxRestarts
    /\ \A i, j \in 1 .. Len(crashes) :
         i <= j /\ crashes[j] <= crashes[i] + Window => j - i < 2 * MaxRestarts

RationInv == CrashesTyped /\ WindowExact /\ SpansBounded

LEMMA InitRation == RecoveryInit => RationInv
<1> SUFFICES ASSUME RecoveryInit PROVE RationInv
  OBVIOUS
<1>1. crashes = <<>> /\ Len(crashes) = 0 /\ now = 1
      /\ sup = [state |-> "Starting", restarts |-> 0, start |-> 0]
  BY DEF RecoveryInit
<1>2. CrashesTyped
  BY <1>1 DEF CrashesTyped, DriverState
<1>3. WindowExact /\ SpansBounded
  BY <1>1, PolicyAssumption DEF WindowExact, SpansBounded
<1> QED BY <1>2, <1>3 DEF RationInv

\* A crash appends its time.
LEMMA CrashAppends ==
  ASSUME CrashesTyped, crashes' = Append(crashes, now)
  PROVE  LET n == Len(crashes) IN
         /\ n \in Nat /\ Len(crashes') = n + 1 /\ crashes' \in Seq(Nat)
         /\ crashes'[n + 1] = now
         /\ \A i \in 1 .. n : crashes'[i] = crashes[i] /\ crashes[i] \in Nat
  BY DEF CrashesTyped
\* on_crash, by what it does to the window.
LEMMA CrashCounted ==
  ASSUME RationInv, OnCrash
  PROVE  /\ sup.state # "Failed" /\ sup.restarts <= MaxRestarts
         /\ crashes' = Append(crashes, now) /\ now' = now
         /\ sup' \in [state : DriverState, restarts : Nat, start : Nat]
         /\ sup'.state = "Failed" <=> sup'.restarts > MaxRestarts
         /\ \/ /\ sup.start = 0 \/ now > sup.start + Window
               /\ sup'.start = now /\ sup'.restarts = 1
            \/ /\ sup.start # 0 /\ now <= sup.start + Window
               /\ sup'.start = sup.start /\ sup'.restarts = sup.restarts + 1
<1> USE PolicyAssumption DEF RationInv, CrashesTyped
<1>1. sup.state \in {"Starting", "Running"} /\ crashes' = Append(crashes, now) /\ now' = now
  BY DEF OnCrash
<1>2. sup.state # "Failed" /\ sup.restarts <= MaxRestarts
  BY <1>1 DEF WindowExact
<1>3. sup' = [state |-> IF Counted.restarts > MaxRestarts THEN "Failed" ELSE "Restarting",
              restarts |-> Counted.restarts, start |-> Counted.start]
  BY DEF OnCrash
<1>4. sup.start \in Nat /\ sup.restarts \in Nat /\ now \in Nat
  OBVIOUS
<1>5. CASE sup.start = 0 \/ now - sup.start > Window
  <2>1. Counted.start = now /\ Counted.restarts = 1
    BY <1>5 DEF Counted
  <2>2. sup' = [state |-> IF 1 > MaxRestarts THEN "Failed" ELSE "Restarting", restarts |-> 1, start |-> now]
    BY <1>3, <2>1
  <2>3. sup.start = 0 \/ now > sup.start + Window
    BY <1>4, <1>5
  <2> QED BY <1>1, <1>2, <1>4, <2>2, <2>3 DEF DriverState
<1>6. CASE ~(sup.start = 0 \/ now - sup.start > Window)
  <2>1. Counted.start = sup.start /\ Counted.restarts = sup.restarts + 1
    BY <1>6 DEF Counted
  <2>2. sup' = [state |-> IF sup.restarts + 1 > MaxRestarts THEN "Failed" ELSE "Restarting",
                restarts |-> sup.restarts + 1, start |-> sup.start]
    BY <1>3, <2>1
  <2>3. sup.start # 0 /\ now <= sup.start + Window
    BY <1>4, <1>6
  <2> QED BY <1>1, <1>2, <1>4, <2>2, <2>3 DEF DriverState
<1> QED BY <1>5, <1>6

LEMMA OnCrashRation ==
  ASSUME RationInv, OnCrash
  PROVE  RationInv'
<1> DEFINE n == Len(crashes)
           M == MaxRestarts
           S == sup.start
           R == sup.restarts
<1> USE PolicyAssumption
<1>0. CrashesTyped /\ WindowExact /\ SpansBounded
  BY DEF RationInv
<1>1. /\ sup.state # "Failed" /\ R <= M
      /\ crashes' = Append(crashes, now) /\ now' = now
      /\ sup' \in [state : DriverState, restarts : Nat, start : Nat]
      /\ sup'.state = "Failed" <=> sup'.restarts > M
  BY CrashCounted
<1>2. \/ (S = 0 \/ now > S + Window) /\ sup'.start = now /\ sup'.restarts = 1
      \/ S # 0 /\ now <= S + Window /\ sup'.start = S /\ sup'.restarts = R + 1
  BY CrashCounted
<1>3. /\ n \in Nat /\ Len(crashes') = n + 1 /\ crashes' \in Seq(Nat)
      /\ crashes'[n + 1] = now
      /\ \A i \in 1 .. n : crashes'[i] = crashes[i] /\ crashes[i] \in Nat
  BY <1>0, <1>1, CrashAppends
<1>4. /\ S \in Nat /\ R \in Nat /\ now \in Nat \ {0} /\ M \in Nat /\ Window \in Nat
      /\ \A i \in 1 .. n : 0 < crashes[i] /\ crashes[i] <= now
      /\ \A i, j \in 1 .. n : i <= j => crashes[i] <= crashes[j]
  BY <1>0 DEF CrashesTyped
<1>5. /\ S = 0 => n = 0 /\ R = 0
      /\ S # 0 => /\ R \in 1 .. n /\ crashes[n - R + 1] = S
                  /\ \A i \in n - R + 1 .. n : crashes[i] <= S + Window
  BY <1>0 DEF WindowExact, First
<1>6. /\ \A i \in 1 .. n : i < n - R + 1 /\ crashes[i] + Window >= S => (n - R + 1) - i <= M
      /\ \A i, j \in 1 .. n : i <= j /\ crashes[j] <= crashes[i] + Window => j - i < 2 * M
  BY <1>0, <1>1 DEF SpansBounded, First
<1> DEFINE c == crashes
           d == crashes'
<1> HIDE DEF n, M, S, R, c, d
<1>7. \A i, j \in 1 .. n + 1 : i <= j => d[i] <= d[j]
  BY <1>3, <1>4 DEF d
<1>8. CrashesTyped'
  BY <1>1, <1>3, <1>4, <1>7 DEF CrashesTyped, n, d
\* A crash after the end of the window is out of reach of all but its later
\* ones.
<1>9. ASSUME S = 0 \/ now > S + Window, NEW i \in 1 .. n, crashes[i] + Window >= now
      PROVE  (n + 1) - i <= M
  <2>1. S # 0 /\ R \in 1 .. n /\ crashes[n - R + 1] = S
    BY <1>3, <1>5, <1>9
  <2>2. crashes[i] > S
    BY <1>3, <1>4, <1>9, <2>1
  <2>3. n - R + 1 \in 1 .. n
    BY <1>3, <2>1
  <2>4. i > n - R + 1
    BY <1>3, <1>4, <2>1, <2>2, <2>3
  <2> QED BY <1>1, <1>3, <1>4, <2>1, <2>4
<1>10. CASE (S = 0 \/ now > S + Window) /\ sup'.start = now /\ sup'.restarts = 1
  <2>1. First' = n + 1
    BY <1>3, <1>10 DEF First, n
  <2>2. WindowExact'
    BY <1>1, <1>3, <1>4, <1>10, <2>1 DEF WindowExact, n, M
  <2>3. ASSUME sup'.state # "Failed"
        PROVE  /\ \A i \in 1 .. n + 1 : i < n + 1 /\ d[i] + Window >= now => (n + 1) - i <= M
               /\ \A i, j \in 1 .. n + 1 : i <= j /\ d[j] <= d[i] + Window => j - i < 2 * M
    <3>1. 1 <= M
      BY <1>1, <1>4, <1>10, <2>3
    <3>2. \A i \in 1 .. n : d[i] + Window >= now => (n + 1) - i <= M
      BY <1>3, <1>9, <1>10 DEF d
    <3>3. \A i, j \in 1 .. n : i <= j /\ d[j] <= d[i] + Window => j - i < 2 * M
      BY <1>3, <1>6 DEF d
    <3>4. d[n + 1] = now
      BY <1>3 DEF d
    <3>5. ASSUME NEW i \in 1 .. n + 1, NEW j \in 1 .. n + 1, i <= j, d[j] <= d[i] + Window
          PROVE  j - i < 2 * M
      <4>1. CASE j \in 1 .. n
        BY <1>3, <3>3, <3>5, <4>1
      <4>2. CASE j = n + 1 /\ i = n + 1
        BY <1>3, <1>4, <3>1, <4>2
      <4>3. CASE j = n + 1 /\ i \in 1 .. n
        <5>1. d[i] + Window >= now
          BY <1>3, <1>4, <3>4, <3>5, <4>3 DEF d
        <5>2. (n + 1) - i <= M
          BY <3>2, <4>3, <5>1
        <5> QED BY <1>3, <1>4, <3>1, <4>3, <5>2
      <4> QED BY <1>3, <3>5, <4>1, <4>2, <4>3
    <3> QED BY <1>3, <3>2, <3>5
  <2>4. SpansBounded'
    BY <1>3, <1>10, <2>1, <2>3 DEF SpansBounded, n, M, d
  <2> QED BY <1>8, <2>2, <2>4 DEF RationInv
<1>11. CASE S # 0 /\ now <= S + Window /\ sup'.start = S /\ sup'.restarts = R + 1
  <2>0. R \in 1 .. n /\ crashes[n - R + 1] = S /\ n - R + 1 \in 1 .. n
    BY <1>3, <1>5, <1>11
  <2>1. First' = n - R + 1
    BY <1>3, <1>4, <1>11 DEF First, n
  <2>2. WindowExact'
    <3>1. \A i \in n - R + 1 .. n + 1 : d[i] <= S + Window
      <4>1. ASSUME NEW i \in n - R + 1 .. n + 1 PROVE d[i] <= S + Window
        <5>1. CASE i = n + 1 BY <1>3, <1>11, <5>1 DEF d
        <5>2. CASE i # n + 1
          <6>1. i \in n - R + 1 .. n /\ i \in 1 .. n
            BY <1>3, <2>0, <5>2
          <6> QED BY <1>3, <1>5, <1>11, <6>1 DEF d
        <5> QED BY <5>1, <5>2
      <4> QED BY <4>1
    <3>2. d[n - R + 1] = S /\ R + 1 \in 1 .. n + 1
      BY <1>3, <1>4, <2>0 DEF d
    <3> QED BY <1>1, <1>3, <1>11, <2>1, <3>1, <3>2 DEF WindowExact, n, M, d
  <2>3. ASSUME sup'.state # "Failed"
        PROVE  /\ \A i \in 1 .. n + 1 : i < n - R + 1 /\ d[i] + Window >= S => (n - R + 1) - i <= M
               /\ \A i, j \in 1 .. n + 1 : i <= j /\ d[j] <= d[i] + Window => j - i < 2 * M
    <3>1. R + 1 <= M
      BY <1>1, <1>4, <1>11, <2>3
    <3>2. \A i \in 1 .. n + 1 : i < n - R + 1 /\ d[i] + Window >= S => (n - R + 1) - i <= M
      <4>1. \A i \in 1 .. n + 1 : i < n - R + 1 => i \in 1 .. n
        BY <1>3, <2>0
      <4>2. \A i \in 1 .. n : i < n - R + 1 /\ d[i] + Window >= S => (n - R + 1) - i <= M
        BY <1>3, <1>6 DEF d
      <4> QED BY <4>1, <4>2
    <3>3. \A i, j \in 1 .. n : i <= j /\ d[j] <= d[i] + Window => j - i < 2 * M
      BY <1>3, <1>6 DEF d
    <3>4. d[n + 1] = now /\ now >= S
      BY <1>3, <1>4, <2>0 DEF d
    <3>5. ASSUME NEW i \in 1 .. n + 1, NEW j \in 1 .. n + 1, i <= j, d[j] <= d[i] + Window
          PROVE  j - i < 2 * M
      <4>1. CASE j \in 1 .. n
        BY <1>3, <3>3, <3>5, <4>1
      <4>2. CASE j = n + 1 /\ i >= n - R + 1
        BY <1>3, <1>4, <2>0, <3>1, <4>2
      <4>3. CASE j = n + 1 /\ i < n - R + 1
        <5>1. i \in 1 .. n /\ d[i] \in Nat
          BY <1>3, <2>0, <4>3 DEF d
        <5>2. d[i] + Window >= S
          BY <1>4, <3>4, <3>5, <4>3, <5>1
        <5>3. (n - R + 1) - i <= M
          BY <3>2, <4>3, <5>2
        <5> QED BY <1>3, <1>4, <2>0, <3>1, <4>3, <5>1, <5>3
      <4> QED BY <1>3, <1>4, <3>5, <4>1, <4>2, <4>3
    <3> QED BY <3>2, <3>5
  <2>4. SpansBounded'
    BY <1>3, <1>11, <2>1, <2>3 DEF SpansBounded, n, M, d
  <2> QED BY <1>8, <2>2, <2>4 DEF RationInv
<1> QED BY <1>2, <1>10, <1>11

LEMMA NextRation == RationInv /\ [RecoveryNext]_recovery => RationInv'
<1> SUFFICES ASSUME RationInv, [RecoveryNext]_recovery PROVE RationInv'
  OBVIOUS
<1>1. CASE OnCrash
  BY <1>1, OnCrashRation
<1>2. CASE UNCHANGED <<sup, crashes>> /\ (now' = now \/ now' = now + 1)
  <2>1. CrashesTyped'
    BY <1>2 DEF RationInv, CrashesTyped
  <2>2. WindowExact' /\ SpansBounded'
    BY <1>2 DEF RationInv, WindowExact, SpansBounded, First
  <2> QED BY <2>1, <2>2 DEF RationInv
<1>3. CASE /\ UNCHANGED <<now, crashes>>
           /\ \/ sup.state = "Starting" /\ sup' = [sup EXCEPT !.state = "Running"]
              \/ sup.state = "Restarting" /\ sup' = [sup EXCEPT !.state = "Starting"]
  <2>1. /\ sup' \in [state : DriverState, restarts : Nat, start : Nat]
        /\ sup'.restarts = sup.restarts /\ sup'.start = sup.start
        /\ sup.state # "Failed" /\ sup'.state # "Failed"
    BY <1>3 DEF RationInv, CrashesTyped, DriverState
  <2>2. CrashesTyped'
    BY <1>3, <2>1 DEF RationInv, CrashesTyped
  <2>3. WindowExact' /\ SpansBounded'
    BY <1>3, <2>1 DEF RationInv, WindowExact, SpansBounded, First
  <2> QED BY <2>2, <2>3 DEF RationInv
<1> QED
  BY <1>1, <1>2, <1>3 DEF RecoveryNext, Advance, OnProbeOk, OnRespawn, Submit, Acknowledge, recovery
\* The window of a parked driver lies within reach of its last crash.
LEMMA BurstParks ==
  ASSUME RationInv PROVE ParkedForBurst
<1> SUFFICES ASSUME sup.state = "Failed"
             PROVE  Cardinality({k \in DOMAIN crashes : crashes[k] + Window >= crashes[Len(crashes)]}) > MaxRestarts
  BY DEF ParkedForBurst
<1> DEFINE n == Len(crashes)
           A == {k \in DOMAIN crashes : crashes[k] + Window >= crashes[n]}
<1> USE PolicyAssumption
<1>0. CrashesTyped /\ WindowExact
  BY DEF RationInv
<1>1. sup.restarts > MaxRestarts /\ sup.restarts \in Nat /\ sup.start \in Nat
  BY <1>0 DEF CrashesTyped, WindowExact
<1>2. sup.start # 0 /\ sup.restarts \in 1 .. n /\ First = n - sup.restarts + 1 /\ n \in Nat
  BY <1>0, <1>1 DEF CrashesTyped, WindowExact, First
<1>3. /\ \A i \in First .. n : crashes[i] <= sup.start + Window
      /\ crashes[First] = sup.start
  BY <1>0, <1>2 DEF WindowExact
<1>4. DOMAIN crashes = 1 .. n /\ \A i \in 1 .. n : crashes[i] \in Nat
  BY <1>0 DEF CrashesTyped
<1>5. First \in 1 .. n
  BY <1>2
<1>6. \A i \in First .. n : i \in 1 .. n /\ crashes[i] >= sup.start
  BY <1>0, <1>2, <1>3, <1>5 DEF CrashesTyped
<1>7. n \in First .. n
  BY <1>2, <1>5
<1>8. First .. n \subseteq A
  BY <1>1, <1>3, <1>4, <1>6, <1>7
<1>9. A \subseteq 1 .. n
  BY <1>4
<1> HIDE DEF A, n
<1>10. IsFiniteSet(A)
  <2>1. IsFiniteSet(1 .. n)
    BY <1>2, FS_Interval
  <2> QED BY <1>9, <2>1, FS_Subset
<1>11. Cardinality(First .. n) = sup.restarts
  <2>1. First \in Int /\ n \in Int /\ ~(First > n) /\ n - First + 1 = sup.restarts
    BY <1>1, <1>2
  <2> HIDE DEF First
  <2> QED BY <2>1, FS_Interval
<1>12. Cardinality(First .. n) <= Cardinality(A) /\ Cardinality(A) \in Nat
  BY <1>8, <1>10, FS_Subset, FS_CardinalityType
<1> QED BY <1>1, <1>11, <1>12 DEF A, n

\* The crashes within a window of one of them span less than two budgets.
LEMMA SpansCounted ==
  ASSUME RationInv PROVE CrashesRationed
<1> SUFFICES ASSUME sup.state # "Failed", NEW k \in DOMAIN crashes
             PROVE  Cardinality({j \in DOMAIN crashes : crashes[j] \in crashes[k] .. crashes[k] + Window})
                      <= 2 * MaxRestarts
  BY DEF CrashesRationed
<1> DEFINE n == Len(crashes)
           A == {j \in DOMAIN crashes : crashes[j] \in crashes[k] .. crashes[k] + Window}
<1> USE PolicyAssumption
<1>1. DOMAIN crashes = 1 .. n /\ n \in Nat /\ \A i \in 1 .. n : crashes[i] \in Nat
  BY DEF RationInv, CrashesTyped
<1>2. \A i, j \in 1 .. n : i <= j /\ crashes[j] <= crashes[i] + Window => j - i < 2 * MaxRestarts
  BY DEF RationInv, SpansBounded
<1>3. A \in SUBSET Nat /\ k \in A
  BY <1>1
<1>4. PICK lo \in A : \A j \in A : lo <= j
  <2> HIDE DEF A
  <2>1. A # {}
    BY <1>3
  <2> QED BY <1>3, <2>1, LeastOf
<1>5. lo \in 1 .. n
  BY <1>1
<1>6. ASSUME NEW j \in A PROVE j \in lo .. lo + 2 * MaxRestarts - 1
  <2>1. /\ j \in 1 .. n /\ lo <= j
        /\ crashes[j] <= crashes[k] + Window /\ crashes[k] <= crashes[lo]
        /\ crashes[j] \in Nat /\ crashes[k] \in Nat /\ crashes[lo] \in Nat
    BY <1>1, <1>4, <1>5
  <2>2. j - lo < 2 * MaxRestarts
    BY <1>2, <1>5, <2>1
  <2> QED BY <1>1, <1>5, <2>1, <2>2
<1> HIDE DEF A, n
<1>7. A \in SUBSET (lo .. lo + 2 * MaxRestarts - 1)
  BY <1>6
<1>8. lo \in Int /\ lo + 2 * MaxRestarts - 1 \in Int /\ 0 <= 2 * MaxRestarts
  BY <1>1, <1>5
<1>9. /\ IsFiniteSet(lo .. lo + 2 * MaxRestarts - 1)
      /\ Cardinality(lo .. lo + 2 * MaxRestarts - 1) <= 2 * MaxRestarts
      /\ Cardinality(lo .. lo + 2 * MaxRestarts - 1) \in Nat
  <2> DEFINE hi == lo + 2 * MaxRestarts - 1
  <2>1. hi \in Int /\ hi - lo + 1 = 2 * MaxRestarts
    BY <1>8
  <2> HIDE DEF hi
  <2>2. IsFiniteSet(lo .. hi) /\ Cardinality(lo .. hi) = IF lo > hi THEN 0 ELSE hi - lo + 1
    BY <1>8, <2>1, FS_Interval
  <2>3. Cardinality(lo .. hi) \in Nat
    BY <2>2, FS_CardinalityType
  <2> QED BY <1>8, <2>1, <2>2, <2>3 DEF hi
<1>10. Cardinality(A) <= Cardinality(lo .. lo + 2 * MaxRestarts - 1) /\ Cardinality(A) \in Nat
  BY <1>7, <1>9, FS_Subset, FS_CardinalityType
<1> QED BY <1>9, <1>10 DEF A

(***************************************************************************)
(* Supervised: a driver is parked only after more than MaxRestarts crashes *)
(* within one window, and is parked before it has crashed more than twice  *)
(* that often in any window, for any budget and any window.                *)
(***************************************************************************)
THEOREM RestartsAreRationed == RecoverySpec => []RestartsRationed
<1>1. RationInv => RestartsRationed
  BY BurstParks, SpansCounted DEF RestartsRationed
<1> QED BY <1>1, InitRation, NextRation, PTL DEF RecoverySpec
-----------------------------------------------------------------------------
(* Registers across traps *)

\* regs holds no value of another thread than t, and t's own stack pointer; but
\* an answer meant for another may reach the Root Task's return registers.
Strange(t, r) == IF t = Root /\ r \in Return THEN Thread ELSE {}
Own(a, t, regs) ==
  /\ regs \in Registers(a) /\ regs["sp"] = Stack(t)
  /\ \A r \in Reg(a) : regs[r][1] \in {t, Nil} \union Strange(t, r)

\* t's program may run in x's name.
InName(x, t) == x = t \/ t = Root

\* The context c is where s, a stopped thread, wants to go on.
Finds(a, s, c) ==
  /\ c.pc = s.pc
  /\ \A r \in Promised(a, s) : c.regs[r] = s.regs[r]
  /\ \A r \in DOMAIN s.answer : c.regs[r] = s.answer[r]

\* c is a context t may be run with; s says where it was stopped.
Resumable(a, s, t, c) ==
  /\ c \in Context(a) /\ c.mode = "user" /\ c.space = t /\ Own(a, t, c.regs)
  /\ s # Nil => Finds(a, s, c)

\* The trap k holds all that the resumption of t needs, whatever has been
\* taken since on top of it.
Frame(a, s, t, k) ==
  /\ k \in TrapRecord(a) /\ s \in Stopped(a) /\ s.why = k.why
  /\ s.answer = [r \in {} |-> Zero] /\ s.fast = FALSE
  /\ Popped(k.frame) = s.regs /\ Own(a, t, s.regs)
  /\ k.mode = "user" /\ k.space = t
  /\ ~k.waited => k.livePc = k.pc /\ k.liveMode = "user"
  /\ k.waited => k.why = "syscall"
  /\ a = "riscv64" => k.liveMode = "user"
  /\ s.pc = IF a = "riscv64" /\ k.why = "syscall" THEN Step(k.pc) ELSE k.pc

ContextsTyped ==
  /\ arch \in Arch /\ timer \in BOOLEAN /\ running \in Thread /\ named \in Thread \union {Nil}
  /\ life \in [Thread -> {"unborn", "alive", "dead", "retired"}]
  /\ seen \in [Thread -> Stopped(arch) \union {Nil}]
  /\ blob \in [Thread -> Context(arch)] /\ holds \in [Thread -> Thread]
  /\ \A t \in Thread : Own(arch, holds[t], blob[t].regs)

\* Outside the kernel the core shows the running program its own context;
\* inside, it is in the trap.
OutsideTrap == trap = Nil => Resumable(arch, seen[running], running, cpu)
InsideTrap  == trap # Nil => cpu = Nil /\ Frame(arch, seen[running], running, trap)

\* The context b of an alive thread t that holds h's program: t was stopped by
\* a call or by a tick and goes on from it, or it is the Root Task's, of which
\* nothing more is known.
Waits(a, t, h, s, b) ==
  IF h = t THEN Resumable(a, s, t, b) /\ (s # Nil => s.why \in {"syscall", "tick"})
           ELSE Resumable(a, Nil, Root, b)
OthersResumable ==
  \A t \in Thread : t # running /\ life[t] = "alive" => Waits(arch, t, holds[t], seen[t], blob[t])
TicksNeedTimer == \A t \in Thread : seen[t] # Nil /\ seen[t].why = "tick" => timer

\* A program runs under its own name, but for the retired Root Task, which only
\* ticks stop; only its program is ever in another thread's context.
NamesAgree ==
  /\ life[running] = "alive" => named = running /\ holds[running] = running
  /\ life[running] # "alive" => running = Root /\ life[Root] = "retired" /\ (trap # Nil => trap.why = "tick")
  /\ named # Nil => life[named] = "alive"
HoldsOwnOrRoot ==
  \A t \in Thread : /\ holds[t] = t \/ (holds[t] = Root /\ life[Root] = "retired")
                    /\ life[t] = "unborn" => holds[t] = t /\ seen[t] = Nil

\* What P2_PREEMPT_START saved of the Root Task stays what it was.
RetiredParked ==
  life[Root] = "retired" =>
    /\ timer /\ holds[Root] = Root
    /\ parked \in Stopped(arch) /\ parked.why = "syscall" /\ Resumable(arch, parked, Root, blob[Root])

ContextInv ==
  /\ ContextsTyped /\ OutsideTrap /\ InsideTrap
  /\ OthersResumable /\ TicksNeedTimer /\ NamesAgree /\ HoldsOwnOrRoot /\ RetiredParked

\* The registers of the three ports.
LEMMA RegNames ==
  ASSUME NEW a \in Arch
  PROVE  /\ "kept" \in Reg(a) /\ "sp" \in Reg(a) /\ "scratch" \in Reg(a) /\ "ret" \in Reg(a) /\ "ret2" \in Reg(a)
         /\ \A r \in Reg(a) : r \in {"kept", "sp", "scratch", "ret", "ret2", "rdi"}
         /\ "rdi" \in Reg(a) => a = "x86_64"
  BY DEF Reg, Arch

LEMMA PortCases ==
  ASSUME arch \in Arch, NEW x, NEW y, NEW z
  PROVE  /\ arch = "x86_64"  => Port(x, y, z) = x
         /\ arch = "arm64"   => Port(x, y, z) = y
         /\ arch = "riscv64" => Port(x, y, z) = z
         /\ arch \in {"x86_64", "arm64", "riscv64"}
  BY DEF Port, Arch

LEMMA StepTyped == \A pc \in Nat : Step(pc) \in Nat
<1> SUFFICES ASSUME NEW pc \in Nat PROVE Step(pc) \in Nat
  OBVIOUS
<1>1. pc + 1 \in Nat /\ PcRange \in Nat /\ PcRange > 0
  BY ThreadsAssumption
<1> QED BY <1>1 DEF Step

\* Lowering sp for the frame and raising it again gives it back.
LEMMA FramePops ==
  ASSUME NEW a \in Arch, NEW t \in Thread, NEW regs, Own(a, t, regs)
  PROVE  /\ Popped(regs) = regs
         /\ [regs EXCEPT !["sp"] = Lowered(@)] \in Registers(a)
         /\ Popped([regs EXCEPT !["sp"] = Lowered(@)]) = regs
<1>1. regs \in [Reg(a) -> Word] /\ "sp" \in Reg(a) /\ regs["sp"] = <<t, 8>>
  BY RegNames DEF Own, Registers, Stack
<1>2. Raised(regs["sp"]) = regs["sp"] /\ Raised(Lowered(regs["sp"])) = regs["sp"] /\ Lowered(regs["sp"]) \in Word
  BY <1>1 DEF Raised, Lowered, Word
<1> QED BY <1>1, <1>2 DEF Popped, Registers

\* init_user_context: a fresh context is one to run with.
LEMMA FreshResumable ==
  ASSUME arch \in Arch, NEW t \in Thread
  PROVE  Resumable(arch, Nil, t, InitUserContext(t)) /\ InitUserContext(t) \in Context(arch)
<1> DEFINE regs == [[r \in Reg(arch) |-> Zero] EXCEPT !["sp"] = Stack(t)]
<1>1. Zero \in Word /\ Stack(t) \in Word /\ Zero[1] = Nil /\ Stack(t)[1] = t
  BY DEF Zero, Stack, Word
<1>2. "sp" \in Reg(arch)
  BY RegNames
<1>3. Own(arch, t, regs)
  BY <1>1, <1>2 DEF Own, Registers
<1> HIDE DEF regs
<1>4. InitUserContext(t) = [regs |-> regs, pc |-> 0, mode |-> "user", space |-> t]
  BY DEF InitUserContext, regs, EntryPoint
<1> QED BY <1>3, <1>4 DEF Resumable, Context, Mode, Own
LEMMA InitContexts == ContextInit => ContextInv
<1> SUFFICES ASSUME ContextInit PROVE ContextInv
  OBVIOUS
<1> USE ThreadsAssumption
<1>1. /\ arch \in Arch /\ timer = FALSE /\ running = Root /\ trap = Nil /\ cpu = InitUserContext(Root)
      /\ blob = [t \in Thread |-> InitUserContext(t)] /\ holds = [t \in Thread |-> t] /\ named = Root
      /\ life = [t \in Thread |-> IF t = Root THEN "alive" ELSE "unborn"]
      /\ seen = [t \in Thread |-> Nil]
  BY DEF ContextInit, EnterUser
<1>2. \A t \in Thread : Resumable(arch, Nil, t, InitUserContext(t)) /\ InitUserContext(t) \in Context(arch)
  BY <1>1, FreshResumable
<1>3. \A t \in Thread : Own(arch, holds[t], blob[t].regs)
  BY <1>1, <1>2 DEF Resumable
<1>4. ContextsTyped
  BY <1>1, <1>2, <1>3 DEF ContextsTyped
<1>5. OutsideTrap /\ InsideTrap
  BY <1>1, <1>2 DEF OutsideTrap, InsideTrap
<1>6. OthersResumable /\ TicksNeedTimer
  BY <1>1 DEF OthersResumable, TicksNeedTimer
<1>7. NamesAgree /\ HoldsOwnOrRoot /\ RetiredParked
  BY <1>1 DEF NamesAgree, HoldsOwnOrRoot, RetiredParked
<1> QED BY <1>4, <1>5, <1>6, <1>7 DEF ContextInv

\* The vectors keep what the thread had, on each port.
LEMMA EnterTrapKeeps ==
  ASSUME ContextInv, NEW why \in Why, NEW pc \in Nat, EnterTrap(why, pc),
         why = "tick" => timer, why # "tick" => life[running] = "alive",
         (IF why = "syscall" THEN Step(cpu.pc) ELSE cpu.pc)
           = (IF arch = "riscv64" /\ why = "syscall" THEN Step(pc) ELSE pc)
  PROVE  ContextInv'
<1> USE ThreadsAssumption
<1>0. /\ ContextsTyped /\ arch \in Arch /\ running \in Thread /\ trap = Nil
      /\ Resumable(arch, seen[running], running, cpu)
  BY DEF ContextInv, ContextsTyped, OutsideTrap, EnterTrap
<1>1. cpu \in Context(arch) /\ cpu.mode = "user" /\ cpu.space = running /\ Own(arch, running, cpu.regs)
      /\ cpu.regs \in Registers(arch) /\ cpu.pc \in Nat
  BY <1>0 DEF Resumable, Own, Context
<1> DEFINE frame == Port(IsrTrampoline, El0Entry, TrapEntry)
           k == [why |-> why, frame |-> frame, pc |-> pc, mode |-> cpu.mode, livePc |-> pc,
                 liveMode |-> cpu.mode, space |-> cpu.space, waited |-> FALSE]
           s == [why |-> why, regs |-> cpu.regs,
                 pc |-> IF why = "syscall" THEN Step(cpu.pc) ELSE cpu.pc,
                 answer |-> [r \in {} |-> Zero], fast |-> FALSE]
<1>2. /\ trap' = k /\ seen' = [seen EXCEPT ![running] = s] /\ cpu' = Nil
      /\ UNCHANGED <<arch, timer, running, named, blob, holds, life, parked>>
  BY DEF EnterTrap
<1>3. frame \in Registers(arch) /\ Popped(frame) = cpu.regs
  <2>1. IsrTrampoline \in Registers(arch) /\ Popped(IsrTrampoline) = cpu.regs
    BY <1>0, <1>1, FramePops DEF IsrTrampoline
  <2>2. El0Entry \in Registers(arch) /\ Popped(El0Entry) = cpu.regs
    BY <1>0, <1>1, FramePops DEF El0Entry
  <2>3. TrapEntry \in Registers(arch) /\ Popped(TrapEntry) = cpu.regs
    BY <1>0, <1>1, FramePops DEF TrapEntry
  <2>4. frame = IsrTrampoline \/ frame = El0Entry \/ frame = TrapEntry
    BY <1>0, PortCases
  <2> QED BY <2>1, <2>2, <2>3, <2>4
<1> HIDE DEF frame
<1>4. k \in TrapRecord(arch)
  BY <1>0, <1>1, <1>3 DEF TrapRecord, Mode
<1>5. s \in Stopped(arch)
  <2>1. (IF why = "syscall" THEN Step(cpu.pc) ELSE cpu.pc) \in Nat
    BY <1>1, StepTyped
  <2>2. [r \in {} |-> Zero] \in [{} -> Word]
    OBVIOUS
  <2> QED BY <1>1, <2>1, <2>2 DEF Stopped
<1>6. Frame(arch, s, running, k)
  <2>1. /\ s.why = k.why /\ s.answer = [r \in {} |-> Zero] /\ s.fast = FALSE
        /\ Popped(k.frame) = s.regs /\ Own(arch, running, s.regs) /\ k.mode = "user" /\ k.space = running
        /\ ~k.waited /\ k.livePc = k.pc /\ k.liveMode = "user"
        /\ s.pc = IF arch = "riscv64" /\ k.why = "syscall" THEN Step(k.pc) ELSE k.pc
    BY <1>1, <1>3
  <2> HIDE DEF k, s
  <2> QED BY <1>4, <1>5, <2>1 DEF Frame
<1>7. s.why = why /\ s # Nil /\ k # Nil
  BY <1>0, <1>4, <1>5, NilAssumption
<1> HIDE DEF k, s
<1>8. /\ seen'[running] = s /\ \A t \in Thread : t # running => seen'[t] = seen[t]
      /\ seen' \in [Thread -> Stopped(arch) \union {Nil}]
  BY <1>0, <1>2, <1>5 DEF ContextsTyped
<1>9. ContextsTyped'
  BY <1>0, <1>2, <1>8 DEF ContextsTyped
<1>10. OutsideTrap' /\ InsideTrap'
  BY <1>2, <1>6, <1>7, <1>8 DEF OutsideTrap, InsideTrap
<1>11. OthersResumable'
  BY <1>2, <1>8 DEF ContextInv, OthersResumable
<1>12. TicksNeedTimer'
  BY <1>0, <1>2, <1>7, <1>8 DEF ContextInv, TicksNeedTimer
<1>13. NamesAgree'
  <2>1. trap'.why = why
    BY <1>2, <1>6, <1>7 DEF Frame
  <2> QED BY <1>2, <2>1 DEF ContextInv, NamesAgree
<1>14. HoldsOwnOrRoot' /\ RetiredParked'
  BY <1>0, <1>2, <1>8 DEF ContextInv, HoldsOwnOrRoot, RetiredParked, NamesAgree
<1> QED BY <1>9, <1>10, <1>11, <1>12, <1>13, <1>14 DEF ContextInv

LEMMA TrapsKeep ==
  ASSUME ContextInv, Syscall \/ Tick \/ Fault
  PROVE  ContextInv'
<1>1. trap = Nil
  BY DEF Syscall, Tick, Fault
<1>2. arch \in Arch /\ cpu.pc \in Nat
  BY <1>1 DEF ContextInv, ContextsTyped, OutsideTrap, Resumable, Context
<1>3. CASE Syscall
  <2>1. PICK pc : pc = Port(Step(cpu.pc), Step(cpu.pc), cpu.pc)
    OBVIOUS
  <2>2. /\ arch = "riscv64" => pc = cpu.pc
        /\ arch # "riscv64" => pc = Step(cpu.pc)
    BY <1>2, <2>1, PortCases
  <2>3. pc \in Nat
    BY <1>2, <2>2, StepTyped
  <2>4. EnterTrap("syscall", pc)
    BY <1>3, <2>1 DEF Syscall, EnterTrap
  <2>5. life[running] = "alive"
    BY <1>3 DEF Syscall
  <2> QED BY <2>2, <2>3, <2>4, <2>5, EnterTrapKeeps DEF Why
<1>4. ASSUME NEW why \in {"tick", "fault"}, EnterTrap(why, cpu.pc), why = "tick" => timer,
             why = "fault" => life[running] = "alive"
      PROVE  ContextInv'
  <2>1. PICK pc : pc = cpu.pc
    OBVIOUS
  <2>2. EnterTrap(why, pc)
    BY <1>4, <2>1 DEF EnterTrap
  <2> QED BY <1>2, <1>4, <2>1, <2>2, EnterTrapKeeps DEF Why
<1> QED BY <1>3, <1>4 DEF Tick, Fault

\* A step that ends with the running thread on the core and leaves the others
\* alone keeps the invariant, if that thread finds what it needs.
LEMMA ReturnKeeps ==
  ASSUME ContextInv, trap' = Nil, UNCHANGED <<arch, timer, running, blob, holds, life, parked>>,
         named' = named \/ (named = Nil /\ named' \in Thread /\ life[named'] = "alive"),
         NEW s \in Stopped(arch) \union {Nil}, seen' = [seen EXCEPT ![running] = s],
         Resumable(arch, s, running, cpu'), s # Nil /\ s.why = "tick" => timer
  PROVE  ContextInv'
<1>1. running \in Thread /\ seen \in [Thread -> Stopped(arch) \union {Nil}]
  BY DEF ContextInv, ContextsTyped
<1>2. /\ seen'[running] = s /\ \A t \in Thread : t # running => seen'[t] = seen[t]
      /\ seen' \in [Thread -> Stopped(arch) \union {Nil}]
  BY <1>1
<1>3. ContextsTyped'
  BY <1>2 DEF ContextInv, ContextsTyped
<1>4. OutsideTrap' /\ InsideTrap'
  BY <1>2 DEF OutsideTrap, InsideTrap
<1>5. OthersResumable'
  BY <1>2 DEF ContextInv, OthersResumable
<1>6. TicksNeedTimer'
  BY <1>1, <1>2 DEF ContextInv, TicksNeedTimer
<1>7. NamesAgree'
  BY <1>1, ThreadsAssumption DEF ContextInv, NamesAgree
<1>8. HoldsOwnOrRoot' /\ RetiredParked'
  BY <1>1, <1>2 DEF ContextInv, HoldsOwnOrRoot, RetiredParked, NamesAgree
<1> QED BY <1>3, <1>4, <1>5, <1>6, <1>7, <1>8 DEF ContextInv

LEMMA ComputeKeeps ==
  ASSUME ContextInv, Compute
  PROVE  ContextInv'
<1>1. /\ arch \in Arch /\ running \in Thread /\ trap = Nil
      /\ Resumable(arch, seen[running], running, cpu)
  BY DEF ContextInv, ContextsTyped, OutsideTrap, Compute
<1>2. cpu \in Context(arch) /\ cpu.mode = "user" /\ cpu.space = running /\ Own(arch, running, cpu.regs)
  BY <1>1 DEF Resumable
<1> DEFINE regs == [r \in Reg(arch) |-> IF r = "sp" THEN cpu.regs[r] ELSE Value(running, cpu.pc)]
<1>3. cpu' = [cpu EXCEPT !.regs = regs, !.pc = Step(@)]
  BY DEF Compute
<1>4. Value(running, cpu.pc) \in Word /\ Value(running, cpu.pc)[1] = running
  BY <1>1, <1>2 DEF Value, Word, Context
<1>5. Own(arch, running, regs)
  BY <1>1, <1>2, <1>4, RegNames DEF Own, Registers
<1> HIDE DEF regs
<1>6. regs \in Registers(arch) /\ Step(cpu.pc) \in Nat
  BY <1>2, <1>5, StepTyped DEF Own, Context
<1>7. cpu' \in Context(arch) /\ cpu'.mode = "user" /\ cpu'.space = running /\ cpu'.regs = regs
  BY <1>2, <1>3, <1>6 DEF Context
<1>8. Resumable(arch, Nil, running, cpu')
  BY <1>5, <1>7 DEF Resumable
<1>9. UNCHANGED <<arch, timer, running, named, trap, blob, holds, life, parked>> /\ seen' = [seen EXCEPT ![running] = Nil]
  BY DEF Compute
<1> QED BY <1>1, <1>8, <1>9, ReturnKeeps

\* An interrupt inside a call spoils no more than the core's own return
\* registers, and on RISC-V not the mode.
LEMMA NestedKeeps ==
  ASSUME ContextInv, Nested
  PROVE  ContextInv'
<1>1. /\ arch \in Arch /\ trap # Nil /\ trap.why = "syscall"
      /\ Frame(arch, seen[running], running, trap) /\ cpu = Nil
  BY DEF ContextInv, ContextsTyped, InsideTrap, Nested
<1>2. PICK pc : pc = Port(trap.livePc, Nil, Nil)
  OBVIOUS
<1>3. PICK mode : mode = Port(trap.liveMode, "kernel", trap.liveMode)
  OBVIOUS
<1>4. trap' = [trap EXCEPT !.waited = TRUE, !.livePc = pc, !.liveMode = mode]
  BY <1>2, <1>3 DEF Nested
<1>5. pc \in {trap.livePc, Nil} /\ mode \in {trap.liveMode, "kernel"}
      /\ (arch = "riscv64" => mode = trap.liveMode)
  BY <1>1, <1>2, <1>3, PortCases
<1>6. trap \in TrapRecord(arch)
  BY <1>1 DEF Frame
<1>7. trap' \in TrapRecord(arch)
  BY <1>4, <1>5, <1>6 DEF TrapRecord, Mode
<1>8. /\ trap'.why = trap.why /\ trap'.frame = trap.frame /\ trap'.pc = trap.pc /\ trap'.mode = trap.mode
      /\ trap'.space = trap.space /\ trap'.waited = TRUE /\ trap'.liveMode = mode
  BY <1>4, <1>6 DEF TrapRecord
<1>9. Frame(arch, seen[running], running, trap')
  BY <1>1, <1>5, <1>7, <1>8 DEF Frame
<1>10. trap' # Nil
  BY <1>1, <1>7, NilAssumption
<1>11. UNCHANGED <<arch, timer, running, named, cpu, blob, holds, life, seen, parked>>
  BY DEF Nested
<1>12. ContextsTyped' /\ OthersResumable' /\ TicksNeedTimer' /\ HoldsOwnOrRoot' /\ RetiredParked' /\ NamesAgree'
  BY <1>1, <1>8, <1>11 DEF ContextInv, ContextsTyped, OthersResumable, TicksNeedTimer, HoldsOwnOrRoot,
                           RetiredParked, NamesAgree
<1>13. OutsideTrap' /\ InsideTrap'
  BY <1>1, <1>9, <1>10, <1>11 DEF OutsideTrap, InsideTrap
<1> QED BY <1>12, <1>13 DEF ContextInv

\* The answer A, meant for x, turns the registers R of t's program into N.
Gives(a, t, x, R, regs, A, N) ==
  /\ a \in Arch /\ t \in Thread /\ x \in Thread /\ regs \in SUBSET Return
  /\ Own(a, t, R) /\ InName(x, t) /\ A = Answer(x, regs) /\ N = Answered(R, A)

Given(a, t, R, regs, A, N) ==
  /\ DOMAIN A = regs /\ A \in [regs -> Word]
  /\ Own(a, t, N)
  /\ \A r \in regs : N[r] = A[r]
  /\ \A r \in Reg(a) \ regs : N[r] = R[r]

\* What the kernel writes into return registers is the thread's own, or is
\* meant for x and reaches the Root Task, which runs in x's name.
LEMMA AnswerGiven ==
  ASSUME NEW a, NEW t, NEW x, NEW R, NEW regs, NEW A, NEW N, Gives(a, t, x, R, regs, A, N)
  PROVE  Given(a, t, R, regs, A, N)
<1> USE DEF Gives
<1>1. A = [r \in regs |-> <<x, IF r = "ret" THEN 2 ELSE 3>>]
  BY DEF Answer, Value
<1>2. DOMAIN A = regs /\ A \in [regs -> Word] /\ \A r \in regs : A[r][1] = x
  BY <1>1 DEF Word
<1>3. regs \subseteq Reg(a) /\ "sp" \in Reg(a) /\ "sp" \notin regs
  BY RegNames DEF Return
<1>4. R \in [Reg(a) -> Word]
  BY DEF Own, Registers
<1>5. N = [r \in Reg(a) |-> IF r \in regs THEN A[r] ELSE R[r]]
  BY <1>2, <1>4 DEF Answered
<1>6. N \in [Reg(a) -> Word]
  BY <1>2, <1>4, <1>5
<1>7. N["sp"] = Stack(t)
  BY <1>3, <1>5 DEF Own
<1>8. \A r \in Reg(a) : N[r][1] \in {t, Nil} \union Strange(t, r)
  BY <1>2, <1>5 DEF Own, Strange, InName
<1>9. Own(a, t, N)
  BY <1>6, <1>7, <1>8 DEF Own, Registers
<1>10. (\A r \in regs : N[r] = A[r]) /\ (\A r \in Reg(a) \ regs : N[r] = R[r])
  BY <1>3, <1>5
<1> QED BY <1>2, <1>9, <1>10 DEF Given

\* What s may count on never includes what an answer overwrites.
LEMMA PromisedRegs ==
  ASSUME NEW a \in Arch, NEW s \in Stopped(a)
  PROVE  /\ Promised(a, s) \subseteq Reg(a)
         /\ s.why = "syscall" => Promised(a, s) \cap Return = {}
         /\ s.why = "syscall" /\ s.fast => "scratch" \notin Promised(a, s)
         /\ s.why = "fault" => "ret" \notin Promised(a, s)
<1>1. s.why \in {"syscall", "tick", "fault"}
  BY DEF Stopped, Why
<1> QED BY <1>1 DEF Promised, Clobbered

\* The trap's frame and registers, where they are all a thread goes on with.
LEMMA FrameParts ==
  ASSUME NEW a \in Arch, NEW t \in Thread, NEW s, NEW k, Frame(a, s, t, k)
  PROVE  /\ s \in Stopped(a) /\ k \in TrapRecord(a) /\ s # Nil /\ s.pc \in Nat
         /\ k.frame \in Registers(a) /\ s.regs \in Registers(a)
         /\ \A r \in Reg(a) \ {"sp"} : k.frame[r] = s.regs[r]
<1>1. s \in Stopped(a) /\ k \in TrapRecord(a) /\ Popped(k.frame) = s.regs
  BY DEF Frame
<1>2. s # Nil
  BY <1>1, NilAssumption
<1>3. k.frame \in Registers(a) /\ s.regs \in Registers(a) /\ s.pc \in Nat
  BY <1>1 DEF Stopped, TrapRecord
<1>4. \A r \in Reg(a) \ {"sp"} : k.frame[r] = s.regs[r]
  BY <1>1, <1>3 DEF Popped, Registers
<1> QED BY <1>1, <1>2, <1>3, <1>4

\* Resume: popping an answered frame gives the thread its own registers back,
\* but for the answer.
LEMMA AnsweredPops ==
  ASSUME NEW a \in Arch, NEW t \in Thread, NEW s, NEW k, Frame(a, s, t, k),
         NEW regs \in SUBSET Return, NEW A, A = Answer(t, regs)
  PROVE  Popped(Answered(k.frame, A)) = Answered(s.regs, A)
<1>1. k.frame \in [Reg(a) -> Word] /\ s.regs = Popped(k.frame)
  BY FrameParts DEF Registers, Frame
<1>2. DOMAIN A = regs /\ "sp" \notin regs /\ "sp" \in Reg(a)
  BY RegNames DEF Answer, Return
<1>3. Answered(k.frame, A) = [r \in Reg(a) |-> IF r \in regs THEN A[r] ELSE k.frame[r]]
  BY <1>1, <1>2 DEF Answered
<1>4. s.regs = [r \in Reg(a) |-> IF r = "sp" THEN Raised(k.frame["sp"]) ELSE k.frame[r]]
  BY <1>1, <1>2 DEF Popped
<1>5. Answered(s.regs, A) = [r \in Reg(a) |-> IF r \in regs THEN A[r] ELSE s.regs[r]]
  BY <1>2, <1>4 DEF Answered
<1> DEFINE F == Answered(k.frame, A)
<1>6. Popped(F) = [r \in Reg(a) |-> IF r = "sp" THEN Raised(F["sp"]) ELSE F[r]]
  BY <1>2, <1>3 DEF Popped
<1>7. \A r \in Reg(a) : (IF r = "sp" THEN Raised(F["sp"]) ELSE F[r]) = IF r \in regs THEN A[r] ELSE s.regs[r]
  BY <1>2, <1>3, <1>4
<1> HIDE DEF F
<1>8. Popped(F) = Answered(s.regs, A)
  BY <1>5, <1>6, <1>7
<1> QED BY <1>8 DEF F

LEMMA ResumeKeeps ==
  ASSUME ContextInv, Resume
  PROVE  ContextInv'
<1>1. /\ arch \in Arch /\ running \in Thread /\ trap # Nil /\ trap.why = "syscall"
      /\ Frame(arch, seen[running], running, trap)
      /\ seen \in [Thread -> Stopped(arch) \union {Nil}]
  BY DEF ContextInv, ContextsTyped, InsideTrap, Resume
<1>2. PICK regs \in {{"ret"}, Return} :
        /\ InPlace(Answered(trap.frame, Answer(running, regs)), Port(ReturnX86, ReturnArm, ReturnRiscv))
        /\ seen' = [seen EXCEPT ![running].answer = Answer(running, regs)]
  BY DEF Resume
<1>3. PICK s : s = seen[running]
  OBVIOUS
<1>4. PICK A : A = Answer(running, regs)
  OBVIOUS
<1>5. PICK N : N = Answered(s.regs, A)
  OBVIOUS
<1>6. PICK to : to = Port(ReturnX86, ReturnArm, ReturnRiscv)
  OBVIOUS
<1>7. Frame(arch, s, running, trap) /\ regs \in SUBSET Return /\ Own(arch, running, s.regs)
  BY <1>1, <1>2, <1>3 DEF Return, Frame
<1>8. to.pc = s.pc /\ to.mode = "user"
  <2>1. /\ arch = "riscv64" => to = [pc |-> Step(trap.pc), mode |-> trap.liveMode]
        /\ arch # "riscv64" => to = [pc |-> trap.pc, mode |-> trap.mode]
    BY <1>1, <1>6, PortCases DEF ReturnX86, ReturnArm, ReturnRiscv
  <2> QED BY <1>1, <1>7, <2>1 DEF Frame
<1>9. Popped(Answered(trap.frame, A)) = N
  BY <1>1, <1>4, <1>5, <1>7, AnsweredPops
<1>10. cpu' = [regs |-> N, pc |-> s.pc, mode |-> "user", space |-> running]
  <2>1. cpu' = [regs |-> Popped(Answered(trap.frame, A)), pc |-> to.pc, mode |-> to.mode, space |-> trap.space]
    BY <1>2, <1>4, <1>6 DEF InPlace
  <2>2. trap.space = running
    BY <1>7 DEF Frame
  <2> QED BY <1>8, <1>9, <2>1, <2>2
<1>11. /\ DOMAIN A = regs /\ A \in [regs -> Word] /\ Own(arch, running, N)
       /\ \A r \in regs : N[r] = A[r]
       /\ \A r \in Reg(arch) \ regs : N[r] = s.regs[r]
  <2>1. Gives(arch, running, running, s.regs, regs, A, N)
    BY <1>1, <1>4, <1>5, <1>7 DEF Gives, InName
  <2>2. Given(arch, running, s.regs, regs, A, N)
    BY <2>1, AnswerGiven
  <2> QED BY <2>2 DEF Given
<1>12. s \in Stopped(arch) /\ s.pc \in Nat /\ s.why = "syscall"
  BY <1>1, <1>7, FrameParts DEF Frame
<1> DEFINE n == [s EXCEPT !.answer = A]
<1>13. n \in Stopped(arch) /\ n.answer = A /\ n.pc = s.pc /\ n.regs = s.regs /\ n.why = "syscall"
  BY <1>2, <1>11, <1>12 DEF Stopped
<1>14. seen' = [seen EXCEPT ![running] = n]
  BY <1>2, <1>3, <1>4
<1> HIDE DEF n
<1>15. \A r \in Promised(arch, n) : r \in Reg(arch) \ regs
  BY <1>1, <1>7, <1>13, PromisedRegs
<1>16. cpu' \in Context(arch)
  BY <1>1, <1>10, <1>11, <1>12 DEF Context, Mode, Own
<1>17. Finds(arch, n, cpu')
  BY <1>10, <1>11, <1>13, <1>15 DEF Finds
<1>18. Resumable(arch, n, running, cpu')
  BY <1>10, <1>11, <1>16, <1>17 DEF Resumable
<1> QED BY <1>2, <1>13, <1>14, <1>18, ReturnKeeps DEF InPlace, Resume

LEMMA ResumeTickKeeps ==
  ASSUME ContextInv, ResumeTick
  PROVE  ContextInv'
<1>1. PICK s : s = seen[running]
  OBVIOUS
<1>2. /\ arch \in Arch /\ running \in Thread /\ trap.why = "tick"
      /\ Frame(arch, s, running, trap) /\ seen \in [Thread -> Stopped(arch) \union {Nil}]
  BY <1>1 DEF ContextInv, ContextsTyped, InsideTrap, ResumeTick
<1>3. s \in Stopped(arch) /\ s # Nil /\ s.pc \in Nat /\ s.regs \in Registers(arch)
  BY <1>2, FrameParts
<1>4. cpu' = [regs |-> s.regs, pc |-> s.pc, mode |-> "user", space |-> running]
  BY <1>2 DEF ResumeTick, InPlace, Frame
<1>5. cpu' \in Context(arch)
  BY <1>2, <1>3, <1>4 DEF Context, Mode
<1>6. Finds(arch, s, cpu')
  BY <1>2, <1>4 DEF Finds, Frame
<1>7. Resumable(arch, s, running, cpu')
  BY <1>2, <1>4, <1>5, <1>6 DEF Resumable, Frame
<1>8. seen' = [seen EXCEPT ![running] = s]
  BY <1>1, <1>2 DEF ResumeTick
<1>9. s # Nil /\ s.why = "tick" => timer
  BY <1>1, <1>2 DEF ContextInv, TicksNeedTimer
<1>10. named' = named \/ (named = Nil /\ named' \in Thread /\ life[named'] = "alive")
  BY DEF ResumeTick
<1>11. trap' = Nil /\ UNCHANGED <<arch, timer, running, blob, holds, life, parked>>
  BY DEF ResumeTick, InPlace
<1> QED BY <1>3, <1>7, <1>8, <1>9, <1>10, <1>11, ReturnKeeps

LEMMA ResumeFaultKeeps ==
  ASSUME ContextInv, ResumeFault
  PROVE  ContextInv'
<1>1. PICK s : s = seen[running]
  OBVIOUS
<1>2. /\ arch \in Arch /\ running \in Thread /\ trap.why = "fault"
      /\ Frame(arch, s, running, trap) /\ seen \in [Thread -> Stopped(arch) \union {Nil}]
  BY <1>1 DEF ContextInv, ContextsTyped, InsideTrap, ResumeFault
<1>3. s \in Stopped(arch) /\ s # Nil /\ s.pc \in Nat /\ s.regs \in Registers(arch) /\ trap.frame \in Registers(arch)
      /\ \A r \in Reg(arch) \ {"sp"} : trap.frame[r] = s.regs[r]
  BY <1>2, FrameParts
<1>4. PICK v : v = Port(Zero, Zero, trap.frame["ret"])
  OBVIOUS
<1>5. "ret" \in Reg(arch) /\ "sp" \in Reg(arch)
  BY <1>2, RegNames
<1>6. v \in {Zero, s.regs["ret"]}
  BY <1>2, <1>3, <1>4, <1>5, PortCases
<1> DEFINE N == [s.regs EXCEPT !["ret"] = v]
<1>7. Popped([trap.frame EXCEPT !["ret"] = v]) = N
  <2>1. s.regs = [trap.frame EXCEPT !["sp"] = Raised(@)]
    BY <1>2 DEF Frame, Popped
  <2> QED BY <1>3, <1>5, <2>1 DEF Popped, Registers
<1>8. Own(arch, running, N)
  <2>1. Zero \in Word /\ Zero[1] = Nil
    BY DEF Zero, Word
  <2> QED BY <1>2, <1>5, <1>6, <2>1 DEF Frame, Own, Registers
<1>9. \A r \in Reg(arch) \ {"ret"} : N[r] = s.regs[r]
  BY <1>3 DEF Registers
<1>10. cpu' = [regs |-> N, pc |-> s.pc, mode |-> "user", space |-> running]
  <2>1. cpu' = [regs |-> Popped([trap.frame EXCEPT !["ret"] = v]), pc |-> trap.livePc,
                mode |-> trap.liveMode, space |-> trap.space]
    BY <1>4 DEF ResumeFault, InPlace
  <2> QED BY <1>2, <1>7, <2>1 DEF Frame
<1> HIDE DEF N
<1>11. cpu' \in Context(arch)
  BY <1>2, <1>3, <1>8, <1>10 DEF Context, Mode, Own
<1>12. Finds(arch, s, cpu')
  <2>1. \A r \in Promised(arch, s) : r \in Reg(arch) \ {"ret"}
    BY <1>2, <1>3, PromisedRegs DEF Frame
  <2> QED BY <1>2, <1>9, <1>10, <2>1 DEF Finds, Frame
<1>13. Resumable(arch, s, running, cpu')
  BY <1>8, <1>10, <1>11, <1>12 DEF Resumable
<1>14. seen' = [seen EXCEPT ![running] = s] /\ s.why = "fault"
  BY <1>1, <1>2 DEF ResumeFault, Frame
<1> QED BY <1>3, <1>13, <1>14, ReturnKeeps DEF ResumeFault, InPlace

\* The full save, on each port, of a trap nothing interrupted.
LEMMA SaveFullExact ==
  ASSUME arch \in Arch, NEW t \in Thread, NEW s, Frame(arch, s, t, trap), ~trap.waited
  PROVE  SaveFull = [regs |-> s.regs, pc |-> s.pc, mode |-> "user", space |-> t]
<1> DEFINE c == [regs |-> s.regs, pc |-> s.pc, mode |-> "user", space |-> t]
<1>1. arch = "x86_64" => SaveX86 = c
  BY DEF SaveX86, Frame
<1>2. arch = "arm64" => SaveArm = c
  BY DEF SaveArm, Frame
<1>3. arch = "riscv64" => SaveRiscv = c
  BY DEF SaveRiscv, Frame
<1> QED BY <1>1, <1>2, <1>3, PortCases DEF SaveFull

\* The threads involved in a switch.
LEMMA SwitchParts ==
  ASSUME ContextInv, NEW u \in Thread, trap # Nil, Other(u)
  PROVE  /\ arch \in Arch /\ running \in Thread /\ named \in Thread /\ life[named] = "alive" /\ life[u] = "alive"
         /\ u # named /\ u # running /\ Frame(arch, seen[running], running, trap)
         /\ Waits(arch, u, holds[u], seen[u], blob[u])
         /\ life[running] = "alive" => named = running /\ holds[running] = running
         /\ life[running] # "alive" => running = Root /\ life[Root] = "retired" /\ named # Root /\ trap.why = "tick"
  BY DEF ContextInv, ContextsTyped, InsideTrap, OthersResumable, NamesAgree, Other

\* TrapOutcome::SwitchTo, with and without the retirement of the Root Task.
LEMMA FullSwitchKeeps ==
  ASSUME ContextInv, NEW u \in Thread, MaySwitch, trap.why \in {"syscall", "tick"}, Other(u),
         blob' = [blob EXCEPT ![named] = SaveFull], holds' = [holds EXCEPT ![named] = running],
         Load(u, RestoreFull(blob[u])), named' = u, seen' = SeenBy(u, seen), arch' = arch,
         \/ UNCHANGED <<timer, life, parked>>
         \/ /\ trap.why = "syscall" /\ named = Root /\ timer' = TRUE
            /\ life' = [life EXCEPT ![Root] = "retired"] /\ parked' = seen[Root]
  PROVE  ContextInv'
<1> USE ThreadsAssumption
<1>1. PICK s : s = seen[running]
  OBVIOUS
<1>2. /\ arch \in Arch /\ running \in Thread /\ named \in Thread /\ life[named] = "alive" /\ life[u] = "alive"
      /\ u # named /\ u # running /\ Frame(arch, s, running, trap)
      /\ Waits(arch, u, holds[u], seen[u], blob[u])
      /\ life[running] = "alive" => named = running /\ holds[running] = running
      /\ life[running] # "alive" => running = Root /\ life[Root] = "retired" /\ named # Root /\ trap.why = "tick"
  BY <1>1, SwitchParts DEF MaySwitch
<1>3. s \in Stopped(arch) /\ s.pc \in Nat /\ s.regs \in Registers(arch) /\ s.why \in {"syscall", "tick"} /\ s.why = trap.why
  BY <1>2, FrameParts DEF Frame
<1> DEFINE c == [regs |-> s.regs, pc |-> s.pc, mode |-> "user", space |-> running]
<1>4. SaveFull = c
  BY <1>2, SaveFullExact DEF MaySwitch
<1>5. c \in Context(arch)
  BY <1>2, <1>3 DEF Context, Mode
<1>6. Finds(arch, s, c)
  BY <1>2 DEF Finds, Frame
<1>7. Resumable(arch, s, running, c) /\ Own(arch, running, c.regs)
  BY <1>2, <1>5, <1>6 DEF Resumable, Frame
<1> HIDE DEF c
<1>8. ContextsTyped
  BY DEF ContextInv
<1>9. /\ blob' \in [Thread -> Context(arch)] /\ blob'[named] = c
      /\ \A t \in Thread \ {named} : blob'[t] = blob[t]
  BY <1>2, <1>4, <1>5, <1>8 DEF ContextsTyped
<1>10. /\ holds' \in [Thread -> Thread] /\ holds'[named] = running
       /\ \A t \in Thread \ {named} : holds'[t] = holds[t]
  BY <1>2, <1>8 DEF ContextsTyped
<1>11. cpu' = blob[u] /\ running' = holds[u] /\ trap' = Nil
  <2>1. RestoreFull(blob[u]) = blob[u]
    BY <1>2, PortCases DEF RestoreFull, RestoreX86, RestoreArm, RestoreRiscv
  <2> QED BY <2>1 DEF Load
<1>12. holds[u] = u \/ (holds[u] = Root /\ life[Root] = "retired" /\ u # Root)
  BY <1>2 DEF ContextInv, HoldsOwnOrRoot
<1>13. /\ seen' \in [Thread -> Stopped(arch) \union {Nil}]
       /\ holds[u] = u => seen' = seen
       /\ holds[u] # u => seen'[Root] = Nil
       /\ \A t \in Thread : seen'[t] = seen[t] \/ (seen'[t] = Nil /\ t = Root /\ life[Root] = "retired")
  BY <1>8, <1>12 DEF SeenBy, ContextsTyped
<1>14. /\ life' \in [Thread -> {"unborn", "alive", "dead", "retired"}]
       /\ \A t \in Thread : life'[t] = life[t] \/ (t = Root /\ life[Root] = "alive" /\ life'[Root] = "retired")
       /\ timer' \in BOOLEAN /\ (timer => timer') /\ life'[u] = "alive"
  BY <1>2, <1>8, ThreadsAssumption DEF ContextsTyped
<1>15. ContextsTyped'
  <2>1. \A t \in Thread : Own(arch, holds'[t], blob'[t].regs)
    BY <1>2, <1>7, <1>8, <1>9, <1>10 DEF ContextsTyped
  <2>2. running' \in Thread
    BY <1>8, <1>11 DEF ContextsTyped
  <2> QED BY <1>2, <1>9, <1>10, <1>13, <1>14, <2>1, <2>2 DEF ContextsTyped
<1>16. OutsideTrap' /\ InsideTrap'
  <2>1. Resumable(arch, seen'[running'], running', cpu')
    BY <1>2, <1>11, <1>12, <1>13 DEF Waits
  <2> QED BY <1>11, <2>1 DEF OutsideTrap, InsideTrap
<1>17. OthersResumable'
  <2> SUFFICES ASSUME NEW t \in Thread, t # running', life'[t] = "alive"
               PROVE  Waits(arch, t, holds'[t], seen'[t], blob'[t])
    BY DEF OthersResumable
  <2>1. life[t] = "alive"
    BY <1>14
  <2>2. CASE t # named
    <3>1. t # running
      BY <1>2, <2>1, <2>2
    <3>2. Waits(arch, t, holds[t], seen[t], blob[t])
      BY <2>1, <3>1 DEF ContextInv, OthersResumable
    <3>3. holds'[t] = holds[t] /\ seen'[t] = seen[t] /\ blob'[t] = blob[t]
      BY <1>9, <1>10, <1>13, <2>1, <2>2
    <3> QED BY <3>2, <3>3
  <2>3. CASE t = named /\ life[running] = "alive"
    <3>1. t = running /\ holds'[t] = t /\ blob'[t] = c /\ seen'[t] = s
      BY <1>1, <1>2, <1>9, <1>10, <1>13, <2>3
    <3> QED BY <1>3, <1>7, <3>1 DEF Waits
  <2>4. CASE t = named /\ life[running] # "alive"
    <3>1. holds'[t] = Root /\ Root # t /\ blob'[t] = c /\ Resumable(arch, Nil, Root, c)
      BY <1>2, <1>7, <1>9, <1>10, <2>4 DEF Resumable
    <3> QED BY <3>1 DEF Waits
  <2> QED BY <2>2, <2>3, <2>4
<1>18. TicksNeedTimer'
  BY <1>13, <1>14 DEF ContextInv, TicksNeedTimer
<1>19. NamesAgree'
  BY <1>2, <1>10, <1>11, <1>12, <1>14 DEF NamesAgree
<1>20. HoldsOwnOrRoot'
  <2>1. \A t \in Thread : holds'[t] = t \/ (holds'[t] = Root /\ life'[Root] = "retired")
    BY <1>2, <1>10, <1>14 DEF ContextInv, HoldsOwnOrRoot
  <2>2. \A t \in Thread : life'[t] = "unborn" => holds'[t] = t /\ seen'[t] = Nil
    BY <1>2, <1>10, <1>13, <1>14 DEF ContextInv, HoldsOwnOrRoot
  <2> QED BY <2>1, <2>2 DEF HoldsOwnOrRoot
<1>21. RetiredParked'
  <2>1. CASE UNCHANGED <<timer, life, parked>>
    BY <1>2, <1>9, <1>10, <2>1 DEF ContextInv, RetiredParked
  <2>2. CASE trap.why = "syscall" /\ named = Root /\ timer' = TRUE /\ parked' = seen[Root]
    <3>1. running = Root /\ parked' = s /\ s.why = "syscall" /\ blob'[Root] = c /\ holds'[Root] = Root
      BY <1>1, <1>2, <1>3, <1>9, <1>10, <2>2
    <3> QED BY <1>3, <1>7, <2>2, <3>1 DEF RetiredParked
  <2> QED BY <2>1, <2>2
<1> QED BY <1>15, <1>16, <1>17, <1>18, <1>19, <1>20, <1>21 DEF ContextInv

LEMMA TerminateKeeps ==
  ASSUME ContextInv, NEW u \in Thread, Terminate(u)
  PROVE  ContextInv'
<1> USE ThreadsAssumption
<1>1. /\ arch \in Arch /\ running \in Thread /\ named = running /\ life[running] = "alive" /\ life[u] = "alive"
      /\ u # running /\ Waits(arch, u, holds[u], seen[u], blob[u]) /\ holds[running] = running
  <2>1. trap # Nil /\ trap.why = "fault" /\ Other(u)
    BY DEF Terminate
  <2> QED BY <2>1, SwitchParts
<1>2. ContextsTyped /\ (holds[u] = u \/ (holds[u] = Root /\ life[Root] = "retired" /\ u # Root))
  BY <1>1 DEF ContextInv, HoldsOwnOrRoot
<1>3. cpu' = blob[u] /\ running' = holds[u] /\ trap' = Nil
  <2>1. RestoreFull(blob[u]) = blob[u]
    BY <1>1, PortCases DEF RestoreFull, RestoreX86, RestoreArm, RestoreRiscv
  <2> QED BY <2>1 DEF Terminate, Load
<1>4. /\ named' = u /\ UNCHANGED <<arch, timer, blob, holds, parked>>
      /\ life' = [life EXCEPT ![running] = "dead"] /\ seen' = SeenBy(u, [seen EXCEPT ![running] = Nil])
  BY <1>1 DEF Terminate
<1>5. /\ life' \in [Thread -> {"unborn", "alive", "dead", "retired"}] /\ life'[running] = "dead" /\ life'[u] = "alive"
      /\ \A t \in Thread \ {running} : life'[t] = life[t]
  BY <1>1, <1>2, <1>4 DEF ContextsTyped
<1>6. /\ seen' \in [Thread -> Stopped(arch) \union {Nil}]
      /\ holds[u] = u => seen'[u] = seen[u]
      /\ holds[u] # u => seen'[Root] = Nil
      /\ \A t \in Thread \ {running} : seen'[t] = seen[t] \/ (seen'[t] = Nil /\ t = Root /\ life[Root] = "retired")
      /\ \A t \in Thread : seen'[t] = seen[t] \/ seen'[t] = Nil
  BY <1>1, <1>2, <1>4 DEF ContextsTyped, SeenBy
<1>7. running' \in Thread
  BY <1>2, <1>3 DEF ContextsTyped
<1>8. ContextsTyped'
  BY <1>2, <1>4, <1>5, <1>6, <1>7 DEF ContextsTyped
<1>9. OutsideTrap' /\ InsideTrap'
  <2>1. Resumable(arch, seen'[running'], running', cpu')
    BY <1>1, <1>2, <1>3, <1>6 DEF Waits
  <2> QED BY <1>3, <1>4, <2>1 DEF OutsideTrap, InsideTrap
<1>10. OthersResumable'
  <2> SUFFICES ASSUME NEW t \in Thread, t # running', life'[t] = "alive"
               PROVE  Waits(arch, t, holds[t], seen'[t], blob[t])
    BY <1>4 DEF OthersResumable
  <2>1. t # running /\ life[t] = "alive" /\ seen'[t] = seen[t]
    BY <1>5, <1>6
  <2> QED BY <2>1 DEF ContextInv, OthersResumable
<1>11. TicksNeedTimer'
  BY <1>4, <1>6 DEF ContextInv, TicksNeedTimer
<1>12. NamesAgree'
  BY <1>1, <1>2, <1>3, <1>4, <1>5 DEF NamesAgree
<1>13. HoldsOwnOrRoot'
  <2>1. life[Root] = "retired" => life'[Root] = "retired"
    BY <1>1, <1>5
  <2>2. \A t \in Thread : life'[t] = "unborn" => life[t] = "unborn" /\ (seen'[t] = seen[t] \/ seen'[t] = Nil)
    BY <1>5, <1>6
  <2> QED BY <1>4, <2>1, <2>2 DEF ContextInv, HoldsOwnOrRoot
<1>14. RetiredParked'
  <2>1. life'[Root] = "retired" => life[Root] = "retired"
    BY <1>1, <1>5
  <2> QED BY <1>4, <2>1 DEF ContextInv, RetiredParked
<1> QED BY <1>8, <1>9, <1>10, <1>11, <1>12, <1>13, <1>14 DEF ContextInv

LEMMA SpawnKeeps ==
  ASSUME ContextInv, NEW u \in Thread, Spawn(u)
  PROVE  ContextInv'
<1> USE ThreadsAssumption
<1>1. /\ ContextsTyped /\ arch \in Arch /\ life[u] = "unborn" /\ holds[u] = u /\ seen[u] = Nil
      /\ running \in Thread /\ u # running /\ u # named
  BY DEF ContextInv, ContextsTyped, HoldsOwnOrRoot, NamesAgree, Spawn
<1>2. PICK c : c = InitUserContext(u)
  OBVIOUS
<1>3. Resumable(arch, Nil, u, c) /\ c \in Context(arch)
  BY <1>1, <1>2, FreshResumable
<1>4. /\ blob' = [blob EXCEPT ![u] = c] /\ life' = [life EXCEPT ![u] = "alive"]
      /\ UNCHANGED <<arch, timer, running, named, cpu, trap, holds, seen, parked>>
  BY <1>2 DEF Spawn
<1>5. /\ blob' \in [Thread -> Context(arch)] /\ blob'[u] = c /\ \A t \in Thread : t # u => blob'[t] = blob[t]
      /\ life' \in [Thread -> {"unborn", "alive", "dead", "retired"}] /\ life'[u] = "alive"
      /\ \A t \in Thread : t # u => life'[t] = life[t]
  BY <1>1, <1>3, <1>4 DEF ContextsTyped
<1>6. Own(arch, u, c.regs)
  BY <1>3 DEF Resumable
<1>7. ContextsTyped'
  BY <1>1, <1>4, <1>5, <1>6 DEF ContextsTyped
<1>8. OutsideTrap' /\ InsideTrap' /\ TicksNeedTimer'
  BY <1>4 DEF ContextInv, OutsideTrap, InsideTrap, TicksNeedTimer
<1>9. OthersResumable'
  <2>1. Waits(arch, u, holds[u], seen[u], c)
    BY <1>1, <1>3 DEF Waits
  <2> QED BY <1>4, <1>5, <2>1 DEF ContextInv, OthersResumable
<1>10. NamesAgree'
  BY <1>1, <1>4, <1>5 DEF ContextInv, NamesAgree, ContextsTyped
<1>11. HoldsOwnOrRoot' /\ RetiredParked'
  BY <1>1, <1>4, <1>5 DEF ContextInv, HoldsOwnOrRoot, RetiredParked
<1> QED BY <1>7, <1>8, <1>9, <1>10, <1>11 DEF ContextInv

\* What the fast pair leaves out is scratch alone, and zeroed.
LEMMA FastRegs ==
  ASSUME arch \in Arch, NEW F, F = Port(FastX86, FastArm, FastRiscv),
         NEW Z, Z = Port(ZeroedX86, ZeroedArm, ZeroedRiscv)
  PROVE  /\ Return \subseteq F /\ "sp" \in F /\ "scratch" \notin F /\ Z = {"scratch"}
         /\ \A r \in Reg(arch) : r \in F \/ r = "scratch"
<1>1. /\ arch = "x86_64" => F = FastX86
      /\ arch # "x86_64" => F = {"kept", "sp", "ret", "ret2"}
      /\ Z = {"scratch"}
  BY PortCases DEF FastArm, FastRiscv, ZeroedX86, ZeroedArm, ZeroedRiscv
<1>2. \A r \in Reg(arch) : r \in {"kept", "sp", "scratch", "ret", "ret2"} \/ (r = "rdi" /\ arch = "x86_64")
  BY RegNames
<1> QED BY <1>1, <1>2 DEF FastX86, Return

\* The fast save: the thread finds again all but scratch, whatever an earlier
\* save left in its slot.
LEMMA SaveFastResumable ==
  ASSUME arch \in Arch, NEW t \in Thread, NEW s, Frame(arch, s, t, trap), ~trap.waited,
         s.why = "syscall", NEW old \in Context(arch), Own(arch, t, old.regs),
         NEW n, n = [s EXCEPT !.fast = TRUE]
  PROVE  /\ n \in Stopped(arch) /\ n.why = "syscall"
         /\ SaveFast(old) \in Context(arch) /\ Own(arch, t, SaveFast(old).regs)
         /\ Resumable(arch, n, t, SaveFast(old))
<1>1. PICK F : F = Port(FastX86, FastArm, FastRiscv)
  OBVIOUS
<1>2. PICK Z : Z = Port(ZeroedX86, ZeroedArm, ZeroedRiscv)
  OBVIOUS
<1>3. "sp" \in F /\ \A r \in Reg(arch) : r \in F \/ r = "scratch"
  BY <1>1, <1>2, FastRegs
<1>4. s \in Stopped(arch) /\ s.pc \in Nat /\ s.regs \in Registers(arch) /\ Own(arch, t, s.regs)
      /\ s.answer = [r \in {} |-> Zero]
  BY FrameParts DEF Frame
<1>5. n \in Stopped(arch) /\ n.why = "syscall" /\ n.fast = TRUE /\ n.pc = s.pc /\ n.regs = s.regs
      /\ n.answer = s.answer
  BY <1>4 DEF Stopped
<1> DEFINE N == [r \in Reg(arch) |-> IF r \in F THEN s.regs[r] ELSE old.regs[r]]
           c == [regs |-> N, pc |-> s.pc, mode |-> "user", space |-> t]
<1>6. SaveFast(old) = c
  <2>1. SaveFull = [regs |-> s.regs, pc |-> s.pc, mode |-> "user", space |-> t]
    BY SaveFullExact
  <2>2. DOMAIN s.regs = Reg(arch)
    BY <1>4 DEF Registers
  <2> QED BY <1>1, <2>1, <2>2 DEF SaveFast
<1>7. Own(arch, t, N)
  BY <1>3, <1>4, RegNames DEF Own, Registers
<1>8. c \in Context(arch)
  BY <1>4, <1>7 DEF Context, Mode, Own
<1>9. \A r \in Promised(arch, n) : N[r] = s.regs[r]
  BY <1>3, <1>5, PromisedRegs
<1> HIDE DEF N
<1>10. Finds(arch, n, c)
  BY <1>4, <1>5, <1>9 DEF Finds
<1>11. Resumable(arch, n, t, c)
  BY <1>7, <1>8, <1>10 DEF Resumable
<1> HIDE DEF c
<1>12. Own(arch, t, c.regs)
  BY <1>11 DEF Resumable
<1> QED BY <1>5, <1>6, <1>8, <1>11, <1>12

\* s once the fast path has run its thread, with an answer unless regs is empty.
Woken(s, regs, A) ==
  IF s = Nil THEN s ELSE [s EXCEPT !.fast = TRUE, !.answer = IF regs # {} THEN A ELSE @]

\* The answer A, meant for x, wakes t's program, which s says waits with c.
Wakes(a, t, s, c, x, regs, A, n) ==
  /\ a \in Arch /\ t \in Thread /\ s \in Stopped(a) \union {Nil} /\ regs \in {{}, Return} /\ x \in Thread
  /\ Resumable(a, s, t, c) /\ (s # Nil => s.why \in {"syscall", "tick"}) /\ InName(x, t)
  /\ A = Answer(x, regs) /\ n = Woken(s, regs, A)

Woke(a, t, s, c, A, n, restored) ==
  /\ n \in Stopped(a) \union {Nil} /\ (n # Nil => s # Nil /\ n.why = s.why)
  /\ Poke(c, A) \in Context(a) /\ Own(a, t, Poke(c, A).regs)
  /\ Resumable(a, Nil, t, Poke(c, A))
  /\ Resumable(a, n, t, restored)

\* Poking an answer meant for x into t's context and restoring it the fast way.
LEMMA RestoreFastResumable ==
  ASSUME NEW t, NEW s, NEW c, NEW x, NEW regs, NEW A, NEW n, Wakes(arch, t, s, c, x, regs, A, n)
  PROVE  Woke(arch, t, s, c, A, n, RestoreFast(Poke(c, A)))
<1>0. arch \in Arch /\ t \in Thread /\ s \in Stopped(arch) \union {Nil} /\ regs \in {{}, Return} /\ x \in Thread
  BY DEF Wakes
<1> USE <1>0
<1>1. PICK F : F = Port(FastX86, FastArm, FastRiscv)
  OBVIOUS
<1>2. PICK Z : Z = Port(ZeroedX86, ZeroedArm, ZeroedRiscv)
  OBVIOUS
<1>3. /\ Return \subseteq F /\ "sp" \in F /\ "scratch" \notin F /\ Z = {"scratch"}
      /\ \A r \in Reg(arch) : r \in F \/ r = "scratch"
  BY <1>1, <1>2, FastRegs
<1>4. c \in Context(arch) /\ c.mode = "user" /\ c.space = t /\ Own(arch, t, c.regs)
  BY DEF Resumable, Wakes
<1>5. PICK N : N = Answered(c.regs, A)
  OBVIOUS
<1>6. /\ DOMAIN A = regs /\ A \in [regs -> Word] /\ Own(arch, t, N)
      /\ \A r \in regs : N[r] = A[r]
      /\ \A r \in Reg(arch) \ regs : N[r] = c.regs[r]
  <2>1. regs \in SUBSET Return
    OBVIOUS
  <2>2. Gives(arch, t, x, c.regs, regs, A, N)
    BY <1>4, <1>5, <2>1 DEF Gives, Wakes
  <2>3. Given(arch, t, c.regs, regs, A, N)
    BY <2>2, AnswerGiven
  <2> QED BY <2>3 DEF Given
<1>7. Poke(c, A) = [c EXCEPT !.regs = N] /\ N \in Registers(arch)
  BY <1>5, <1>6 DEF Poke, Own
<1>8. Poke(c, A) \in Context(arch) /\ Poke(c, A).regs = N
      /\ Resumable(arch, Nil, t, Poke(c, A))
  BY <1>4, <1>6, <1>7 DEF Context, Resumable
<1> DEFINE M == [r \in Reg(arch) |-> IF r \in F THEN N[r] ELSE Zero]
           d == [regs |-> M, pc |-> c.pc, mode |-> "user", space |-> t]
<1>9. RestoreFast(Poke(c, A)) = d
  <2>1. PICK p : p = Poke(c, A)
    OBVIOUS
  <2>2. p \in [regs : Registers(arch), pc : Nat, mode : Mode, space : Thread] /\ p.regs = N
        /\ p.pc = c.pc /\ p.mode = "user" /\ p.space = t
    BY <1>4, <1>7, <1>8, <2>1 DEF Context
  <2>3. DOMAIN N = Reg(arch)
    BY <1>7 DEF Registers
  <2>4. RestoreFast(p) = [p EXCEPT !.regs = M]
    <3>1. RestoreFast(p) = [p EXCEPT !.regs = [r \in DOMAIN @ |-> IF r \in F THEN @[r] ELSE IF r \in Z THEN Zero ELSE trap.frame[r]]]
      BY <1>1, <1>2 DEF RestoreFast
    <3>2. [r \in Reg(arch) |-> IF r \in F THEN N[r] ELSE IF r \in Z THEN Zero ELSE trap.frame[r]] = M
      BY <1>3
    <3> HIDE DEF M
    <3> QED BY <2>2, <2>3, <3>1, <3>2
  <2> HIDE DEF M
  <2>5. [p EXCEPT !.regs = M] = d
    BY <2>2
  <2> QED BY <2>1, <2>4, <2>5
<1>10. Own(arch, t, M)
  <2>1. Zero \in Word /\ Zero[1] = Nil
    BY DEF Zero, Word
  <2> QED BY <1>3, <1>6, <2>1, RegNames DEF Own, Registers
<1>11. \A r \in Reg(arch) : r # "scratch" => M[r] = N[r]
  BY <1>3
<1> HIDE DEF M
<1>12. d \in Context(arch)
  BY <1>4, <1>10 DEF Context, Mode, Own
<1>13. CASE s = Nil
  <2>1. n = Nil
    BY <1>13 DEF Woken, Wakes
  <2>2. Resumable(arch, n, t, d)
    BY <1>10, <1>12, <2>1 DEF Resumable
  <2> QED BY <1>6, <1>8, <1>9, <2>1, <2>2 DEF Woke
<1>14. CASE s # Nil
  <2>1. s \in Stopped(arch) /\ s.why \in {"syscall", "tick"} /\ Finds(arch, s, c)
    BY <1>14 DEF Resumable, Wakes
  <2>2. PICK w : w = IF regs # {} THEN A ELSE s.answer
    OBVIOUS
  <2>3. n = [s EXCEPT !.fast = TRUE, !.answer = w]
    BY <1>14, <2>2 DEF Woken, Wakes
  <2>4. w \in [{} -> Word] \union [{"ret"} -> Word] \union [Return -> Word]
    BY <1>6, <2>1, <2>2 DEF Stopped
  <2>5. n \in Stopped(arch) /\ n.why = s.why /\ n.fast = TRUE /\ n.answer = w /\ n.pc = s.pc /\ n.regs = s.regs
    BY <2>1, <2>3, <2>4 DEF Stopped
  <2>6. \A r \in Promised(arch, n) : r \in Reg(arch) /\ r \notin regs /\ r # "scratch" /\ r \in Promised(arch, s)
    <3>1. PICK f : f = Clobbered(s)
      OBVIOUS
    <3>2. f \subseteq {"scratch"} /\ Clobbered(n) = {"scratch"}
      BY <2>5, <3>1 DEF Clobbered
    <3>3. CASE s.why = "syscall"
      <4>1. Promised(arch, s) = Reg(arch) \ (Return \union f) /\ Promised(arch, n) = Reg(arch) \ (Return \union {"scratch"})
        BY <2>5, <3>1, <3>2, <3>3 DEF Promised
      <4> QED BY <3>2, <4>1
    <3>4. CASE s.why = "tick"
      <4>1. /\ Promised(arch, s) = Reg(arch) \ (DOMAIN s.answer \union f)
            /\ Promised(arch, n) = Reg(arch) \ (DOMAIN w \union {"scratch"})
        BY <2>5, <3>1, <3>2, <3>4 DEF Promised
      <4>2. DOMAIN s.answer \subseteq DOMAIN w /\ regs \subseteq DOMAIN w
        <5>1. DOMAIN s.answer \subseteq Return
          BY <2>1 DEF Stopped, Return
        <5>2. CASE regs = {} BY <2>2, <5>2
        <5>3. CASE regs = Return /\ regs # {} BY <1>6, <2>2, <5>1, <5>3
        <5> QED BY <5>2, <5>3
      <4> QED BY <3>2, <4>1, <4>2
    <3> QED BY <2>1, <3>3, <3>4
  <2>7. \A r \in Promised(arch, n) : M[r] = s.regs[r]
    BY <1>6, <1>11, <2>1, <2>6 DEF Finds
  <2>8. \A r \in DOMAIN w : M[r] = w[r]
    <3>0. DOMAIN w \subseteq Return /\ \A r \in Return : r \in Reg(arch) /\ r # "scratch"
      BY <2>4, RegNames DEF Return
    <3>1. CASE regs # {}
      BY <1>6, <1>11, <2>2, <3>0, <3>1
    <3>2. CASE regs = {}
      BY <1>6, <1>11, <2>1, <2>2, <3>0, <3>2 DEF Finds
    <3> QED BY <3>1, <3>2
  <2>9. c.pc = s.pc
    BY <2>1 DEF Finds
  <2>10. Finds(arch, n, d)
    BY <2>5, <2>7, <2>8, <2>9 DEF Finds
  <2>11. Resumable(arch, n, t, d)
    BY <1>10, <1>12, <2>10 DEF Resumable
  <2>12. /\ n \in Stopped(arch) \union {Nil} /\ (n # Nil => s # Nil /\ n.why = s.why)
         /\ Own(arch, t, Poke(c, A).regs) /\ Resumable(arch, n, t, RestoreFast(Poke(c, A)))
    BY <1>6, <1>8, <1>9, <1>14, <2>5, <2>11
  <2> QED BY <1>8, <2>12 DEF Woke
<1> QED BY <1>13, <1>14

LEMMA SwitchToFastKeeps ==
  ASSUME ContextInv, NEW u \in Thread, SwitchToFast(u)
  PROVE  ContextInv'
<1> USE ThreadsAssumption
<1>1. PICK s : s = seen[running]
  OBVIOUS
<1>2. PICK v : v = seen[u]
  OBVIOUS
<1>H. PICK h : h = holds[u]
  OBVIOUS
<1>3. /\ ContextsTyped /\ arch \in Arch /\ running \in Thread /\ trap.why = "syscall" /\ ~trap.waited
      /\ u # running /\ life[u] = "alive" /\ Frame(arch, s, running, trap)
      /\ named = running /\ life[running] = "alive" /\ holds[running] = running
      /\ Waits(arch, u, h, v, blob[u])
  <2>1. trap # Nil /\ trap.why = "syscall" /\ Other(u) /\ ~trap.waited
    BY DEF SwitchToFast, MaySwitch
  <2> QED BY <1>1, <1>2, <1>H, <2>1, SwitchParts DEF ContextInv, NamesAgree
<1>4. h = u \/ (h = Root /\ h # u /\ h # running /\ life[Root] = "retired")
  BY <1>3, <1>H DEF ContextInv, HoldsOwnOrRoot
<1>5. PICK regs \in {{}, Return} :
       /\ blob' = [blob EXCEPT ![running] = SaveFast(@), ![u] = Poke(@, Answer(u, regs))]
       /\ cpu' = RestoreFast(Poke(blob[u], Answer(u, regs)))
       /\ seen' = SeenBy(u, [t \in Thread |->
                     IF t \notin {u, running} \/ seen[t] = Nil THEN seen[t]
                     ELSE [seen[t] EXCEPT !.fast = TRUE,
                             !.answer = IF t = u /\ regs # {} THEN Answer(u, regs) ELSE @]])
  BY <1>3 DEF SwitchToFast, Load
<1>6. s \in Stopped(arch) /\ s # Nil /\ s.why = "syscall"
  BY <1>3, FrameParts DEF Frame
<1>7. v \in Stopped(arch) \union {Nil}
  BY <1>2, <1>3 DEF ContextsTyped
<1>8. PICK A : A = Answer(u, regs)
  OBVIOUS
<1>9. PICK n : n = [s EXCEPT !.fast = TRUE]
  OBVIOUS
<1>10. PICK w : w = Woken(v, regs, A)
  OBVIOUS
<1>11. PICK b : b = blob[running]
  OBVIOUS
<1>12. PICK c : c = blob[u]
  OBVIOUS
<1>13. b \in Context(arch) /\ Own(arch, running, b.regs)
  BY <1>3, <1>11 DEF ContextsTyped
<1>14. /\ n \in Stopped(arch) /\ n.why = "syscall"
       /\ SaveFast(b) \in Context(arch) /\ Own(arch, running, SaveFast(b).regs)
       /\ Resumable(arch, n, running, SaveFast(b))
  BY <1>3, <1>6, <1>9, <1>13, SaveFastResumable
<1>15. PICK p : p = SaveFast(b)
  OBVIOUS
<1>16. PICK q : q = Poke(c, A)
  OBVIOUS
<1>17. cpu' = RestoreFast(q)
  BY <1>5, <1>8, <1>12, <1>16
<1>18. PICK z : z = IF h = u THEN w ELSE Nil
  OBVIOUS
<1>19. /\ w \in Stopped(arch) \union {Nil} /\ (w # Nil => v # Nil /\ w.why = v.why)
       /\ q \in Context(arch) /\ Own(arch, h, q.regs) /\ Resumable(arch, Nil, h, q)
       /\ Resumable(arch, z, h, RestoreFast(q))
  <2>1. CASE h = u
    <3>1. Resumable(arch, v, u, c) /\ (v # Nil => v.why \in {"syscall", "tick"})
      BY <1>3, <1>12, <2>1 DEF Waits
    <3>2. /\ w \in Stopped(arch) \union {Nil} /\ (w # Nil => v # Nil /\ w.why = v.why)
          /\ Poke(c, A) \in Context(arch) /\ Own(arch, u, Poke(c, A).regs)
          /\ Resumable(arch, Nil, u, Poke(c, A))
          /\ Resumable(arch, w, u, RestoreFast(Poke(c, A)))
      <4>1. Wakes(arch, u, v, c, u, regs, A, w)
        BY <1>3, <1>7, <1>8, <1>10, <3>1 DEF Wakes, InName
      <4>2. Woke(arch, u, v, c, A, w, RestoreFast(Poke(c, A)))
        BY <4>1, RestoreFastResumable
      <4> QED BY <4>2 DEF Woke
    <3> QED BY <1>16, <1>18, <2>1, <3>2
  <2>2. CASE h # u
    <3>1. h = Root /\ Resumable(arch, Nil, Root, c) /\ Root \in Thread /\ Nil \in Stopped(arch) \union {Nil}
      BY <1>3, <1>4, <1>12, <2>2 DEF Waits
    <3>2. Nil = Woken(Nil, regs, A)
      BY DEF Woken
    <3>3. /\ Poke(c, A) \in Context(arch) /\ Own(arch, Root, Poke(c, A).regs)
          /\ Resumable(arch, Nil, Root, Poke(c, A))
          /\ Resumable(arch, Nil, Root, RestoreFast(Poke(c, A)))
      <4>1. Wakes(arch, Root, Nil, c, u, regs, A, Nil)
        BY <1>3, <1>8, <3>1, <3>2 DEF Wakes, InName
      <4>2. Woke(arch, Root, Nil, c, A, Nil, RestoreFast(Poke(c, A)))
        BY <4>1, RestoreFastResumable
      <4> QED BY <4>2 DEF Woke
    <3>4. w \in Stopped(arch) \union {Nil} /\ (w # Nil => v # Nil /\ w.why = v.why)
      <4>1. CASE v = Nil BY <1>10, <4>1 DEF Woken
      <4>2. CASE v # Nil
        <5>1. A \in [{} -> Word] \union [Return -> Word] /\ DOMAIN A = regs
          BY <1>8 DEF Answer, Value, Word
        <5>2. PICK y : y = IF regs # {} THEN A ELSE v.answer
          OBVIOUS
        <5>3. y \in [{} -> Word] \union [{"ret"} -> Word] \union [Return -> Word]
          BY <1>7, <4>2, <5>1, <5>2 DEF Stopped
        <5>4. w = [v EXCEPT !.fast = TRUE, !.answer = y]
          BY <1>10, <4>2, <5>2 DEF Woken
        <5> QED BY <1>7, <4>2, <5>3, <5>4 DEF Stopped
      <4> QED BY <4>1, <4>2
    <3> QED BY <1>16, <1>18, <2>2, <3>1, <3>3, <3>4
  <2> QED BY <2>1, <2>2
<1>20. blob' = [blob EXCEPT ![running] = p, ![u] = q]
  BY <1>3, <1>5, <1>8, <1>11, <1>12, <1>15, <1>16 DEF ContextsTyped
<1>21. /\ blob' \in [Thread -> Context(arch)] /\ blob'[running] = p /\ blob'[u] = q
       /\ \A t \in Thread \ {u, running} : blob'[t] = blob[t]
  BY <1>3, <1>14, <1>15, <1>19, <1>20 DEF ContextsTyped
<1> DEFINE S == [t \in Thread |->
                  IF t \notin {u, running} \/ seen[t] = Nil THEN seen[t]
                  ELSE [seen[t] EXCEPT !.fast = TRUE,
                          !.answer = IF t = u /\ regs # {} THEN Answer(u, regs) ELSE @]]
<1>22. S[running] = n
  <2>1. S[running] = [s EXCEPT !.fast = TRUE, !.answer = s.answer]
    BY <1>1, <1>3, <1>6
  <2>2. [s EXCEPT !.fast = TRUE, !.answer = s.answer] = [s EXCEPT !.fast = TRUE]
    BY <1>6 DEF Stopped
  <2> QED BY <1>9, <2>1, <2>2
<1>23. S[u] = w
  BY <1>2, <1>8, <1>10 DEF Woken
<1>24. \A t \in Thread \ {u, running} : S[t] = seen[t]
  OBVIOUS
<1>25. DOMAIN S = Thread /\ seen' = SeenBy(u, S)
  BY <1>5
<1> HIDE DEF S
<1>26. S \in [Thread -> Stopped(arch) \union {Nil}]
  <2>1. S = [t \in Thread |-> S[t]]
    BY DEF S
  <2>2. \A t \in Thread : S[t] \in Stopped(arch) \union {Nil}
    BY <1>3, <1>14, <1>19, <1>22, <1>23, <1>24 DEF ContextsTyped
  <2> QED BY <2>1, <2>2
<1>27. /\ seen' \in [Thread -> Stopped(arch) \union {Nil}] /\ seen'[h] = z
       /\ seen'[running] = n /\ seen'[u] = w
       /\ \A t \in Thread \ {u, running, h} : seen'[t] = seen[t]
  <2>1. CASE h = u
    <3>1. seen' = S
      BY <1>25, <1>H, <2>1 DEF SeenBy
    <3> QED BY <1>18, <1>22, <1>23, <1>24, <1>26, <2>1, <3>1
  <2>2. CASE h # u
    <3>1. seen' = [S EXCEPT ![h] = Nil]
      BY <1>25, <1>H, <2>2 DEF SeenBy
    <3> QED BY <1>3, <1>4, <1>18, <1>22, <1>23, <1>24, <1>26, <2>2, <3>1
  <2> QED BY <2>1, <2>2
<1>28. /\ running' = h /\ named' = u /\ trap' = Nil /\ UNCHANGED <<arch, timer, life, holds, parked>>
  <2>1. holds' = [holds EXCEPT ![running] = running] /\ holds \in [Thread -> Thread]
    BY <1>3 DEF SwitchToFast, ContextsTyped
  <2>2. holds' = holds
    BY <1>3, <2>1
  <2> QED BY <1>H, <2>2 DEF SwitchToFast, Load
<1>29. Own(arch, running, p.regs) /\ Resumable(arch, n, running, p) /\ Resumable(arch, z, h, cpu')
  BY <1>14, <1>15, <1>17, <1>19
<1>30. ContextsTyped'
  <2>1. \A t \in Thread : Own(arch, holds[t], blob'[t].regs)
    BY <1>3, <1>19, <1>21, <1>29, <1>H DEF ContextsTyped
  <2>2. h \in Thread
    BY <1>4
  <2> QED BY <1>3, <1>21, <1>27, <1>28, <2>1, <2>2 DEF ContextsTyped
<1>31. OutsideTrap' /\ InsideTrap'
  BY <1>27, <1>28, <1>29 DEF OutsideTrap, InsideTrap
<1>32. OthersResumable'
  <2> SUFFICES ASSUME NEW t \in Thread, t # h, life[t] = "alive"
               PROVE  Waits(arch, t, holds[t], seen'[t], blob'[t])
    BY <1>28 DEF OthersResumable
  <2>1. CASE t = running
    BY <1>3, <1>14, <1>21, <1>27, <1>29, <2>1 DEF Waits
  <2>2. CASE t = u
    BY <1>4, <1>19, <1>21, <1>H, <2>2 DEF Waits
  <2>3. CASE t \notin {u, running}
    BY <1>21, <1>27, <2>3 DEF ContextInv, OthersResumable
  <2> QED BY <2>1, <2>2, <2>3
<1>33. TicksNeedTimer'
  <2> SUFFICES ASSUME NEW t \in Thread, seen'[t] # Nil, seen'[t].why = "tick"
               PROVE  timer
    BY <1>28 DEF TicksNeedTimer
  <2>1. t # running
    BY <1>14, <1>27
  <2>2. CASE t = u
    BY <1>2, <1>19, <1>27, <2>2 DEF ContextInv, TicksNeedTimer
  <2>3. CASE t # u /\ t # h
    BY <1>27, <2>1, <2>3 DEF ContextInv, TicksNeedTimer
  <2>4. CASE t # u /\ t = h
    BY <1>18, <1>27, <2>4
  <2> QED BY <2>2, <2>3, <2>4
<1>34. NamesAgree'
  BY <1>3, <1>4, <1>28, <1>H DEF NamesAgree
<1>35. RetiredParked'
  <2> SUFFICES ASSUME life[Root] = "retired"
               PROVE  /\ timer /\ holds[Root] = Root
                      /\ parked \in Stopped(arch) /\ parked.why = "syscall"
                      /\ Resumable(arch, parked, Root, blob'[Root])
    BY <1>28 DEF RetiredParked
  <2>1. blob'[Root] = blob[Root]
    BY <1>3, <1>21
  <2> QED BY <2>1 DEF ContextInv, RetiredParked
<1>36. HoldsOwnOrRoot'
  <2>1. \A t \in Thread : life[t] = "unborn" => t \notin {u, running, h}
    BY <1>3, <1>4
  <2> QED BY <1>27, <1>28, <2>1 DEF ContextInv, HoldsOwnOrRoot
<1> QED BY <1>30, <1>31, <1>32, <1>33, <1>34, <1>35, <1>36 DEF ContextInv

\* A context nothing was poked into.
LEMMA PokeNothing ==
  ASSUME arch \in Arch, NEW c \in Context(arch), NEW t
  PROVE  Poke(c, Answer(t, {})) = c
<1>1. PICK R : R = c.regs
  OBVIOUS
<1>2. PICK A : A = Answer(t, {})
  OBVIOUS
<1>3. R \in [Reg(arch) -> Word] /\ DOMAIN A = {}
  BY <1>1, <1>2 DEF Context, Registers, Answer
<1>4. Answered(R, A) = R
  BY <1>3 DEF Answered
<1> QED BY <1>1, <1>2, <1>4 DEF Poke, Context

\* IPC_RECV of a service once the Root Task is retired.
LEMMA RecvIntoRetiredKeeps ==
  ASSUME ContextInv, RecvIntoRetired
  PROVE  ContextInv'
<1> USE ThreadsAssumption
<1>1. PICK s : s = seen[running]
  OBVIOUS
<1>2. /\ ContextsTyped /\ arch \in Arch /\ running \in Thread /\ trap.why = "syscall" /\ ~trap.waited
      /\ Frame(arch, s, running, trap) /\ life[Root] = "retired" /\ running # Root
      /\ named = running /\ life[running] = "alive" /\ holds[running] = running
  BY <1>1 DEF ContextInv, ContextsTyped, InsideTrap, NamesAgree, RecvIntoRetired, MaySwitch
<1>3. /\ timer /\ holds[Root] = Root /\ parked \in Stopped(arch) /\ parked.why = "syscall"
      /\ Resumable(arch, parked, Root, blob[Root])
  BY <1>2 DEF ContextInv, RetiredParked
<1>4. PICK n : n = [s EXCEPT !.fast = TRUE]
  OBVIOUS
<1>5. PICK w : w = [parked EXCEPT !.fast = TRUE]
  OBVIOUS
<1>6. PICK b : b = blob[running]
  OBVIOUS
<1>7. PICK c : c = blob[Root]
  OBVIOUS
<1>8. s \in Stopped(arch) /\ s # Nil /\ s.why = "syscall"
  BY <1>2, FrameParts DEF Frame
<1>9. b \in Context(arch) /\ Own(arch, running, b.regs) /\ c \in Context(arch)
  BY <1>2, <1>6, <1>7 DEF ContextsTyped
<1>10. PICK p : p = SaveFast(b)
  OBVIOUS
<1>11. /\ n \in Stopped(arch) /\ n.why = "syscall" /\ p \in Context(arch)
       /\ Own(arch, running, p.regs) /\ Resumable(arch, n, running, p)
  BY <1>2, <1>4, <1>8, <1>9, <1>10, SaveFastResumable
<1>12. w \in Stopped(arch) /\ w.why = "syscall" /\ Resumable(arch, w, Root, RestoreFast(c))
  <2>1. PICK A : A = Answer(Root, {})
    OBVIOUS
  <2>2. PICK x : x = Woken(parked, {}, A)
    OBVIOUS
  <2>3. parked # Nil
    BY <1>2, <1>3, NilAssumption
  <2>4. /\ x \in Stopped(arch) \union {Nil} /\ (x # Nil => x.why = "syscall")
        /\ Resumable(arch, x, Root, RestoreFast(Poke(c, A)))
    <3>1. {} \in {{}, Return} /\ Wakes(arch, Root, parked, c, Root, {}, A, x)
      BY <1>2, <1>3, <1>7, <2>1, <2>2 DEF Wakes, InName
    <3>2. Woke(arch, Root, parked, c, A, x, RestoreFast(Poke(c, A)))
      BY <3>1, RestoreFastResumable
    <3> QED BY <1>3, <3>2 DEF Woke
  <2>5. x = w
    <3>1. x = [parked EXCEPT !.fast = TRUE, !.answer = parked.answer]
      BY <2>2, <2>3 DEF Woken
    <3>2. [parked EXCEPT !.fast = TRUE, !.answer = parked.answer] = [parked EXCEPT !.fast = TRUE]
      BY <1>3 DEF Stopped
    <3> QED BY <1>5, <3>1, <3>2
  <2>6. Poke(c, A) = c
    BY <1>2, <1>9, <2>1, PokeNothing
  <2>7. w \in Stopped(arch) /\ w.why = parked.why
    BY <1>3, <1>5 DEF Stopped
  <2> QED BY <1>3, <2>4, <2>5, <2>6, <2>7
<1>13. /\ cpu' = RestoreFast(c) /\ running' = Root /\ trap' = Nil /\ named' = Nil
       /\ UNCHANGED <<arch, timer, life, parked>>
  BY <1>3, <1>7 DEF RecvIntoRetired, Load
<1>14. blob' = [blob EXCEPT ![running] = p] /\ holds' = [holds EXCEPT ![running] = running]
  BY <1>2, <1>6, <1>10 DEF RecvIntoRetired
<1>15. /\ blob' \in [Thread -> Context(arch)] /\ blob'[running] = p
       /\ \A t \in Thread \ {running} : blob'[t] = blob[t]
       /\ holds' = holds
  BY <1>2, <1>11, <1>14 DEF ContextsTyped
<1>16. /\ seen'[running] = n /\ seen'[Root] = w
       /\ seen' \in [Thread -> Stopped(arch) \union {Nil}]
       /\ \A t \in Thread \ {running, Root} : seen'[t] = seen[t]
  <2>1. seen' = [seen EXCEPT ![running] = n, ![Root] = w]
    BY <1>1, <1>2, <1>4, <1>5 DEF RecvIntoRetired, ContextsTyped
  <2> QED BY <1>2, <1>11, <1>12, <2>1 DEF ContextsTyped
<1>17. ContextsTyped'
  BY <1>2, <1>11, <1>13, <1>15, <1>16 DEF ContextsTyped
<1>18. OutsideTrap' /\ InsideTrap'
  BY <1>12, <1>13, <1>16 DEF OutsideTrap, InsideTrap
<1>19. OthersResumable'
  <2> SUFFICES ASSUME NEW t \in Thread, t # Root, life[t] = "alive"
               PROVE  Waits(arch, t, holds[t], seen'[t], blob'[t])
    BY <1>13, <1>15 DEF OthersResumable
  <2>1. CASE t = running
    BY <1>2, <1>11, <1>15, <1>16, <2>1 DEF Waits
  <2>2. CASE t # running
    BY <1>15, <1>16, <2>2 DEF ContextInv, OthersResumable
  <2> QED BY <2>1, <2>2
<1>20. TicksNeedTimer'
  BY <1>3, <1>13 DEF TicksNeedTimer
<1>21. NamesAgree'
  BY <1>2, <1>13 DEF NamesAgree
<1>22. HoldsOwnOrRoot' /\ RetiredParked'
  BY <1>2, <1>3, <1>13, <1>15, <1>16 DEF ContextInv, HoldsOwnOrRoot, RetiredParked
<1> QED BY <1>17, <1>18, <1>19, <1>20, <1>21, <1>22 DEF ContextInv

LEMMA NextContexts == ContextInv /\ [ContextNext]_contexts => ContextInv'
<1> SUFFICES ASSUME ContextInv, [ContextNext]_contexts PROVE ContextInv'
  OBVIOUS
<1>1. CASE UNCHANGED contexts
  BY <1>1 DEF contexts, ContextInv, ContextsTyped, OutsideTrap, InsideTrap, OthersResumable,
              TicksNeedTimer, NamesAgree, HoldsOwnOrRoot, RetiredParked
<1>2. CASE Compute BY <1>2, ComputeKeeps
<1>3. CASE Syscall \/ Tick \/ Fault BY <1>3, TrapsKeep
<1>4. CASE Nested BY <1>4, NestedKeeps
<1>5. CASE Resume BY <1>5, ResumeKeeps
<1>6. CASE ResumeTick BY <1>6, ResumeTickKeeps
<1>7. CASE ResumeFault BY <1>7, ResumeFaultKeeps
<1>8. CASE RecvIntoRetired BY <1>8, RecvIntoRetiredKeeps
<1>9. ASSUME NEW u \in Thread, SwitchTo(u)
      PROVE  ContextInv'
  BY <1>9, FullSwitchKeeps DEF SwitchTo
<1>10. ASSUME NEW u \in Thread, RetireRoot(u)
       PROVE  ContextInv'
  BY <1>10, FullSwitchKeeps DEF RetireRoot
<1>11. ASSUME NEW u \in Thread, SwitchToFast(u) \/ Terminate(u) \/ Spawn(u)
       PROVE  ContextInv'
  BY <1>11, SwitchToFastKeeps, TerminateKeeps, SpawnKeeps
<1> QED BY <1>1, <1>2, <1>3, <1>4, <1>5, <1>6, <1>7, <1>8, <1>9, <1>10, <1>11 DEF ContextNext

\* Until it is retired, the Root Task's return registers hold nothing strange,
\* wherever they are.
Pure(regs) == \A r \in Return : regs[r][1] \in {Root, Nil}
RootPure ==
  life[Root] # "retired" =>
    /\ Pure(blob[Root].regs)
    /\ running = Root => (cpu # Nil => Pure(cpu.regs)) /\ (trap # Nil => Pure(trap.frame))

\* Pushing, popping and poking the Root Task's own answers keep them so.
LEMMA PureMoves ==
  ASSUME NEW a \in Arch, NEW R \in Registers(a), Pure(R)
  PROVE  /\ Pure(Popped(R)) /\ Pure([R EXCEPT !["sp"] = Lowered(@)]) /\ Pure([R EXCEPT !["ret"] = Zero])
         /\ \A S \in SUBSET Return : Pure(Answered(R, Answer(Root, S)))
<1>1. R \in [Reg(a) -> Word] /\ Return \subseteq Reg(a) /\ "sp" \notin Return
  BY RegNames DEF Registers, Return
<1>2. Zero[1] = Nil
  BY DEF Zero
<1>3. ASSUME NEW S \in SUBSET Return
      PROVE  Pure(Answered(R, Answer(Root, S)))
  <2>1. PICK A : A = Answer(Root, S)
    OBVIOUS
  <2>2. DOMAIN A = S /\ \A r \in S : A[r][1] = Root
    BY <2>1 DEF Answer, Value
  <2>3. \A r \in Return : Answered(R, A)[r] = IF r \in S THEN A[r] ELSE R[r]
    BY <1>1, <2>2 DEF Answered
  <2> QED BY <2>1, <2>2, <2>3 DEF Pure
<1>4. Pure(Popped(R)) /\ Pure([R EXCEPT !["sp"] = Lowered(@)]) /\ Pure([R EXCEPT !["ret"] = Zero])
  BY <1>1, <1>2 DEF Pure, Popped
<1> QED BY <1>3, <1>4

LEMMA FreshPure ==
  ASSUME arch \in Arch, NEW t \in Thread
  PROVE  InitUserContext(t).regs \in Registers(arch) /\ (t = Root => Pure(InitUserContext(t).regs))
<1>1. InitUserContext(t).regs = [[r \in Reg(arch) |-> Zero] EXCEPT !["sp"] = Stack(t)]
  BY DEF InitUserContext
<1>2. Zero[1] = Nil /\ Stack(t)[1] = t /\ Return \subseteq Reg(arch)
  BY RegNames DEF Zero, Stack, Return
<1>3. InitUserContext(t).regs \in Registers(arch)
  BY FreshResumable DEF Resumable, Own
<1> QED BY <1>1, <1>2, <1>3 DEF Pure

\* Before P2_PREEMPT_START every context holds its own thread's program.
LEMMA NoStrays ==
  ASSUME ContextInv, life[Root] # "retired"
  PROVE  /\ named = running /\ running \in Thread /\ arch \in Arch
         /\ \A t \in Thread : holds[t] = t
         /\ \A t \in Thread : blob[t].regs \in Registers(arch)
         /\ trap # Nil => trap.frame \in Registers(arch)
         /\ trap = Nil => cpu # Nil
         /\ cpu # Nil => trap = Nil /\ cpu.regs \in Registers(arch)
<1>1. ContextsTyped /\ NamesAgree /\ HoldsOwnOrRoot /\ OutsideTrap /\ InsideTrap
  BY DEF ContextInv
<1>2. \A t \in Thread : blob[t].regs \in Registers(arch)
  BY <1>1 DEF ContextsTyped, Own
<1>3. trap # Nil => trap.frame \in Registers(arch)
  BY <1>1 DEF InsideTrap, Frame, TrapRecord
<1>4. /\ trap = Nil => cpu # Nil /\ cpu.regs \in Registers(arch)
      /\ cpu # Nil => trap = Nil
  BY <1>1, NilAssumption DEF OutsideTrap, InsideTrap, Resumable, Own, ContextsTyped
<1> QED BY <1>1, <1>2, <1>3, <1>4, ThreadsAssumption DEF NamesAgree, HoldsOwnOrRoot, ContextsTyped

\* The full save, the fast save and the fast restore take them over.
LEMMA PureSaved ==
  ASSUME NEW a, a = arch, a \in Arch, trap.frame \in Registers(a), Pure(trap.frame),
         NEW old, old.regs \in Registers(a)
  PROVE  Pure(SaveFull.regs) /\ Pure(SaveFast(old).regs)
<1>1. SaveFull.regs = Popped(trap.frame) /\ DOMAIN SaveFull = {"regs", "pc", "mode", "space"}
  BY PortCases DEF SaveFull, SaveX86, SaveArm, SaveRiscv
<1>2. Pure(SaveFull.regs)
  BY <1>1, PureMoves
<1>3. PICK F : F = Port(FastX86, FastArm, FastRiscv)
  OBVIOUS
<1>4. Return \subseteq F
  BY <1>3, FastRegs
<1>5. PICK R : R = SaveFull.regs
  OBVIOUS
<1>6. DOMAIN R = Reg(a) /\ Return \subseteq Reg(a)
  BY <1>1, <1>5, RegNames DEF Popped, Registers, Return
<1>7. SaveFast(old).regs = [r \in DOMAIN R |-> IF r \in F THEN R[r] ELSE old.regs[r]]
  BY <1>1, <1>3, <1>5 DEF SaveFast
<1> QED BY <1>2, <1>4, <1>5, <1>6, <1>7 DEF Pure

LEMMA PureRestored ==
  ASSUME arch \in Arch, NEW c \in Context(arch), Pure(c.regs)
  PROVE  Pure(RestoreFull(c).regs) /\ Pure(RestoreFast(c).regs)
<1>1. RestoreFull(c) = c
  BY PortCases DEF RestoreFull, RestoreX86, RestoreArm, RestoreRiscv
<1>2. PICK F : F = Port(FastX86, FastArm, FastRiscv)
  OBVIOUS
<1>3. PICK R : R = c.regs
  OBVIOUS
<1>4. Return \subseteq F /\ Return \subseteq Reg(arch) /\ DOMAIN R = Reg(arch)
  BY <1>2, <1>3, FastRegs, RegNames DEF Return, Context, Registers
<1>5. \A r \in Return : RestoreFast(c).regs[r] = R[r]
  BY <1>2, <1>3, <1>4 DEF RestoreFast, Context
<1> QED BY <1>1, <1>3, <1>5 DEF Pure

\* The property after a step that leaves the Root Task unretired.
PureNext ==
  /\ Pure(blob'[Root].regs)
  /\ running' = Root => (cpu' # Nil => Pure(cpu'.regs)) /\ (trap' # Nil => Pure(trap'.frame))

\* A switch to u leaves p in the running thread's context and q in u's.
PureSwitch(u, p, q) ==
  /\ u \in Thread /\ u # running /\ (running = Root => Pure(p.regs))
  /\ u = Root => Pure(q.regs) /\ Pure(cpu'.regs)
  /\ blob' = [blob EXCEPT ![running] = p, ![u] = q] /\ running' = u /\ trap' = Nil

LEMMA NextPure == ContextInv /\ RootPure /\ [ContextNext]_contexts => RootPure'
<1> SUFFICES ASSUME ContextInv, RootPure, [ContextNext]_contexts, life'[Root] # "retired"
             PROVE  PureNext
  BY DEF RootPure, PureNext
<1> USE ThreadsAssumption
<1>1. /\ life \in [Thread -> {"unborn", "alive", "dead", "retired"}] /\ arch \in Arch
      /\ blob \in [Thread -> Context(arch)]
  BY DEF ContextInv, ContextsTyped
<1>2. life[Root] # "retired"
  <2>1. \/ UNCHANGED life
        \/ \E u \in Thread : life' = [life EXCEPT ![u] = "retired"] \/ Terminate(u) \/ Spawn(u)
    BY DEF ContextNext, contexts, Compute, Syscall, Tick, Fault, EnterTrap, Nested, Resume, InPlace,
           ResumeTick, ResumeFault, RecvIntoRetired, SwitchTo, RetireRoot, SwitchToFast
  <2>2. ASSUME NEW u \in Thread, Terminate(u)
        PROVE  life[Root] # "retired"
    <3>1. life' = [life EXCEPT ![named] = "dead"] /\ (named # Nil => life[named] = "alive") /\ named # Nil
      BY <2>2 DEF Terminate, Other, ContextInv, NamesAgree
    <3> QED BY <1>1, <3>1
  <2>3. ASSUME NEW u \in Thread, Spawn(u)
        PROVE  life[Root] # "retired"
    BY <1>1, <2>3 DEF Spawn
  <2> QED BY <1>1, <2>1, <2>2, <2>3
<1>3. /\ named = running /\ running \in Thread
      /\ \A t \in Thread : holds[t] = t
      /\ \A t \in Thread : blob[t].regs \in Registers(arch)
      /\ trap # Nil => trap.frame \in Registers(arch)
      /\ trap = Nil => cpu # Nil
      /\ cpu # Nil => trap = Nil /\ cpu.regs \in Registers(arch)
  BY <1>2, NoStrays
<1>4. /\ Pure(blob[Root].regs)
      /\ running = Root => (cpu # Nil => Pure(cpu.regs)) /\ (trap # Nil => Pure(trap.frame))
  BY <1>2 DEF RootPure
<1>5. CASE UNCHANGED contexts
  BY <1>4, <1>5 DEF contexts, PureNext
<1>6. CASE Compute
  <2>1. /\ cpu' = [cpu EXCEPT !.regs = [r \in Reg(arch) |-> IF r = "sp" THEN @[r] ELSE Value(running, cpu.pc)],
                              !.pc = Step(@)]
        /\ trap = Nil /\ UNCHANGED <<trap, blob, running>>
    BY <1>6 DEF Compute
  <2>2. cpu \in Context(arch)
    BY <2>1 DEF ContextInv, OutsideTrap, Resumable
  <2>3. \A r \in Return : r \in Reg(arch) /\ r # "sp"
    BY <1>1, RegNames DEF Return
  <2>4. \A r \in Return : cpu'.regs[r] = Value(running, cpu.pc)
    BY <2>1, <2>2, <2>3 DEF Context
  <2> QED BY <1>4, <2>1, <2>4 DEF Pure, Value, PureNext
<1>7. ASSUME NEW why, NEW pc, EnterTrap(why, pc)
      PROVE  PureNext
  <2>1. /\ trap = Nil /\ trap'.frame = Port(IsrTrampoline, El0Entry, TrapEntry)
        /\ cpu' = Nil /\ UNCHANGED <<blob, running>>
    BY <1>7 DEF EnterTrap
  <2>2. trap'.frame \in {cpu.regs, [cpu.regs EXCEPT !["sp"] = Lowered(@)]}
    BY <1>1, <2>1, PortCases DEF IsrTrampoline, El0Entry, TrapEntry
  <2>3. running = Root => Pure(trap'.frame)
    <3>1. PICK R : R = cpu.regs
      OBVIOUS
    <3>2. R \in Registers(arch) /\ (running = Root => Pure(R)) /\ trap'.frame \in {R, [R EXCEPT !["sp"] = Lowered(@)]}
      BY <1>3, <1>4, <2>1, <2>2, <3>1
    <3> QED BY <1>1, <3>2, PureMoves
  <2> QED BY <1>4, <2>1, <2>3 DEF PureNext
<1>8. CASE Nested
  <2>1. trap \in TrapRecord(arch) /\ trap # Nil
    BY <1>8 DEF Nested, ContextInv, InsideTrap, Frame
  <2>2. trap'.frame = trap.frame /\ UNCHANGED <<cpu, blob, running>>
    BY <1>8, <2>1 DEF Nested, TrapRecord
  <2> QED BY <1>4, <2>1, <2>2 DEF PureNext
<1>9. ASSUME trap # Nil, NEW R \in Registers(arch), running = Root => Pure(R), NEW to, InPlace(R, to)
      PROVE  PureNext
  <2>1. cpu'.regs = Popped(R) /\ trap' = Nil /\ UNCHANGED <<blob, running>>
    BY <1>9 DEF InPlace
  <2> QED BY <1>1, <1>4, <1>9, <2>1, PureMoves DEF PureNext
<1>10. CASE Resume
  <2>1. PICK S \in {{"ret"}, Return} : InPlace(Answered(trap.frame, Answer(running, S)), Port(ReturnX86, ReturnArm, ReturnRiscv))
    BY <1>10 DEF Resume
  <2>2. trap # Nil /\ S \in SUBSET Return
    BY <1>10 DEF Resume, Return
  <2>3. PICK R : R = Answered(trap.frame, Answer(running, S))
    OBVIOUS
  <2>4. R \in Registers(arch)
    <3>1. \A r \in S : Answer(running, S)[r] \in Word
      BY <1>3 DEF Answer, Value, Word
    <3>2. DOMAIN Answer(running, S) = S /\ trap.frame \in [Reg(arch) -> Word]
      BY <1>3, <2>2 DEF Answer, Registers
    <3> QED BY <2>3, <3>1, <3>2 DEF Answered, Registers
  <2>5. running = Root => Pure(R)
    BY <1>1, <1>3, <1>4, <2>2, <2>3, PureMoves
  <2> QED BY <1>9, <2>1, <2>2, <2>3, <2>4, <2>5
<1>11. CASE ResumeTick
  BY <1>3, <1>4, <1>9, <1>11 DEF ResumeTick
<1>12. CASE ResumeFault
  <2>1. PICK R : R = [trap.frame EXCEPT !["ret"] = Port(Zero, Zero, @)]
    OBVIOUS
  <2>2. trap # Nil /\ InPlace(R, [pc |-> trap.livePc, mode |-> trap.liveMode])
    BY <1>12, <2>1 DEF ResumeFault
  <2>3. trap.frame \in [Reg(arch) -> Word] /\ "ret" \in Reg(arch) /\ Zero \in Word
    BY <1>1, <1>3, <2>2, RegNames DEF Registers, Zero, Word
  <2>4. R = trap.frame \/ R = [trap.frame EXCEPT !["ret"] = Zero]
    BY <1>1, <2>1, <2>3, PortCases
  <2>5. R \in Registers(arch)
    BY <2>3, <2>4 DEF Registers
  <2>6. running = Root => Pure(R)
    <3>1. PICK f : f = trap.frame
      OBVIOUS
    <3>2. f \in Registers(arch) /\ (running = Root => Pure(f)) /\ (R = f \/ R = [f EXCEPT !["ret"] = Zero])
      BY <1>3, <1>4, <2>2, <2>4, <3>1
    <3> QED BY <1>1, <3>2, PureMoves
  <2> QED BY <1>9, <2>2, <2>5, <2>6
<1>13. CASE RecvIntoRetired
  BY <1>2, <1>13 DEF RecvIntoRetired
<1>14. ASSUME NEW u, NEW p, NEW q, PureSwitch(u, p, q)
       PROVE  PureNext
  BY <1>1, <1>3, <1>4, <1>14 DEF PureNext, PureSwitch
<1>15. ASSUME NEW u \in Thread, SwitchTo(u)
       PROVE  PureNext
  <2>1. /\ trap # Nil /\ u # running /\ running' = u /\ trap' = Nil
        /\ cpu' = RestoreFull(blob[u]) /\ blob' = [blob EXCEPT ![running] = SaveFull]
    BY <1>3, <1>15 DEF SwitchTo, Other, Load, MaySwitch
  <2>2. PICK p : p = SaveFull
    OBVIOUS
  <2>3. blob' = [blob EXCEPT ![running] = p, ![u] = blob[u]]
    BY <1>1, <1>3, <2>1, <2>2
  <2>4. running = Root => Pure(p.regs)
    BY <1>1, <1>3, <1>4, <2>1, <2>2, PureSaved
  <2>5. u = Root => Pure(blob[u].regs) /\ Pure(RestoreFull(blob[u]).regs)
    BY <1>1, <1>4, PureRestored
  <2>6. PureSwitch(u, p, blob[u])
    BY <2>1, <2>3, <2>4, <2>5 DEF PureSwitch
  <2> QED BY <1>14, <2>6
<1>16. ASSUME NEW u \in Thread, RetireRoot(u)
       PROVE  PureNext
  BY <1>1, <1>16 DEF RetireRoot
<1>17. ASSUME NEW u \in Thread, SwitchToFast(u)
       PROVE  PureNext
  <2>1. /\ trap # Nil /\ u # running /\ running' = u /\ trap' = Nil
    BY <1>3, <1>17 DEF SwitchToFast, Other, Load, MaySwitch
  <2>2. PICK regs \in {{}, Return} :
         /\ blob' = [blob EXCEPT ![running] = SaveFast(@), ![u] = Poke(@, Answer(u, regs))]
         /\ cpu' = RestoreFast(Poke(blob[u], Answer(u, regs)))
    BY <1>3, <1>17 DEF SwitchToFast, Load
  <2>3. PICK p : p = SaveFast(blob[running])
    OBVIOUS
  <2>4. PICK q : q = Poke(blob[u], Answer(u, regs))
    OBVIOUS
  <2>5. blob' = [blob EXCEPT ![running] = p, ![u] = q]
    BY <1>1, <1>3, <2>1, <2>2, <2>3, <2>4
  <2>6. running = Root => Pure(p.regs)
    BY <1>1, <1>3, <1>4, <2>1, <2>3, PureSaved
  <2>7. u = Root => Pure(q.regs) /\ Pure(RestoreFast(q).regs)
    <3> SUFFICES ASSUME u = Root PROVE Pure(q.regs) /\ Pure(RestoreFast(q).regs)
      OBVIOUS
    <3>1. PICK R : R = blob[Root].regs
      OBVIOUS
    <3>2. R \in Registers(arch) /\ Pure(R) /\ regs \in SUBSET Return
      BY <1>3, <1>4, <3>1
    <3>3. PICK N : N = Answered(R, Answer(Root, regs))
      OBVIOUS
    <3>4. Pure(N)
      BY <1>1, <3>2, <3>3, PureMoves
    <3>5. N \in Registers(arch)
      <4>1. \A r \in regs : Answer(Root, regs)[r] \in Word
        BY DEF Answer, Value, Word
      <4>2. DOMAIN Answer(Root, regs) = regs /\ R \in [Reg(arch) -> Word]
        BY <3>2 DEF Answer, Registers
      <4> QED BY <3>3, <4>1, <4>2 DEF Answered, Registers
    <3>6. q \in Context(arch) /\ q.regs = N
      BY <1>1, <2>4, <3>1, <3>3, <3>5 DEF Poke, Context
    <3> QED BY <1>1, <3>4, <3>6, PureRestored
  <2>8. PureSwitch(u, p, q)
    BY <2>1, <2>2, <2>4, <2>5, <2>6, <2>7 DEF PureSwitch
  <2> QED BY <1>14, <2>8
<1>18. ASSUME NEW u \in Thread, Terminate(u)
       PROVE  PureNext
  <2>1. /\ running' = u /\ trap' = Nil /\ cpu' = RestoreFull(blob[u]) /\ UNCHANGED blob
    BY <1>3, <1>18 DEF Terminate, Load
  <2>2. u = Root => Pure(RestoreFull(blob[u]).regs)
    BY <1>1, <1>4, PureRestored
  <2> QED BY <1>4, <2>1, <2>2 DEF PureNext
<1>19. ASSUME NEW u \in Thread, Spawn(u)
       PROVE  PureNext
  <2>1. blob' = [blob EXCEPT ![u] = InitUserContext(u)] /\ UNCHANGED <<running, cpu, trap>>
    BY <1>19 DEF Spawn
  <2>2. u = Root => Pure(InitUserContext(u).regs)
    BY <1>1, FreshPure
  <2>3. Pure(blob'[Root].regs)
    BY <1>1, <1>4, <2>1, <2>2
  <2> QED BY <1>4, <2>1, <2>3 DEF PureNext
<1>20. CASE Syscall \/ Tick \/ Fault
  BY <1>7, <1>20 DEF Syscall, Tick, Fault
<1> QED BY <1>5, <1>6, <1>8, <1>10, <1>11, <1>12, <1>13, <1>15, <1>16, <1>17, <1>18, <1>19, <1>20 DEF ContextNext

(***************************************************************************)
(* The vectors, the full and the fast save and restore, and the outcomes:  *)
(* on each of the three ports, for any number of threads and of traps in   *)
(* any order, a program that runs is in user mode in its own space, holds  *)
(* no other one's value, and goes on where it stopped with the registers   *)
(* it may count on and the answer the kernel gave it; and it runs under    *)
(* its own thread's name, but for the retired Root Task once a service's   *)
(* IPC_RECV has resumed its loop the fast way.  An answer meant for the    *)
(* thread whose name that loop bears is the one value it may get.          *)
(***************************************************************************)
THEOREM RegistersAreKept == ContextSpec => []RegistersKept
<1>1. ContextInv /\ RootPure => RegistersKept
  <2> SUFFICES ASSUME ContextInv, RootPure, cpu # Nil PROVE RegistersKept
    BY DEF RegistersKept
  <2>1. Resumable(arch, seen[running], running, cpu)
    BY DEF ContextInv, OutsideTrap, InsideTrap
  <2>2. /\ named = running \/ life[running] = "retired"
        /\ life[running] = "retired" => running = Root
        /\ running \in Thread
    BY DEF ContextInv, NamesAgree, ContextsTyped
  <2>3. ASSUME NEW r \in Reg(arch)
        PROVE  cpu.regs[r][1] \in Owners(r)
    <3>1. cpu.regs[r][1] \in {running, Nil} \union Strange(running, r)
      BY <2>1 DEF Resumable, Own
    <3>2. CASE running = Root /\ r \in Return /\ life[running] # "retired"
      BY <3>2 DEF RootPure, Pure, Owners
    <3>3. CASE ~(running = Root /\ r \in Return /\ life[running] # "retired")
      BY <2>2, <3>1, <3>3 DEF Strange, Owners
    <3> QED BY <3>2, <3>3
  <2> QED BY <2>1, <2>2, <2>3 DEF Resumable, Finds, RegistersKept
<1>2. ContextInit => RootPure
  <2> SUFFICES ASSUME ContextInit PROVE RootPure
    OBVIOUS
  <2>1. /\ arch \in Arch /\ running = Root /\ trap = Nil /\ cpu = InitUserContext(Root)
        /\ blob[Root] = InitUserContext(Root)
    BY ThreadsAssumption DEF ContextInit, EnterUser
  <2>2. Pure(InitUserContext(Root).regs)
    BY <2>1, FreshPure, ThreadsAssumption
  <2> QED BY <2>1, <2>2 DEF RootPure
<1> QED BY <1>1, <1>2, InitContexts, NextContexts, NextPure, PTL DEF ContextSpec
-----------------------------------------------------------------------------
(* The messages *)

\* The values S survive a decoder's treatment k.
Keeps(k, S) == S \subseteq Nat /\ \A v \in S : Field(k, v) = v /\ Accepts(k, v)

LEMMA KeepsAll ==
  /\ Keeps(Narrow, u32) /\ Keeps(Whole, u64) /\ Keeps(Flag, bool) /\ Keeps(Whole, bool)
  /\ \A S \in SUBSET Nat : Keeps(Enum(S), S)
  /\ \A S \in SUBSET u32 : Keeps(Bits(S), S)
<1> USE WidthAssumption
<1>1. Keeps(Narrow, u32)
  BY DEF Keeps, Narrow, Field, Accepts, u32
<1>2. Keeps(Whole, u64)
  BY DEF Keeps, Whole, Field, Accepts, u64
<1>3. Keeps(Flag, bool)
  BY DEF Keeps, Flag, Field, Accepts, bool
<1>4. Keeps(Whole, bool)
  BY DEF Keeps, Whole, Field, Accepts, bool
<1>5. ASSUME NEW S \in SUBSET Nat PROVE Keeps(Enum(S), S)
  BY DEF Keeps, Enum, Field, Accepts
<1>6. ASSUME NEW S \in SUBSET u32 PROVE Keeps(Bits(S), S)
  BY DEF Keeps, Bits, Field, Accepts, u32
<1> QED BY <1>1, <1>2, <1>3, <1>4, <1>5, <1>6

\* The words of a message start with its fields, in the message and on the page.
LEMMA WordsOf ==
  ASSUME NEW f \in Seq(Nat), NEW n \in Nat, Len(f) <= n, n <= MsgMaxWords, n <= Len(f) + 4,
         NEW W, W = SubSeq(f \o <<0, 0, 0, 0>>, 1, n)
  PROVE  /\ W \in Seq(Nat) /\ Len(W) = n
         /\ \A i \in 1 .. Len(f) : W[i] = f[i]
<1>1. PICK z : z = <<0, 0, 0, 0>>
  OBVIOUS
<1>2. z \in Seq(Nat) /\ Len(z) = 4
  BY <1>1
<1>3. PICK c : c = f \o z
  OBVIOUS
<1>4. c \in Seq(Nat) /\ Len(c) = Len(f) + 4 /\ \A i \in 1 .. Len(f) : c[i] = f[i]
  <2>1. c \in Seq(Nat) /\ Len(c) = Len(f) + Len(z)
        /\ \A i \in 1 .. Len(f) + Len(z) : c[i] = IF i <= Len(f) THEN f[i] ELSE z[i - Len(f)]
    BY <1>2, <1>3, ConcatProperties, Zenon
  <2>2. PICK l \in Nat : l = Len(f)
    OBVIOUS
  <2> QED BY <1>2, <2>1, <2>2
<1>5. W = SubSeq(c, 1, n)
  BY <1>1, <1>3
<1>6. W \in Seq(Nat) /\ Len(W) = n /\ \A i \in 1 .. n : W[i] = c[i]
  <2>1. PICK l \in Nat : l = Len(c) /\ n <= l
    BY <1>4
  <2>2. 1 \in Int /\ n \in Int /\ \A i \in 1 .. n : c[i] \in Nat
    BY <1>4, <2>1, ElementOfSeq
  <2>3. /\ W \in Seq(Nat) /\ Len(W) = IF 1 <= n THEN n - 1 + 1 ELSE 0
        /\ \A i \in 1 .. n - 1 + 1 : W[i] = c[1 + i - 1]
    <3>1. PICK b : b = 1
      OBVIOUS
    <3>2. b \in Int /\ n \in Int /\ \A i \in b .. n : c[i] \in Nat
      BY <2>2, <3>1
    <3>3. /\ SubSeq(c, b, n) \in Seq(Nat) /\ Len(SubSeq(c, b, n)) = IF b <= n THEN n - b + 1 ELSE 0
          /\ \A i \in 1 .. n - b + 1 : SubSeq(c, b, n)[i] = c[b + i - 1]
      BY <3>2, SubSeqProperties
    <3> QED BY <1>5, <3>1, <3>3, Zenon
  <2>4. n - 1 + 1 = n /\ (~(1 <= n) => n = 0) /\ \A i \in 1 .. n : 1 + i - 1 = i
    OBVIOUS
  <2> QED BY <2>3, <2>4
<1>7. PICK l \in Nat : l = Len(f) /\ l <= n
  OBVIOUS
<1> QED BY <1>4, <1>6, <1>7

\* What a message is to a decoder: its words begin with the fields f.
Holds(msg, ns, op, k, f) ==
  /\ msg.ns = ns /\ msg.version = ProtocolVersion /\ msg.op = op
  /\ Len(msg.words) \in Nat /\ k <= Len(msg.words) /\ \A i \in 1 .. k : msg.words[i] = f[i]

LEMMA Encoded ==
  ASSUME NEW ns, NEW op, NEW f \in Seq(Nat), NEW n \in Nat, Len(f) <= n, n <= MsgMaxWords, n <= Len(f) + 4,
         NEW msg, msg = SmallMessage(ns, op, f, n)
  PROVE  Holds(msg, ns, op, Len(f), f) /\ Holds(OverPage(msg), ns, op, Len(f), f)
<1>1. PICK W : W = SubSeq(f \o <<0, 0, 0, 0>>, 1, n)
  OBVIOUS
<1>2. W \in Seq(Nat) /\ Len(W) = n /\ \A i \in 1 .. Len(f) : W[i] = f[i]
  BY <1>1, WordsOf
<1>3. msg = [ns |-> ns, version |-> ProtocolVersion, op |-> op, words |-> W]
  BY <1>1, Zenon DEF SmallMessage
<1>4. Holds(msg, ns, op, Len(f), f)
  BY <1>2, <1>3 DEF Holds
<1>5. PICK V : V = [i \in 1 .. MsgMaxWords |-> IF i <= Len(W) THEN W[i] ELSE 0]
  OBVIOUS
<1>6. OverPage(msg) = [ns |-> ns, version |-> ProtocolVersion, op |-> op, words |-> V]
  <2>1. OverPage(msg) = [msg EXCEPT !.words = [i \in 1 .. MsgMaxWords |-> IF i <= Len(@) THEN @[i] ELSE 0]]
    BY DEF OverPage
  <2>2. msg.words = W
    BY <1>3
  <2>3. OverPage(msg) = [msg EXCEPT !.words = V]
    BY <1>5, <2>1, <2>2, Zenon
  <2> QED BY <1>3, <2>3
<1>7. Len(V) = 6 /\ \A i \in 1 .. Len(f) : V[i] = f[i]
  <2>1. PICK l \in Nat : l = Len(f) /\ l <= n /\ n <= 6
    BY DEF MsgMaxWords
  <2>2. V = [i \in 1 .. 6 |-> IF i <= n THEN W[i] ELSE 0]
    BY <1>2, <1>5 DEF MsgMaxWords
  <2>3. Len(V) = 6
    BY <2>2
  <2>4. \A i \in 1 .. l : V[i] = W[i]
    BY <2>1, <2>2
  <2> QED BY <1>2, <2>1, <2>3, <2>4
<1>8. Holds(OverPage(msg), ns, op, Len(f), f)
  <2>1. PICK l \in Nat : l = Len(f) /\ l <= 6
    BY DEF MsgMaxWords
  <2>2. PICK o : o = OverPage(msg)
    OBVIOUS
  <2>3. o.ns = ns /\ o.version = ProtocolVersion /\ o.op = op /\ o.words = V
    BY <1>6, <2>2
  <2>4. Len(o.words) \in Nat /\ Len(f) <= Len(o.words) /\ \A i \in 1 .. Len(f) : o.words[i] = f[i]
    <3>1. Len(V) \in Nat /\ Len(f) <= Len(V)
      BY <1>7, <2>1
    <3>2. \A i \in 1 .. Len(f) : V[i] = f[i]
      BY <1>7
    <3> QED BY <2>3, <3>1, <3>2, Zenon
  <2> QED BY <2>2, <2>3, <2>4, Zenon DEF Holds
<1> QED BY <1>4, <1>8

\* A row of the two tables of a protocol.
Row(p, tag, op, n, kinds) ==
  /\ p.codes[tag] = Code(op, n)
  /\ op \in DOMAIN p.forms /\ p.forms[op] = Form(tag, kinds)

\* The fields f pass the treatments K.
Survive(K, f, k) ==
  /\ DOMAIN K = 1 .. k /\ Len(K) = k /\ f = [i \in 1 .. k |-> f[i]]
  /\ \A i \in 1 .. k : Field(K[i], f[i]) = f[i] /\ Accepts(K[i], f[i])

\* A row of a message without an optional field: enough words, and not too many.
Listed(p, tag, op, n, k, kinds) ==
  /\ tag # "QueryComputePool" /\ n \in Nat /\ k <= n /\ n <= MsgMaxWords /\ n <= k + 4
  /\ Row(p, tag, op, n, kinds)

\* The messages of a variant are carried exactly.
Carried(p, tag, fields) == \A m \in Variant(tag, fields) : CarriesExactly(p, m)

\* What a decoder makes of it.
LEMMA Decoded ==
  ASSUME NEW forms, NEW ns, NEW op \in DOMAIN forms, NEW tag, NEW K, forms[op] = Form(tag, K),
         NEW k \in Nat, NEW f, Survive(K, f, k), NEW msg, Holds(msg, ns, op, k, f)
  PROVE  Decode(forms, ns, msg) = IF tag = "QueryComputePool" THEN OptionOf([tag |-> tag, f |-> f])
                                  ELSE [tag |-> tag, f |-> f]
<1>1. /\ msg.ns = ns /\ msg.version = ProtocolVersion /\ msg.op = op
      /\ Len(msg.words) \in Nat /\ k <= Len(msg.words) /\ \A i \in 1 .. k : msg.words[i] = f[i]
  BY DEF Holds
<1>2. forms[op].tag = tag /\ forms[op].kinds = K
  BY DEF Form
<1> USE DEF Survive
<1>3. PICK g : g = [i \in DOMAIN K |-> Field(K[i], msg.words[i])]
  OBVIOUS
<1>4. g = f
  <2>1. g = [i \in 1 .. k |-> f[i]]
    BY <1>1, <1>3
  <2> QED BY <2>1
<1>5. ~(Len(msg.words) < Len(K)) /\ ~ \E i \in DOMAIN K : ~Accepts(K[i], msg.words[i])
  BY <1>1
<1>6. Decode(forms, ns, msg) = IF tag = "QueryComputePool" THEN OptionOf([tag |-> tag, f |-> g]) ELSE [tag |-> tag, f |-> g]
  BY <1>1, <1>2, <1>3, <1>5, Zenon DEF Decode
<1> QED BY <1>4, <1>6

\* A decoder of another namespace refuses the message.
LEMMA OthersRefuse ==
  ASSUME NEW ns, NEW op, NEW k, NEW f, NEW msg, Holds(msg, ns, op, k, f)
  PROVE  \A q \in DOMAIN Protocols :
           Protocols[q].ns # ns => Decode(Protocols[q].forms, Protocols[q].ns, msg).tag = "WrongNamespace"
<1> SUFFICES ASSUME NEW q, Protocols[q].ns # ns
             PROVE  Decode(Protocols[q].forms, Protocols[q].ns, msg).tag = "WrongNamespace"
  OBVIOUS
<1>1. msg.ns # Protocols[q].ns
  BY DEF Holds
<1>2. Decode(Protocols[q].forms, Protocols[q].ns, msg) = Err("WrongNamespace")
  BY <1>1, Zenon DEF Decode
<1> QED BY <1>2 DEF Err

\* A message of one, two, three or four fields of their types is carried exactly.
LEMMA CarriesRow ==
  ASSUME NEW p, NEW tag, tag # "QueryComputePool", NEW op, NEW K, NEW k \in Nat,
         NEW n \in Nat, k <= n, n <= MsgMaxWords, n <= k + 4, Row(p, tag, op, n, K),
         NEW f \in Seq(Nat), Len(f) = k, Survive(K, f, k)
  PROVE  CarriesExactly(p, [tag |-> tag, f |-> f])
<1>1. PICK m : m = [tag |-> tag, f |-> f]
  OBVIOUS
<1>2. p.codes[tag].op = op /\ p.codes[tag].n = n /\ op \in DOMAIN p.forms /\ p.forms[op] = Form(tag, K)
  BY DEF Row, Code
<1>3. PICK msg : msg = SmallMessage(p.ns, op, f, n)
  OBVIOUS
<1>4. Encode(p.codes, p.ns, m) = msg
  BY <1>1, <1>2, <1>3 DEF Encode
<1>5. Holds(msg, p.ns, op, k, f) /\ Holds(OverPage(msg), p.ns, op, k, f)
  BY <1>3, Encoded
<1>7. Decode(p.forms, p.ns, msg) = m
  <2>1. Decode(p.forms, p.ns, msg) = IF tag = "QueryComputePool" THEN OptionOf([tag |-> tag, f |-> f])
                                     ELSE [tag |-> tag, f |-> f]
    BY <1>2, <1>5, Decoded
  <2> QED BY <1>1, <2>1
<1>8. Decode(p.forms, p.ns, OverPage(msg)) = m
  <2>1. Decode(p.forms, p.ns, OverPage(msg)) = IF tag = "QueryComputePool" THEN OptionOf([tag |-> tag, f |-> f])
                                               ELSE [tag |-> tag, f |-> f]
    BY <1>2, <1>5, Decoded
  <2> QED BY <1>1, <2>1
<1>9. \A q \in DOMAIN Protocols :
        Protocols[q].ns # p.ns => Decode(Protocols[q].forms, Protocols[q].ns, OverPage(msg)).tag = "WrongNamespace"
  BY <1>5, OthersRefuse
<1> QED BY <1>1, <1>4, <1>7, <1>8, <1>9, Zenon DEF CarriesExactly

LEMMA Carries0 ==
  ASSUME NEW p, NEW tag, NEW op, NEW n,
         Listed(p, tag, op, n, 0, <<>>)
  PROVE  Carried(p, tag, Unit)
<1> SUFFICES ASSUME NEW m \in Variant(tag, Unit) PROVE CarriesExactly(p, m)
  BY DEF Carried
<1>1. m = [tag |-> tag, f |-> <<>>]
  BY DEF Variant, Unit
<1>2. PICK f : f = <<>>
  OBVIOUS
<1>3. f \in Seq(Nat) /\ Len(f) = 0
  BY <1>2
<1>4. PICK K : K = <<>>
  OBVIOUS
<1>5. DOMAIN K = 1 .. 0 /\ Len(K) = 0
  BY <1>4
<1>6. Survive(K, f, 0)
  <2>1. f = [i \in 1 .. 0 |-> f[i]]
    BY <1>3, LenProperties
  <2>2. \A i \in 1 .. 0 : Field(K[i], f[i]) = f[i] /\ Accepts(K[i], f[i])
    OBVIOUS
  <2> QED BY <1>5, <2>1, <2>2, Zenon DEF Survive
<1>7. Row(p, tag, op, n, K) /\ tag # "QueryComputePool"
  BY <1>4 DEF Listed
<1>8. n \in Nat /\ 0 <= n /\ n <= MsgMaxWords /\ n <= 0 + 4 /\ 0 \in Nat
  BY DEF Listed
<1>9. CarriesExactly(p, [tag |-> tag, f |-> f])
  BY <1>3, <1>6, <1>7, <1>8, CarriesRow
<1> QED BY <1>1, <1>2, <1>9

LEMMA Carries1 ==
  ASSUME NEW p, NEW tag, NEW op, NEW n, NEW k1, NEW S1, Keeps(k1, S1),
         Listed(p, tag, op, n, 1, <<k1>>)
  PROVE  Carried(p, tag, One(S1))
<1> SUFFICES ASSUME NEW m \in Variant(tag, One(S1)) PROVE CarriesExactly(p, m)
  BY DEF Carried
<1>1. PICK a \in S1 : m = [tag |-> tag, f |-> <<a>>]
  BY DEF Variant, One
<1>2. PICK f : f = <<a>>
  OBVIOUS
<1>3. f \in Seq(Nat) /\ Len(f) = 1
  BY <1>2 DEF Keeps
<1>4. PICK K : K = <<k1>>
  OBVIOUS
<1>5. DOMAIN K = 1 .. 1 /\ Len(K) = 1 /\ K[1] = k1
  BY <1>4
<1>6. Survive(K, f, 1)
  <2>1. f = [i \in 1 .. 1 |-> f[i]]
    BY <1>3, LenProperties
  <2>2. \A i \in 1 .. 1 : Field(K[i], f[i]) = f[i] /\ Accepts(K[i], f[i])
    <3>1. f[1] = a
      BY <1>2
    <3>2. Field(k1, a) = a /\ Accepts(k1, a)
      BY DEF Keeps
    <3> SUFFICES ASSUME NEW i \in 1 .. 1 PROVE Field(K[i], f[i]) = f[i] /\ Accepts(K[i], f[i])
      OBVIOUS
    <3>3. i = 1
      OBVIOUS
    <3> QED BY <1>5, <3>1, <3>2, <3>3
  <2> QED BY <1>5, <2>1, <2>2, Zenon DEF Survive
<1>7. Row(p, tag, op, n, K) /\ tag # "QueryComputePool"
  BY <1>4 DEF Listed
<1>8. n \in Nat /\ 1 <= n /\ n <= MsgMaxWords /\ n <= 1 + 4 /\ 1 \in Nat
  BY DEF Listed
<1>9. CarriesExactly(p, [tag |-> tag, f |-> f])
  BY <1>3, <1>6, <1>7, <1>8, CarriesRow
<1> QED BY <1>1, <1>2, <1>9

LEMMA Carries2 ==
  ASSUME NEW p, NEW tag, NEW op, NEW n, NEW k1, NEW S1, Keeps(k1, S1), NEW k2, NEW S2, Keeps(k2, S2),
         Listed(p, tag, op, n, 2, <<k1, k2>>)
  PROVE  Carried(p, tag, S1 \X S2)
<1> SUFFICES ASSUME NEW m \in Variant(tag, S1 \X S2) PROVE CarriesExactly(p, m)
  BY DEF Carried
<1>1. PICK a \in S1, b \in S2 : m = [tag |-> tag, f |-> <<a, b>>]
  BY DEF Variant
<1>2. PICK f : f = <<a, b>>
  OBVIOUS
<1>3. f \in Seq(Nat) /\ Len(f) = 2
  BY <1>2 DEF Keeps
<1>4. PICK K : K = <<k1, k2>>
  OBVIOUS
<1>5. DOMAIN K = 1 .. 2 /\ Len(K) = 2 /\ K[1] = k1 /\ K[2] = k2
  BY <1>4
<1>6. Survive(K, f, 2)
  <2>1. f = [i \in 1 .. 2 |-> f[i]]
    BY <1>3, LenProperties
  <2>2. \A i \in 1 .. 2 : Field(K[i], f[i]) = f[i] /\ Accepts(K[i], f[i])
    <3>1. f[1] = a /\ f[2] = b
      BY <1>2
    <3>2. Field(k1, a) = a /\ Accepts(k1, a) /\ Field(k2, b) = b /\ Accepts(k2, b)
      BY DEF Keeps
    <3> SUFFICES ASSUME NEW i \in 1 .. 2 PROVE Field(K[i], f[i]) = f[i] /\ Accepts(K[i], f[i])
      OBVIOUS
    <3>3. i = 1 \/ i = 2
      OBVIOUS
    <3> QED BY <1>5, <3>1, <3>2, <3>3
  <2> QED BY <1>5, <2>1, <2>2, Zenon DEF Survive
<1>7. Row(p, tag, op, n, K) /\ tag # "QueryComputePool"
  BY <1>4 DEF Listed
<1>8. n \in Nat /\ 2 <= n /\ n <= MsgMaxWords /\ n <= 2 + 4 /\ 2 \in Nat
  BY DEF Listed
<1>9. CarriesExactly(p, [tag |-> tag, f |-> f])
  BY <1>3, <1>6, <1>7, <1>8, CarriesRow
<1> QED BY <1>1, <1>2, <1>9

LEMMA Carries3 ==
  ASSUME NEW p, NEW tag, NEW op, NEW n, NEW k1, NEW S1, Keeps(k1, S1), NEW k2, NEW S2, Keeps(k2, S2), NEW k3, NEW S3, Keeps(k3, S3),
         Listed(p, tag, op, n, 3, <<k1, k2, k3>>)
  PROVE  Carried(p, tag, S1 \X S2 \X S3)
<1> SUFFICES ASSUME NEW m \in Variant(tag, S1 \X S2 \X S3) PROVE CarriesExactly(p, m)
  BY DEF Carried
<1>1. PICK a \in S1, b \in S2, c \in S3 : m = [tag |-> tag, f |-> <<a, b, c>>]
  BY DEF Variant
<1>2. PICK f : f = <<a, b, c>>
  OBVIOUS
<1>3. f \in Seq(Nat) /\ Len(f) = 3
  BY <1>2 DEF Keeps
<1>4. PICK K : K = <<k1, k2, k3>>
  OBVIOUS
<1>5. DOMAIN K = 1 .. 3 /\ Len(K) = 3 /\ K[1] = k1 /\ K[2] = k2 /\ K[3] = k3
  BY <1>4
<1>6. Survive(K, f, 3)
  <2>1. f = [i \in 1 .. 3 |-> f[i]]
    BY <1>3, LenProperties
  <2>2. \A i \in 1 .. 3 : Field(K[i], f[i]) = f[i] /\ Accepts(K[i], f[i])
    <3>1. f[1] = a /\ f[2] = b /\ f[3] = c
      BY <1>2
    <3>2. Field(k1, a) = a /\ Accepts(k1, a) /\ Field(k2, b) = b /\ Accepts(k2, b) /\ Field(k3, c) = c /\ Accepts(k3, c)
      BY DEF Keeps
    <3> SUFFICES ASSUME NEW i \in 1 .. 3 PROVE Field(K[i], f[i]) = f[i] /\ Accepts(K[i], f[i])
      OBVIOUS
    <3>3. i = 1 \/ i = 2 \/ i = 3
      OBVIOUS
    <3> QED BY <1>5, <3>1, <3>2, <3>3
  <2> QED BY <1>5, <2>1, <2>2, Zenon DEF Survive
<1>7. Row(p, tag, op, n, K) /\ tag # "QueryComputePool"
  BY <1>4 DEF Listed
<1>8. n \in Nat /\ 3 <= n /\ n <= MsgMaxWords /\ n <= 3 + 4 /\ 3 \in Nat
  BY DEF Listed
<1>9. CarriesExactly(p, [tag |-> tag, f |-> f])
  BY <1>3, <1>6, <1>7, <1>8, CarriesRow
<1> QED BY <1>1, <1>2, <1>9

LEMMA Carries4 ==
  ASSUME NEW p, NEW tag, NEW op, NEW n, NEW k1, NEW S1, Keeps(k1, S1), NEW k2, NEW S2, Keeps(k2, S2), NEW k3, NEW S3, Keeps(k3, S3), NEW k4, NEW S4, Keeps(k4, S4),
         Listed(p, tag, op, n, 4, <<k1, k2, k3, k4>>)
  PROVE  Carried(p, tag, S1 \X S2 \X S3 \X S4)
<1> SUFFICES ASSUME NEW m \in Variant(tag, S1 \X S2 \X S3 \X S4) PROVE CarriesExactly(p, m)
  BY DEF Carried
<1>1. PICK a \in S1, b \in S2, c \in S3, d \in S4 : m = [tag |-> tag, f |-> <<a, b, c, d>>]
  BY DEF Variant
<1>2. PICK f : f = <<a, b, c, d>>
  OBVIOUS
<1>3. f \in Seq(Nat) /\ Len(f) = 4
  BY <1>2 DEF Keeps
<1>4. PICK K : K = <<k1, k2, k3, k4>>
  OBVIOUS
<1>5. DOMAIN K = 1 .. 4 /\ Len(K) = 4 /\ K[1] = k1 /\ K[2] = k2 /\ K[3] = k3 /\ K[4] = k4
  BY <1>4
<1>6. Survive(K, f, 4)
  <2>1. f = [i \in 1 .. 4 |-> f[i]]
    BY <1>3, LenProperties
  <2>2. \A i \in 1 .. 4 : Field(K[i], f[i]) = f[i] /\ Accepts(K[i], f[i])
    <3>1. f[1] = a /\ f[2] = b /\ f[3] = c /\ f[4] = d
      BY <1>2
    <3>2. Field(k1, a) = a /\ Accepts(k1, a) /\ Field(k2, b) = b /\ Accepts(k2, b) /\ Field(k3, c) = c /\ Accepts(k3, c) /\ Field(k4, d) = d /\ Accepts(k4, d)
      BY DEF Keeps
    <3> SUFFICES ASSUME NEW i \in 1 .. 4 PROVE Field(K[i], f[i]) = f[i] /\ Accepts(K[i], f[i])
      OBVIOUS
    <3>3. i = 1 \/ i = 2 \/ i = 3 \/ i = 4
      OBVIOUS
    <3> QED BY <1>5, <3>1, <3>2, <3>3
  <2> QED BY <1>5, <2>1, <2>2, Zenon DEF Survive
<1>7. Row(p, tag, op, n, K) /\ tag # "QueryComputePool"
  BY <1>4 DEF Listed
<1>8. n \in Nat /\ 4 <= n /\ n <= MsgMaxWords /\ n <= 4 + 4 /\ 4 \in Nat
  BY DEF Listed
<1>9. CarriesExactly(p, [tag |-> tag, f |-> f])
  BY <1>3, <1>6, <1>7, <1>8, CarriesRow
<1> QED BY <1>1, <1>2, <1>9

\* The optional kind travels as a presence word and a word that counts only then.
LEMMA QueryCarried ==
  ASSUME NEW p, NEW op, Row(p, "QueryComputePool", op, 3, <<Whole, Enum({0, 1}), Whole>>)
  PROVE  Carried(p, "QueryComputePool", u64 \X Option(ComputeKind))
<1> SUFFICES ASSUME NEW m \in Variant("QueryComputePool", u64 \X Option(ComputeKind)) PROVE CarriesExactly(p, m)
  BY DEF Carried
<1>1. PICK b \in u64, o \in Option(ComputeKind) : m = [tag |-> "QueryComputePool", f |-> <<b, o>>]
  BY DEF Variant
<1>2. PICK w1 \in {0, 1}, w2 \in Nat :
        /\ OptionWords(o) = <<w1, w2>>
        /\ w1 = 0 => o = <<>>
        /\ w1 # 0 => w2 \in ComputeKind /\ o = <<w2>>
  <2>1. CASE o = <<>>
    BY <2>1 DEF OptionWords
  <2>2. CASE o # <<>>
    <3>1. PICK x \in ComputeKind : o = <<x>>
      BY <2>2 DEF Option, Unit, One
    <3>2. o[1] = x /\ x \in Nat
      BY <3>1 DEF ComputeKind
    <3>3. OptionWords(o) = <<1, x>>
      BY <2>2, <3>2 DEF OptionWords
    <3> QED BY <3>1, <3>2, <3>3
  <2> QED BY <2>1, <2>2
<1>3. b \in Nat
  BY WidthAssumption DEF u64
<1>4. PICK f : f = <<b, w1, w2>>
  OBVIOUS
<1>5. f \in Seq(Nat) /\ Len(f) = 3 /\ f[1] = b /\ f[2] = w1 /\ f[3] = w2
  BY <1>3, <1>4
<1>6. <<m.f[1]>> \o OptionWords(m.f[2]) = f
  <2>1. m.f[1] = b /\ m.f[2] = o
    BY <1>1
  <2>2. <<b>> \o <<w1, w2>> = <<b, w1, w2>>
    <3>1. PICK x : x = <<b>>
      OBVIOUS
    <3>2. PICK y : y = <<w1, w2>>
      OBVIOUS
    <3>3. x \in Seq(Nat) /\ y \in Seq(Nat) /\ Len(x) = 1 /\ Len(y) = 2 /\ x[1] = b /\ y[1] = w1 /\ y[2] = w2
      BY <1>3, <3>1, <3>2
    <3>4. x \o y \in Seq(Nat) /\ Len(x \o y) = 3
          /\ \A i \in 1 .. 3 : (x \o y)[i] = IF i <= 1 THEN x[i] ELSE y[i - 1]
      <4>1. /\ x \o y \in Seq(Nat) /\ Len(x \o y) = Len(x) + Len(y)
            /\ \A i \in 1 .. Len(x) + Len(y) : (x \o y)[i] = IF i <= Len(x) THEN x[i] ELSE y[i - Len(x)]
        BY <3>3, ConcatProperties, Zenon
      <4>2. Len(x) + Len(y) = 3
        BY <3>3
      <4> QED BY <3>3, <4>1, <4>2
    <3>5. PICK z : z = x \o y
      OBVIOUS
    <3>6. z \in Seq(Nat) /\ Len(z) = 3 /\ z[1] = b /\ z[2] = w1 /\ z[3] = w2
      BY <3>3, <3>4, <3>5
    <3>7. z = <<b, w1, w2>>
      BY <3>6
    <3> QED BY <3>1, <3>2, <3>5, <3>7
  <2> QED BY <1>2, <1>4, <2>1, <2>2
<1>7. PICK K : K = <<Whole, Enum({0, 1}), Whole>>
  OBVIOUS
<1>8. DOMAIN K = 1 .. 3 /\ Len(K) = 3 /\ K[1] = Whole /\ K[2] = Enum({0, 1}) /\ K[3] = Whole
  BY <1>7
<1>9. Survive(K, f, 3)
  <2>1. f = [i \in 1 .. 3 |-> f[i]]
    BY <1>5, LenProperties
  <2>2. \A i \in 1 .. 3 : Field(K[i], f[i]) = f[i] /\ Accepts(K[i], f[i])
    <3>1. \A v : Field(Whole, v) = v /\ Accepts(Whole, v)
      BY DEF Whole, Field, Accepts
    <3>2. Field(Enum({0, 1}), w1) = w1 /\ Accepts(Enum({0, 1}), w1)
      BY DEF Enum, Field, Accepts
    <3> SUFFICES ASSUME NEW i \in 1 .. 3 PROVE Field(K[i], f[i]) = f[i] /\ Accepts(K[i], f[i])
      OBVIOUS
    <3>3. i = 1 \/ i = 2 \/ i = 3
      OBVIOUS
    <3> QED BY <1>5, <1>8, <3>1, <3>2, <3>3
  <2> QED BY <1>8, <2>1, <2>2, Zenon DEF Survive
<1>10. p.codes["QueryComputePool"].op = op /\ p.codes["QueryComputePool"].n = 3
       /\ op \in DOMAIN p.forms /\ p.forms[op] = Form("QueryComputePool", K)
  BY <1>7 DEF Row, Code
<1>11. PICK msg : msg = SmallMessage(p.ns, op, f, 3)
  OBVIOUS
<1>12. Encode(p.codes, p.ns, m) = msg
  BY <1>1, <1>6, <1>10, <1>11 DEF Encode
<1>13. Holds(msg, p.ns, op, 3, f) /\ Holds(OverPage(msg), p.ns, op, 3, f)
  <2>1. 3 \in Nat /\ Len(f) <= 3 /\ 3 <= MsgMaxWords /\ 3 <= Len(f) + 4
    BY <1>5 DEF MsgMaxWords
  <2> QED BY <1>5, <1>11, <2>1, Encoded
<1>14. OptionOf([tag |-> "QueryComputePool", f |-> f]) = m
  <2>1. PICK g : g = [tag |-> "QueryComputePool", f |-> f]
    OBVIOUS
  <2>2. g.f = f
    BY <2>1
  <2>3. CASE w1 = 0
    <3>1. OptionOf(g) = [g EXCEPT !.f = <<@[1], <<>>>>]
      BY <1>5, <2>2, <2>3 DEF OptionOf
    <3>2. OptionOf(g) = [tag |-> "QueryComputePool", f |-> <<b, <<>>>>]
      BY <1>5, <2>1, <3>1
    <3> QED BY <1>1, <1>2, <2>1, <2>3, <3>2
  <2>4. CASE w1 # 0
    <3>1. OptionOf(g) = [g EXCEPT !.f = <<@[1], <<@[3]>>>>]
      BY <1>2, <1>5, <2>2, <2>4 DEF OptionOf
    <3>2. OptionOf(g) = [tag |-> "QueryComputePool", f |-> <<b, <<w2>>>>]
      BY <1>5, <2>1, <3>1
    <3> QED BY <1>1, <1>2, <2>1, <2>4, <3>2
  <2> QED BY <2>3, <2>4
<1>15. Decode(p.forms, p.ns, msg) = m /\ Decode(p.forms, p.ns, OverPage(msg)) = m
  <2>1. 3 \in Nat
    OBVIOUS
  <2>2. Decode(p.forms, p.ns, msg) = OptionOf([tag |-> "QueryComputePool", f |-> f])
    BY <1>9, <1>10, <1>13, <2>1, Decoded
  <2>3. Decode(p.forms, p.ns, OverPage(msg)) = OptionOf([tag |-> "QueryComputePool", f |-> f])
    BY <1>9, <1>10, <1>13, <2>1, Decoded
  <2> QED BY <1>14, <2>2, <2>3
<1>16. \A q \in DOMAIN Protocols :
         Protocols[q].ns # p.ns => Decode(Protocols[q].forms, Protocols[q].ns, OverPage(msg)).tag = "WrongNamespace"
  BY <1>13, OthersRefuse
<1> QED BY <1>12, <1>15, <1>16, Zenon DEF CarriesExactly

\* The enumerations keep their numbers.
LEMMA KeepsEnums ==
  \A S \in {FsErrorCode, DriverErrorCode, DisplayErrorCode, ReclaimClass, ComputeKind, MmErrorCode,
            SecurityErrorCode} : Keeps(Enum(S), S)
<1>1. \A S \in {FsErrorCode, DriverErrorCode, DisplayErrorCode, ReclaimClass, ComputeKind, MmErrorCode,
                SecurityErrorCode} : S \in SUBSET Nat
  BY DEF FsErrorCode, DriverErrorCode, DisplayErrorCode, ReclaimClass, ComputeKind, MmErrorCode,
         SecurityErrorCode
<1> QED BY <1>1, KeepsAll

LEMMA FsRequestCarried ==
  ASSUME NEW p, p = Protocol("Fs", FsRequest, EncodeFsRequest, DecodeFsRequest)
  PROVE  \A m \in FsRequest : CarriesExactly(p, m)
<1>1. p.codes = EncodeFsRequest /\ p.forms = DecodeFsRequest
  BY DEF Protocol
<1>2. Carried(p, "Open", u32 \X OpenFlags)
  <2>1. Row(p, "Open", 1, 2, <<Narrow, Bits(OpenFlags)>>)
    BY <1>1 DEF Row, EncodeFsRequest, DecodeFsRequest
  <2>2. Listed(p, "Open", 1, 2, 2, <<Narrow, Bits(OpenFlags)>>)
    BY <2>1 DEF Listed, MsgMaxWords
  <2>3. Keeps(Narrow, u32) /\ Keeps(Bits(OpenFlags), OpenFlags)
    BY KeepsAll DEF OpenFlags
  <2> QED BY <2>2, <2>3, Carries2
<1>3. Carried(p, "Stat", One(u32))
  <2>1. Row(p, "Stat", 4, 1, <<Narrow>>)
    BY <1>1 DEF Row, EncodeFsRequest, DecodeFsRequest
  <2>2. Listed(p, "Stat", 4, 1, 1, <<Narrow>>)
    BY <2>1 DEF Listed, MsgMaxWords
  <2>3. Keeps(Narrow, u32)
    BY KeepsAll
  <2> QED BY <2>2, <2>3, Carries1
<1>4. Carried(p, "Close", One(u32))
  <2>1. Row(p, "Close", 5, 1, <<Narrow>>)
    BY <1>1 DEF Row, EncodeFsRequest, DecodeFsRequest
  <2>2. Listed(p, "Close", 5, 1, 1, <<Narrow>>)
    BY <2>1 DEF Listed, MsgMaxWords
  <2>3. Keeps(Narrow, u32)
    BY KeepsAll
  <2> QED BY <2>2, <2>3, Carries1
<1>5. Carried(p, "Read", u32 \X u64 \X u32 \X u32)
  <2>1. Row(p, "Read", 2, 4, <<Narrow, Whole, Narrow, Narrow>>)
    BY <1>1 DEF Row, EncodeFsRequest, DecodeFsRequest
  <2>2. Listed(p, "Read", 2, 4, 4, <<Narrow, Whole, Narrow, Narrow>>)
    BY <2>1 DEF Listed, MsgMaxWords
  <2>3. Keeps(Narrow, u32) /\ Keeps(Whole, u64)
    BY KeepsAll
  <2> QED BY <2>2, <2>3, Carries4
<1>6. Carried(p, "Write", u32 \X u64 \X u32 \X u32)
  <2>1. Row(p, "Write", 3, 4, <<Narrow, Whole, Narrow, Narrow>>)
    BY <1>1 DEF Row, EncodeFsRequest, DecodeFsRequest
  <2>2. Listed(p, "Write", 3, 4, 4, <<Narrow, Whole, Narrow, Narrow>>)
    BY <2>1 DEF Listed, MsgMaxWords
  <2>3. Keeps(Narrow, u32) /\ Keeps(Whole, u64)
    BY KeepsAll
  <2> QED BY <2>2, <2>3, Carries4
<1> QED BY <1>2, <1>3, <1>4, <1>5, <1>6 DEF FsRequest, Carried

LEMMA FsResponseCarried ==
  ASSUME NEW p, p = Protocol("Fs", FsResponse, EncodeFsResponse, DecodeFsResponse)
  PROVE  \A m \in FsResponse : CarriesExactly(p, m)
<1>1. p.codes = EncodeFsResponse /\ p.forms = DecodeFsResponse
  BY DEF Protocol
<1>2. Carried(p, "Opened", One(u32))
  <2>1. Row(p, "Opened", 1, 1, <<Narrow>>)
    BY <1>1 DEF Row, EncodeFsResponse, DecodeFsResponse
  <2>2. Listed(p, "Opened", 1, 1, 1, <<Narrow>>)
    BY <2>1 DEF Listed, MsgMaxWords
  <2>3. Keeps(Narrow, u32)
    BY KeepsAll
  <2> QED BY <2>2, <2>3, Carries1
<1>3. Carried(p, "Read", One(u32))
  <2>1. Row(p, "Read", 2, 1, <<Narrow>>)
    BY <1>1 DEF Row, EncodeFsResponse, DecodeFsResponse
  <2>2. Listed(p, "Read", 2, 1, 1, <<Narrow>>)
    BY <2>1 DEF Listed, MsgMaxWords
  <2>3. Keeps(Narrow, u32)
    BY KeepsAll
  <2> QED BY <2>2, <2>3, Carries1
<1>4. Carried(p, "Written", One(u32))
  <2>1. Row(p, "Written", 3, 1, <<Narrow>>)
    BY <1>1 DEF Row, EncodeFsResponse, DecodeFsResponse
  <2>2. Listed(p, "Written", 3, 1, 1, <<Narrow>>)
    BY <2>1 DEF Listed, MsgMaxWords
  <2>3. Keeps(Narrow, u32)
    BY KeepsAll
  <2> QED BY <2>2, <2>3, Carries1
<1>5. Carried(p, "Stat", u64 \X bool)
  <2>1. Row(p, "Stat", 4, 2, <<Whole, Flag>>)
    BY <1>1 DEF Row, EncodeFsResponse, DecodeFsResponse
  <2>2. Listed(p, "Stat", 4, 2, 2, <<Whole, Flag>>)
    BY <2>1 DEF Listed, MsgMaxWords
  <2>3. Keeps(Whole, u64) /\ Keeps(Flag, bool)
    BY KeepsAll
  <2> QED BY <2>2, <2>3, Carries2
<1>6. Carried(p, "Closed", Unit)
  <2>1. Row(p, "Closed", 5, 0, <<>>)
    BY <1>1 DEF Row, EncodeFsResponse, DecodeFsResponse
  <2>2. Listed(p, "Closed", 5, 0, 0, <<>>)
    BY <2>1 DEF Listed, MsgMaxWords
  <2> QED BY <2>2, Carries0
<1>7. Carried(p, "Error", One(FsErrorCode))
  <2>1. Row(p, "Error", 6, 1, <<Enum(FsErrorCode)>>)
    BY <1>1 DEF Row, EncodeFsResponse, DecodeFsResponse
  <2>2. Listed(p, "Error", 6, 1, 1, <<Enum(FsErrorCode)>>)
    BY <2>1 DEF Listed, MsgMaxWords
  <2>3. Keeps(Enum(FsErrorCode), FsErrorCode)
    BY KeepsEnums
  <2> QED BY <2>2, <2>3, Carries1
<1> QED BY <1>2, <1>3, <1>4, <1>5, <1>6, <1>7 DEF FsResponse, Carried

LEMMA DriverRequestCarried ==
  ASSUME NEW p, p = Protocol("Driver", DriverRequest, EncodeDriverRequest, DecodeDriverRequest)
  PROVE  \A m \in DriverRequest : CarriesExactly(p, m)
<1>1. p.codes = EncodeDriverRequest /\ p.forms = DecodeDriverRequest
  BY DEF Protocol
<1>2. Carried(p, "Probe", Unit)
  <2>1. Row(p, "Probe", 1, 0, <<>>)
    BY <1>1 DEF Row, EncodeDriverRequest, DecodeDriverRequest
  <2>2. Listed(p, "Probe", 1, 0, 0, <<>>)
    BY <2>1 DEF Listed, MsgMaxWords
  <2> QED BY <2>2, Carries0
<1>3. Carried(p, "Irq", One(u32))
  <2>1. Row(p, "Irq", 2, 1, <<Narrow>>)
    BY <1>1 DEF Row, EncodeDriverRequest, DecodeDriverRequest
  <2>2. Listed(p, "Irq", 2, 1, 1, <<Narrow>>)
    BY <2>1 DEF Listed, MsgMaxWords
  <2>3. Keeps(Narrow, u32)
    BY KeepsAll
  <2> QED BY <2>2, <2>3, Carries1
<1>4. Carried(p, "ReadBlocks", u64 \X u32 \X u32)
  <2>1. Row(p, "ReadBlocks", 3, 3, <<Whole, Narrow, Narrow>>)
    BY <1>1 DEF Row, EncodeDriverRequest, DecodeDriverRequest
  <2>2. Listed(p, "ReadBlocks", 3, 3, 3, <<Whole, Narrow, Narrow>>)
    BY <2>1 DEF Listed, MsgMaxWords
  <2>3. Keeps(Whole, u64) /\ Keeps(Narrow, u32)
    BY KeepsAll
  <2> QED BY <2>2, <2>3, Carries3
<1>5. Carried(p, "WriteBlocks", u64 \X u32 \X u32)
  <2>1. Row(p, "WriteBlocks", 4, 3, <<Whole, Narrow, Narrow>>)
    BY <1>1 DEF Row, EncodeDriverRequest, DecodeDriverRequest
  <2>2. Listed(p, "WriteBlocks", 4, 3, 3, <<Whole, Narrow, Narrow>>)
    BY <2>1 DEF Listed, MsgMaxWords
  <2>3. Keeps(Whole, u64) /\ Keeps(Narrow, u32)
    BY KeepsAll
  <2> QED BY <2>2, <2>3, Carries3
<1>6. Carried(p, "Quiesce", Unit)
  <2>1. Row(p, "Quiesce", 5, 0, <<>>)
    BY <1>1 DEF Row, EncodeDriverRequest, DecodeDriverRequest
  <2>2. Listed(p, "Quiesce", 5, 0, 0, <<>>)
    BY <2>1 DEF Listed, MsgMaxWords
  <2> QED BY <2>2, Carries0
<1>7. Carried(p, "SendFrame", One(u32))
  <2>1. Row(p, "SendFrame", 6, 1, <<Narrow>>)
    BY <1>1 DEF Row, EncodeDriverRequest, DecodeDriverRequest
  <2>2. Listed(p, "SendFrame", 6, 1, 1, <<Narrow>>)
    BY <2>1 DEF Listed, MsgMaxWords
  <2>3. Keeps(Narrow, u32)
    BY KeepsAll
  <2> QED BY <2>2, <2>3, Carries1
<1>8. Carried(p, "PollFrame", Unit)
  <2>1. Row(p, "PollFrame", 7, 0, <<>>)
    BY <1>1 DEF Row, EncodeDriverRequest, DecodeDriverRequest
  <2>2. Listed(p, "PollFrame", 7, 0, 0, <<>>)
    BY <2>1 DEF Listed, MsgMaxWords
  <2> QED BY <2>2, Carries0
<1> QED BY <1>2, <1>3, <1>4, <1>5, <1>6, <1>7, <1>8 DEF DriverRequest, Carried

LEMMA DriverResponseCarried ==
  ASSUME NEW p, p = Protocol("Driver", DriverResponse, EncodeDriverResponse, DecodeDriverResponse)
  PROVE  \A m \in DriverResponse : CarriesExactly(p, m)
<1>1. p.codes = EncodeDriverResponse /\ p.forms = DecodeDriverResponse
  BY DEF Protocol
<1>2. Carried(p, "Ready", u32 \X u64)
  <2>1. Row(p, "Ready", 1, 2, <<Narrow, Whole>>)
    BY <1>1 DEF Row, EncodeDriverResponse, DecodeDriverResponse
  <2>2. Listed(p, "Ready", 1, 2, 2, <<Narrow, Whole>>)
    BY <2>1 DEF Listed, MsgMaxWords
  <2>3. Keeps(Narrow, u32) /\ Keeps(Whole, u64)
    BY KeepsAll
  <2> QED BY <2>2, <2>3, Carries2
<1>3. Carried(p, "Completed", One(u32))
  <2>1. Row(p, "Completed", 2, 1, <<Narrow>>)
    BY <1>1 DEF Row, EncodeDriverResponse, DecodeDriverResponse
  <2>2. Listed(p, "Completed", 2, 1, 1, <<Narrow>>)
    BY <2>1 DEF Listed, MsgMaxWords
  <2>3. Keeps(Narrow, u32)
    BY KeepsAll
  <2> QED BY <2>2, <2>3, Carries1
<1>4. Carried(p, "Failed", One(DriverErrorCode))
  <2>1. Row(p, "Failed", 3, 1, <<Enum(DriverErrorCode)>>)
    BY <1>1 DEF Row, EncodeDriverResponse, DecodeDriverResponse
  <2>2. Listed(p, "Failed", 3, 1, 1, <<Enum(DriverErrorCode)>>)
    BY <2>1 DEF Listed, MsgMaxWords
  <2>3. Keeps(Enum(DriverErrorCode), DriverErrorCode)
    BY KeepsEnums
  <2> QED BY <2>2, <2>3, Carries1
<1>5. Carried(p, "FrameSent", Unit)
  <2>1. Row(p, "FrameSent", 4, 0, <<>>)
    BY <1>1 DEF Row, EncodeDriverResponse, DecodeDriverResponse
  <2>2. Listed(p, "FrameSent", 4, 0, 0, <<>>)
    BY <2>1 DEF Listed, MsgMaxWords
  <2> QED BY <2>2, Carries0
<1>6. Carried(p, "FrameReceived", One(u32))
  <2>1. Row(p, "FrameReceived", 5, 1, <<Narrow>>)
    BY <1>1 DEF Row, EncodeDriverResponse, DecodeDriverResponse
  <2>2. Listed(p, "FrameReceived", 5, 1, 1, <<Narrow>>)
    BY <2>1 DEF Listed, MsgMaxWords
  <2>3. Keeps(Narrow, u32)
    BY KeepsAll
  <2> QED BY <2>2, <2>3, Carries1
<1> QED BY <1>2, <1>3, <1>4, <1>5, <1>6 DEF DriverResponse, Carried

LEMMA DisplayRequestCarried ==
  ASSUME NEW p, p = Protocol("Display", DisplayRequest, EncodeDisplayRequest, DecodeDisplayRequest)
  PROVE  \A m \in DisplayRequest : CarriesExactly(p, m)
<1>1. p.codes = EncodeDisplayRequest /\ p.forms = DecodeDisplayRequest
  BY DEF Protocol
<1>2. Carried(p, "CreateSurface", Unit)
  <2>1. Row(p, "CreateSurface", 1, 0, <<>>)
    BY <1>1 DEF Row, EncodeDisplayRequest, DecodeDisplayRequest
  <2>2. Listed(p, "CreateSurface", 1, 0, 0, <<>>)
    BY <2>1 DEF Listed, MsgMaxWords
  <2> QED BY <2>2, Carries0
<1>3. Carried(p, "CommitBuffer", u32 \X u32 \X u32 \X u32)
  <2>1. Row(p, "CommitBuffer", 2, 4, <<Narrow, Narrow, Narrow, Narrow>>)
    BY <1>1 DEF Row, EncodeDisplayRequest, DecodeDisplayRequest
  <2>2. Listed(p, "CommitBuffer", 2, 4, 4, <<Narrow, Narrow, Narrow, Narrow>>)
    BY <2>1 DEF Listed, MsgMaxWords
  <2>3. Keeps(Narrow, u32)
    BY KeepsAll
  <2> QED BY <2>2, <2>3, Carries4
<1>4. Carried(p, "DestroySurface", One(u32))
  <2>1. Row(p, "DestroySurface", 3, 1, <<Narrow>>)
    BY <1>1 DEF Row, EncodeDisplayRequest, DecodeDisplayRequest
  <2>2. Listed(p, "DestroySurface", 3, 1, 1, <<Narrow>>)
    BY <2>1 DEF Listed, MsgMaxWords
  <2>3. Keeps(Narrow, u32)
    BY KeepsAll
  <2> QED BY <2>2, <2>3, Carries1
<1>5. Carried(p, "SubscribeInput", Unit)
  <2>1. Row(p, "SubscribeInput", 4, 0, <<>>)
    BY <1>1 DEF Row, EncodeDisplayRequest, DecodeDisplayRequest
  <2>2. Listed(p, "SubscribeInput", 4, 0, 0, <<>>)
    BY <2>1 DEF Listed, MsgMaxWords
  <2> QED BY <2>2, Carries0
<1>6. Carried(p, "QueryOutputs", Unit)
  <2>1. Row(p, "QueryOutputs", 5, 0, <<>>)
    BY <1>1 DEF Row, EncodeDisplayRequest, DecodeDisplayRequest
  <2>2. Listed(p, "QueryOutputs", 5, 0, 0, <<>>)
    BY <2>1 DEF Listed, MsgMaxWords
  <2> QED BY <2>2, Carries0
<1> QED BY <1>2, <1>3, <1>4, <1>5, <1>6 DEF DisplayRequest, Carried

LEMMA DisplayResponseCarried ==
  ASSUME NEW p, p = Protocol("Display", DisplayResponse, EncodeDisplayResponse, DecodeDisplayResponse)
  PROVE  \A m \in DisplayResponse : CarriesExactly(p, m)
<1>1. p.codes = EncodeDisplayResponse /\ p.forms = DecodeDisplayResponse
  BY DEF Protocol
<1>2. Carried(p, "SurfaceCreated", One(u32))
  <2>1. Row(p, "SurfaceCreated", 1, 1, <<Narrow>>)
    BY <1>1 DEF Row, EncodeDisplayResponse, DecodeDisplayResponse
  <2>2. Listed(p, "SurfaceCreated", 1, 1, 1, <<Narrow>>)
    BY <2>1 DEF Listed, MsgMaxWords
  <2>3. Keeps(Narrow, u32)
    BY KeepsAll
  <2> QED BY <2>2, <2>3, Carries1
<1>3. Carried(p, "Committed", Unit)
  <2>1. Row(p, "Committed", 2, 0, <<>>)
    BY <1>1 DEF Row, EncodeDisplayResponse, DecodeDisplayResponse
  <2>2. Listed(p, "Committed", 2, 0, 0, <<>>)
    BY <2>1 DEF Listed, MsgMaxWords
  <2> QED BY <2>2, Carries0
<1>4. Carried(p, "Destroyed", Unit)
  <2>1. Row(p, "Destroyed", 3, 0, <<>>)
    BY <1>1 DEF Row, EncodeDisplayResponse, DecodeDisplayResponse
  <2>2. Listed(p, "Destroyed", 3, 0, 0, <<>>)
    BY <2>1 DEF Listed, MsgMaxWords
  <2> QED BY <2>2, Carries0
<1>5. Carried(p, "InputSubscribed", Unit)
  <2>1. Row(p, "InputSubscribed", 4, 0, <<>>)
    BY <1>1 DEF Row, EncodeDisplayResponse, DecodeDisplayResponse
  <2>2. Listed(p, "InputSubscribed", 4, 0, 0, <<>>)
    BY <2>1 DEF Listed, MsgMaxWords
  <2> QED BY <2>2, Carries0
<1>6. Carried(p, "OutputTopology", u32 \X u32 \X u32 \X u32)
  <2>1. Row(p, "OutputTopology", 5, 4, <<Narrow, Narrow, Narrow, Narrow>>)
    BY <1>1 DEF Row, EncodeDisplayResponse, DecodeDisplayResponse
  <2>2. Listed(p, "OutputTopology", 5, 4, 4, <<Narrow, Narrow, Narrow, Narrow>>)
    BY <2>1 DEF Listed, MsgMaxWords
  <2>3. Keeps(Narrow, u32)
    BY KeepsAll
  <2> QED BY <2>2, <2>3, Carries4
<1>7. Carried(p, "Error", One(DisplayErrorCode))
  <2>1. Row(p, "Error", 6, 1, <<Enum(DisplayErrorCode)>>)
    BY <1>1 DEF Row, EncodeDisplayResponse, DecodeDisplayResponse
  <2>2. Listed(p, "Error", 6, 1, 1, <<Enum(DisplayErrorCode)>>)
    BY <2>1 DEF Listed, MsgMaxWords
  <2>3. Keeps(Enum(DisplayErrorCode), DisplayErrorCode)
    BY KeepsEnums
  <2> QED BY <2>2, <2>3, Carries1
<1> QED BY <1>2, <1>3, <1>4, <1>5, <1>6, <1>7 DEF DisplayResponse, Carried

LEMMA MmRequestCarried ==
  ASSUME NEW p, p = Protocol("Mm", MmRequest, EncodeMmRequest, DecodeMmRequest)
  PROVE  \A m \in MmRequest : CarriesExactly(p, m)
<1>1. p.codes = EncodeMmRequest /\ p.forms = DecodeMmRequest
  BY DEF Protocol
<1>2. Carried(p, "Register", u32 \X u64 \X ReclaimClass)
  <2>1. Row(p, "Register", 1, 4, <<Narrow, Whole, Enum(ReclaimClass)>>)
    <3>1. p.codes["Register"] = Code(1, 4)
      BY <1>1 DEF EncodeMmRequest
    <3>2. 1 \in DOMAIN p.forms
      <4>1. \A a, b, c, d, e, g, h, i, j : 1 \in DOMAIN <<a, b, c, d, e, g, h, i, j>>
        OBVIOUS
      <4> QED BY <1>1, <4>1, Zenon DEF DecodeMmRequest
    <3>3. p.forms[1] = Form("Register", <<Narrow, Whole, Enum(ReclaimClass)>>)
      BY <1>1 DEF DecodeMmRequest
    <3> QED BY <3>1, <3>2, <3>3 DEF Row
  <2>2. Listed(p, "Register", 1, 4, 3, <<Narrow, Whole, Enum(ReclaimClass)>>)
    BY <2>1 DEF Listed, MsgMaxWords
  <2>3. Keeps(Narrow, u32) /\ Keeps(Whole, u64) /\ Keeps(Enum(ReclaimClass), ReclaimClass)
    BY KeepsAll, KeepsEnums
  <2> QED BY <2>2, <2>3, Carries3
<1>3. Carried(p, "Unregister", One(u32))
  <2>1. Row(p, "Unregister", 2, 1, <<Narrow>>)
    BY <1>1 DEF Row, EncodeMmRequest, DecodeMmRequest
  <2>2. Listed(p, "Unregister", 2, 1, 1, <<Narrow>>)
    BY <2>1 DEF Listed, MsgMaxWords
  <2>3. Keeps(Narrow, u32)
    BY KeepsAll
  <2> QED BY <2>2, <2>3, Carries1
<1>4. Carried(p, "QueryVictim", Unit)
  <2>1. Row(p, "QueryVictim", 3, 0, <<>>)
    BY <1>1 DEF Row, EncodeMmRequest, DecodeMmRequest
  <2>2. Listed(p, "QueryVictim", 3, 0, 0, <<>>)
    BY <2>1 DEF Listed, MsgMaxWords
  <2> QED BY <2>2, Carries0
<1>5. Carried(p, "QueryTotalResident", Unit)
  <2>1. Row(p, "QueryTotalResident", 4, 0, <<>>)
    BY <1>1 DEF Row, EncodeMmRequest, DecodeMmRequest
  <2>2. Listed(p, "QueryTotalResident", 4, 0, 0, <<>>)
    BY <2>1 DEF Listed, MsgMaxWords
  <2> QED BY <2>2, Carries0
<1>6. Carried(p, "RegisterSwapRegion", u32 \X u32 \X u64 \X u64)
  <2>1. Row(p, "RegisterSwapRegion", 5, 4, <<Narrow, Narrow, Whole, Whole>>)
    BY <1>1 DEF Row, EncodeMmRequest, DecodeMmRequest
  <2>2. Listed(p, "RegisterSwapRegion", 5, 4, 4, <<Narrow, Narrow, Whole, Whole>>)
    BY <2>1 DEF Listed, MsgMaxWords
  <2>3. Keeps(Narrow, u32) /\ Keeps(Whole, u64)
    BY KeepsAll
  <2> QED BY <2>2, <2>3, Carries4
<1>7. Carried(p, "UnregisterSwapRegion", u32 \X u32)
  <2>1. Row(p, "UnregisterSwapRegion", 6, 3, <<Narrow, Narrow>>)
    BY <1>1 DEF Row, EncodeMmRequest, DecodeMmRequest
  <2>2. Listed(p, "UnregisterSwapRegion", 6, 3, 2, <<Narrow, Narrow>>)
    BY <2>1 DEF Listed, MsgMaxWords
  <2>3. Keeps(Narrow, u32)
    BY KeepsAll
  <2> QED BY <2>2, <2>3, Carries2
<1>8. Carried(p, "QuerySwapVictim", Unit)
  <2>1. Row(p, "QuerySwapVictim", 7, 0, <<>>)
    BY <1>1 DEF Row, EncodeMmRequest, DecodeMmRequest
  <2>2. Listed(p, "QuerySwapVictim", 7, 0, 0, <<>>)
    BY <2>1 DEF Listed, MsgMaxWords
  <2> QED BY <2>2, Carries0
<1>9. Carried(p, "RegisterComputePool", u32 \X ComputeKind \X u64 \X u64)
  <2>1. Row(p, "RegisterComputePool", 8, 4, <<Narrow, Enum(ComputeKind), Whole, Whole>>)
    BY <1>1 DEF Row, EncodeMmRequest, DecodeMmRequest
  <2>2. Listed(p, "RegisterComputePool", 8, 4, 4, <<Narrow, Enum(ComputeKind), Whole, Whole>>)
    BY <2>1 DEF Listed, MsgMaxWords
  <2>3. Keeps(Narrow, u32) /\ Keeps(Enum(ComputeKind), ComputeKind) /\ Keeps(Whole, u64)
    BY KeepsAll, KeepsEnums
  <2> QED BY <2>2, <2>3, Carries4
<1>10. Carried(p, "QueryComputePool", u64 \X Option(ComputeKind))
  <2>1. Row(p, "QueryComputePool", 9, 3, <<Whole, Enum({0, 1}), Whole>>)
    BY <1>1 DEF Row, EncodeMmRequest, DecodeMmRequest
  <2> QED BY <2>1, QueryCarried
<1> QED BY <1>2, <1>3, <1>4, <1>5, <1>6, <1>7, <1>8, <1>9, <1>10 DEF MmRequest, Carried

LEMMA MmResponseCarried ==
  ASSUME NEW p, p = Protocol("Mm", MmResponse, EncodeMmResponse, DecodeMmResponse)
  PROVE  \A m \in MmResponse : CarriesExactly(p, m)
<1>1. p.codes = EncodeMmResponse /\ p.forms = DecodeMmResponse
  BY DEF Protocol
<1>2. Carried(p, "Registered", Unit)
  <2>1. Row(p, "Registered", 1, 0, <<>>)
    BY <1>1 DEF Row, EncodeMmResponse, DecodeMmResponse
  <2>2. Listed(p, "Registered", 1, 0, 0, <<>>)
    BY <2>1 DEF Listed, MsgMaxWords
  <2> QED BY <2>2, Carries0
<1>3. Carried(p, "Unregistered", Unit)
  <2>1. Row(p, "Unregistered", 2, 0, <<>>)
    BY <1>1 DEF Row, EncodeMmResponse, DecodeMmResponse
  <2>2. Listed(p, "Unregistered", 2, 0, 0, <<>>)
    BY <2>1 DEF Listed, MsgMaxWords
  <2> QED BY <2>2, Carries0
<1>4. Carried(p, "Victim", One(u32))
  <2>1. Row(p, "Victim", 3, 1, <<Narrow>>)
    BY <1>1 DEF Row, EncodeMmResponse, DecodeMmResponse
  <2>2. Listed(p, "Victim", 3, 1, 1, <<Narrow>>)
    BY <2>1 DEF Listed, MsgMaxWords
  <2>3. Keeps(Narrow, u32)
    BY KeepsAll
  <2> QED BY <2>2, <2>3, Carries1
<1>5. Carried(p, "TotalResident", One(u64))
  <2>1. Row(p, "TotalResident", 4, 1, <<Whole>>)
    BY <1>1 DEF Row, EncodeMmResponse, DecodeMmResponse
  <2>2. Listed(p, "TotalResident", 4, 1, 1, <<Whole>>)
    BY <2>1 DEF Listed, MsgMaxWords
  <2>3. Keeps(Whole, u64)
    BY KeepsAll
  <2> QED BY <2>2, <2>3, Carries1
<1>6. Carried(p, "SwapRegionRegistered", Unit)
  <2>1. Row(p, "SwapRegionRegistered", 6, 0, <<>>)
    BY <1>1 DEF Row, EncodeMmResponse, DecodeMmResponse
  <2>2. Listed(p, "SwapRegionRegistered", 6, 0, 0, <<>>)
    BY <2>1 DEF Listed, MsgMaxWords
  <2> QED BY <2>2, Carries0
<1>7. Carried(p, "SwapRegionUnregistered", Unit)
  <2>1. Row(p, "SwapRegionUnregistered", 7, 0, <<>>)
    BY <1>1 DEF Row, EncodeMmResponse, DecodeMmResponse
  <2>2. Listed(p, "SwapRegionUnregistered", 7, 0, 0, <<>>)
    BY <2>1 DEF Listed, MsgMaxWords
  <2> QED BY <2>2, Carries0
<1>8. Carried(p, "SwapVictim", u32 \X u32)
  <2>1. Row(p, "SwapVictim", 8, 2, <<Narrow, Narrow>>)
    BY <1>1 DEF Row, EncodeMmResponse, DecodeMmResponse
  <2>2. Listed(p, "SwapVictim", 8, 2, 2, <<Narrow, Narrow>>)
    BY <2>1 DEF Listed, MsgMaxWords
  <2>3. Keeps(Narrow, u32)
    BY KeepsAll
  <2> QED BY <2>2, <2>3, Carries2
<1>9. Carried(p, "ComputePoolRegistered", Unit)
  <2>1. Row(p, "ComputePoolRegistered", 9, 0, <<>>)
    BY <1>1 DEF Row, EncodeMmResponse, DecodeMmResponse
  <2>2. Listed(p, "ComputePoolRegistered", 9, 0, 0, <<>>)
    BY <2>1 DEF Listed, MsgMaxWords
  <2> QED BY <2>2, Carries0
<1>10. Carried(p, "ComputePoolChosen", One(u32))
  <2>1. Row(p, "ComputePoolChosen", 10, 1, <<Narrow>>)
    <3>1. p.codes["ComputePoolChosen"] = Code(10, 1)
      BY <1>1 DEF EncodeMmResponse
    <3>2. 10 \in DOMAIN p.forms
      BY <1>1 DEF DecodeMmResponse
    <3>3. p.forms[10] = Form("ComputePoolChosen", <<Narrow>>)
      BY <1>1 DEF DecodeMmResponse
    <3> QED BY <3>1, <3>2, <3>3 DEF Row
  <2>2. Listed(p, "ComputePoolChosen", 10, 1, 1, <<Narrow>>)
    BY <2>1 DEF Listed, MsgMaxWords
  <2>3. Keeps(Narrow, u32)
    BY KeepsAll
  <2> QED BY <2>2, <2>3, Carries1
<1>11. Carried(p, "Error", One(MmErrorCode))
  <2>1. Row(p, "Error", 5, 1, <<Enum(MmErrorCode)>>)
    BY <1>1 DEF Row, EncodeMmResponse, DecodeMmResponse
  <2>2. Listed(p, "Error", 5, 1, 1, <<Enum(MmErrorCode)>>)
    BY <2>1 DEF Listed, MsgMaxWords
  <2>3. Keeps(Enum(MmErrorCode), MmErrorCode)
    BY KeepsEnums
  <2> QED BY <2>2, <2>3, Carries1
<1> QED BY <1>2, <1>3, <1>4, <1>5, <1>6, <1>7, <1>8, <1>9, <1>10, <1>11 DEF MmResponse, Carried

LEMMA NetBypassRequestCarried ==
  ASSUME NEW p, p = Protocol("NetBypass", NetBypassRequest, EncodeNetBypassRequest, DecodeNetBypassRequest)
  PROVE  \A m \in NetBypassRequest : CarriesExactly(p, m)
<1>1. p.codes = EncodeNetBypassRequest /\ p.forms = DecodeNetBypassRequest
  BY DEF Protocol
<1>2. Carried(p, "RequestDirectNic", One(u32))
  <2>1. Row(p, "RequestDirectNic", 1, 1, <<Narrow>>)
    BY <1>1 DEF Row, EncodeNetBypassRequest, DecodeNetBypassRequest
  <2>2. Listed(p, "RequestDirectNic", 1, 1, 1, <<Narrow>>)
    BY <2>1 DEF Listed, MsgMaxWords
  <2>3. Keeps(Narrow, u32)
    BY KeepsAll
  <2> QED BY <2>2, <2>3, Carries1
<1>3. Carried(p, "Release", One(u32))
  <2>1. Row(p, "Release", 2, 1, <<Narrow>>)
    BY <1>1 DEF Row, EncodeNetBypassRequest, DecodeNetBypassRequest
  <2>2. Listed(p, "Release", 2, 1, 1, <<Narrow>>)
    BY <2>1 DEF Listed, MsgMaxWords
  <2>3. Keeps(Narrow, u32)
    BY KeepsAll
  <2> QED BY <2>2, <2>3, Carries1
<1>4. Carried(p, "RelayFrame", Unit)
  <2>1. Row(p, "RelayFrame", 3, 0, <<>>)
    BY <1>1 DEF Row, EncodeNetBypassRequest, DecodeNetBypassRequest
  <2>2. Listed(p, "RelayFrame", 3, 0, 0, <<>>)
    BY <2>1 DEF Listed, MsgMaxWords
  <2> QED BY <2>2, Carries0
<1> QED BY <1>2, <1>3, <1>4 DEF NetBypassRequest, Carried

LEMMA NetBypassResponseCarried ==
  ASSUME NEW p, p = Protocol("NetBypass", NetBypassResponse, EncodeNetBypassResponse, DecodeNetBypassResponse)
  PROVE  \A m \in NetBypassResponse : CarriesExactly(p, m)
<1>1. p.codes = EncodeNetBypassResponse /\ p.forms = DecodeNetBypassResponse
  BY DEF Protocol
<1>2. Carried(p, "Granted", u32 \X u32 \X u32 \X u32)
  <2>1. Row(p, "Granted", 1, 4, <<Narrow, Narrow, Narrow, Narrow>>)
    BY <1>1 DEF Row, EncodeNetBypassResponse, DecodeNetBypassResponse
  <2>2. Listed(p, "Granted", 1, 4, 4, <<Narrow, Narrow, Narrow, Narrow>>)
    BY <2>1 DEF Listed, MsgMaxWords
  <2>3. Keeps(Narrow, u32)
    BY KeepsAll
  <2> QED BY <2>2, <2>3, Carries4
<1>3. Carried(p, "Denied", Unit)
  <2>1. Row(p, "Denied", 2, 0, <<>>)
    BY <1>1 DEF Row, EncodeNetBypassResponse, DecodeNetBypassResponse
  <2>2. Listed(p, "Denied", 2, 0, 0, <<>>)
    BY <2>1 DEF Listed, MsgMaxWords
  <2> QED BY <2>2, Carries0
<1>4. Carried(p, "Released", Unit)
  <2>1. Row(p, "Released", 3, 0, <<>>)
    BY <1>1 DEF Row, EncodeNetBypassResponse, DecodeNetBypassResponse
  <2>2. Listed(p, "Released", 3, 0, 0, <<>>)
    BY <2>1 DEF Listed, MsgMaxWords
  <2> QED BY <2>2, Carries0
<1>5. Carried(p, "Relayed", Unit)
  <2>1. Row(p, "Relayed", 4, 0, <<>>)
    BY <1>1 DEF Row, EncodeNetBypassResponse, DecodeNetBypassResponse
  <2>2. Listed(p, "Relayed", 4, 0, 0, <<>>)
    BY <2>1 DEF Listed, MsgMaxWords
  <2> QED BY <2>2, Carries0
<1> QED BY <1>2, <1>3, <1>4, <1>5 DEF NetBypassResponse, Carried

LEMMA SecurityRequestCarried ==
  ASSUME NEW p, p = Protocol("Security", SecurityRequest, EncodeSecurityRequest, DecodeSecurityRequest)
  PROVE  \A m \in SecurityRequest : CarriesExactly(p, m)
<1>1. p.codes = EncodeSecurityRequest /\ p.forms = DecodeSecurityRequest
  BY DEF Protocol
<1>2. Carried(p, "CapGrant", u32 \X u32 \X u32)
  <2>1. Row(p, "CapGrant", 1, 3, <<Narrow, Narrow, Narrow>>)
    BY <1>1 DEF Row, EncodeSecurityRequest, DecodeSecurityRequest
  <2>2. Listed(p, "CapGrant", 1, 3, 3, <<Narrow, Narrow, Narrow>>)
    BY <2>1 DEF Listed, MsgMaxWords
  <2>3. Keeps(Narrow, u32)
    BY KeepsAll
  <2> QED BY <2>2, <2>3, Carries3
<1>3. Carried(p, "CapRevoke", One(u32))
  <2>1. Row(p, "CapRevoke", 2, 1, <<Narrow>>)
    BY <1>1 DEF Row, EncodeSecurityRequest, DecodeSecurityRequest
  <2>2. Listed(p, "CapRevoke", 2, 1, 1, <<Narrow>>)
    BY <2>1 DEF Listed, MsgMaxWords
  <2>3. Keeps(Narrow, u32)
    BY KeepsAll
  <2> QED BY <2>2, <2>3, Carries1
<1> QED BY <1>2, <1>3 DEF SecurityRequest, Carried

LEMMA SecurityResponseCarried ==
  ASSUME NEW p, p = Protocol("Security", SecurityResponse, EncodeSecurityResponse, DecodeSecurityResponse)
  PROVE  \A m \in SecurityResponse : CarriesExactly(p, m)
<1>1. p.codes = EncodeSecurityResponse /\ p.forms = DecodeSecurityResponse
  BY DEF Protocol
<1>2. Carried(p, "Granted", One(u32))
  <2>1. Row(p, "Granted", 1, 1, <<Narrow>>)
    BY <1>1 DEF Row, EncodeSecurityResponse, DecodeSecurityResponse
  <2>2. Listed(p, "Granted", 1, 1, 1, <<Narrow>>)
    BY <2>1 DEF Listed, MsgMaxWords
  <2>3. Keeps(Narrow, u32)
    BY KeepsAll
  <2> QED BY <2>2, <2>3, Carries1
<1>3. Carried(p, "Revoked", One(u32))
  <2>1. Row(p, "Revoked", 2, 1, <<Narrow>>)
    BY <1>1 DEF Row, EncodeSecurityResponse, DecodeSecurityResponse
  <2>2. Listed(p, "Revoked", 2, 1, 1, <<Narrow>>)
    BY <2>1 DEF Listed, MsgMaxWords
  <2>3. Keeps(Narrow, u32)
    BY KeepsAll
  <2> QED BY <2>2, <2>3, Carries1
<1>4. Carried(p, "Error", One(SecurityErrorCode))
  <2>1. Row(p, "Error", 3, 1, <<Enum(SecurityErrorCode)>>)
    BY <1>1 DEF Row, EncodeSecurityResponse, DecodeSecurityResponse
  <2>2. Listed(p, "Error", 3, 1, 1, <<Enum(SecurityErrorCode)>>)
    BY <2>1 DEF Listed, MsgMaxWords
  <2>3. Keeps(Enum(SecurityErrorCode), SecurityErrorCode)
    BY KeepsEnums
  <2> QED BY <2>2, <2>3, Carries1
<1> QED BY <1>2, <1>3, <1>4 DEF SecurityResponse, Carried

(***************************************************************************)
(* Every message of every protocol of ipc-protocol survives its encoder    *)
(* and its decoder, handed over directly or through a shared page, for     *)
(* words of any width.                                                     *)
(***************************************************************************)
THEOREM MessagesSurvive == CodecSpec => []CodecsExact
<1>1. CodecInit => CodecsExact
  <2> SUFFICES ASSUME CodecInit PROVE CodecsExact
    OBVIOUS
  <2>1. PICK n \in DOMAIN Protocols : \E m \in Protocols[n].type : sent = <<n, m>>
    BY DEF CodecInit
  <2>2. PICK m \in Protocols[n].type : sent = <<n, m>>
    BY <2>1
  <2>3. CarriesExactly(Protocols[n], m)
    <3>1. n \in {"FsRequest", "FsResponse", "DriverRequest", "DriverResponse", "DisplayRequest", "DisplayResponse",
                "MmRequest", "MmResponse", "NetBypassRequest", "NetBypassResponse", "SecurityRequest", "SecurityResponse"}
      BY DEF Protocols
    <3>2. CASE n = "FsRequest"
      <4>1. Protocols[n] = Protocol("Fs", FsRequest, EncodeFsRequest, DecodeFsRequest)
        BY <3>2 DEF Protocols
      <4>2. Protocols[n].type = FsRequest
        BY <4>1 DEF Protocol
      <4> QED BY <4>1, <4>2, FsRequestCarried
    <3>3. CASE n = "FsResponse"
      <4>1. Protocols[n] = Protocol("Fs", FsResponse, EncodeFsResponse, DecodeFsResponse)
        BY <3>3 DEF Protocols
      <4>2. Protocols[n].type = FsResponse
        BY <4>1 DEF Protocol
      <4> QED BY <4>1, <4>2, FsResponseCarried
    <3>4. CASE n = "DriverRequest"
      <4>1. Protocols[n] = Protocol("Driver", DriverRequest, EncodeDriverRequest, DecodeDriverRequest)
        BY <3>4 DEF Protocols
      <4>2. Protocols[n].type = DriverRequest
        BY <4>1 DEF Protocol
      <4> QED BY <4>1, <4>2, DriverRequestCarried
    <3>5. CASE n = "DriverResponse"
      <4>1. Protocols[n] = Protocol("Driver", DriverResponse, EncodeDriverResponse, DecodeDriverResponse)
        BY <3>5 DEF Protocols
      <4>2. Protocols[n].type = DriverResponse
        BY <4>1 DEF Protocol
      <4> QED BY <4>1, <4>2, DriverResponseCarried
    <3>6. CASE n = "DisplayRequest"
      <4>1. Protocols[n] = Protocol("Display", DisplayRequest, EncodeDisplayRequest, DecodeDisplayRequest)
        BY <3>6 DEF Protocols
      <4>2. Protocols[n].type = DisplayRequest
        BY <4>1 DEF Protocol
      <4> QED BY <4>1, <4>2, DisplayRequestCarried
    <3>7. CASE n = "DisplayResponse"
      <4>1. Protocols[n] = Protocol("Display", DisplayResponse, EncodeDisplayResponse, DecodeDisplayResponse)
        BY <3>7 DEF Protocols
      <4>2. Protocols[n].type = DisplayResponse
        BY <4>1 DEF Protocol
      <4> QED BY <4>1, <4>2, DisplayResponseCarried
    <3>8. CASE n = "MmRequest"
      <4>1. Protocols[n] = Protocol("Mm", MmRequest, EncodeMmRequest, DecodeMmRequest)
        BY <3>8 DEF Protocols
      <4>2. Protocols[n].type = MmRequest
        BY <4>1 DEF Protocol
      <4> QED BY <4>1, <4>2, MmRequestCarried
    <3>9. CASE n = "MmResponse"
      <4>1. Protocols[n] = Protocol("Mm", MmResponse, EncodeMmResponse, DecodeMmResponse)
        BY <3>9 DEF Protocols
      <4>2. Protocols[n].type = MmResponse
        BY <4>1 DEF Protocol
      <4> QED BY <4>1, <4>2, MmResponseCarried
    <3>10. CASE n = "NetBypassRequest"
      <4>1. Protocols[n] = Protocol("NetBypass", NetBypassRequest, EncodeNetBypassRequest, DecodeNetBypassRequest)
        BY <3>10 DEF Protocols
      <4>2. Protocols[n].type = NetBypassRequest
        BY <4>1 DEF Protocol
      <4> QED BY <4>1, <4>2, NetBypassRequestCarried
    <3>11. CASE n = "NetBypassResponse"
      <4>1. Protocols[n] = Protocol("NetBypass", NetBypassResponse, EncodeNetBypassResponse, DecodeNetBypassResponse)
        BY <3>11 DEF Protocols
      <4>2. Protocols[n].type = NetBypassResponse
        BY <4>1 DEF Protocol
      <4> QED BY <4>1, <4>2, NetBypassResponseCarried
    <3>12. CASE n = "SecurityRequest"
      <4>1. Protocols[n] = Protocol("Security", SecurityRequest, EncodeSecurityRequest, DecodeSecurityRequest)
        BY <3>12 DEF Protocols
      <4>2. Protocols[n].type = SecurityRequest
        BY <4>1 DEF Protocol
      <4> QED BY <4>1, <4>2, SecurityRequestCarried
    <3>13. CASE n = "SecurityResponse"
      <4>1. Protocols[n] = Protocol("Security", SecurityResponse, EncodeSecurityResponse, DecodeSecurityResponse)
        BY <3>13 DEF Protocols
      <4>2. Protocols[n].type = SecurityResponse
        BY <4>1 DEF Protocol
      <4> QED BY <4>1, <4>2, SecurityResponseCarried
    <3> QED BY <3>1, <3>2, <3>3, <3>4, <3>5, <3>6, <3>7, <3>8, <3>9, <3>10, <3>11, <3>12, <3>13
  <2> QED BY <2>2, <2>3 DEF CodecsExact
<1>2. CodecsExact /\ [UNCHANGED sent]_sent => CodecsExact'
  BY DEF CodecsExact
<1> QED BY <1>1, <1>2, PTL DEF CodecSpec
-----------------------------------------------------------------------------
(***************************************************************************)
(* The handles of fs-native.  Every open handle is below the next one to   *)
(* be given out, and that counter never goes back.                         *)
(***************************************************************************)
FsState(ix, fl, op, nf, nh, d, pk) ==
  [index |-> ix, files |-> fl, open |-> op, nextFile |-> nf, nextHandle |-> nh, data |-> d, panicked |-> pk]

HandlesBelow(fs) ==
  \E ix, fl, op, nf, d, pk : \E nh \in Nat :
    fs = FsState(ix, fl, op, nf, nh, d, pk) /\ \A h \in DOMAIN op : h \in Nat /\ h < nh

FsStep(fs, next) ==
  HandlesBelow(next) /\ HandleKept(fs, next) /\ fs.nextHandle <= next.nextHandle

LEMMA FsStay ==
  ASSUME NEW fs, HandlesBelow(fs)
  PROVE  FsStep(fs, fs)
<1>1. PICK ix, fl, op, nf, d, pk : \E nh \in Nat :
        fs = FsState(ix, fl, op, nf, nh, d, pk) /\ \A h \in DOMAIN op : h \in Nat /\ h < nh
  BY DEF HandlesBelow
<1>2. fs.nextHandle \in Nat
  BY <1>1 DEF FsState
<1> QED BY <1>2 DEF FsStep, HandleKept

\* A step that leaves the open files and the handle counter alone.
LEMMA FsAside ==
  ASSUME NEW fs, HandlesBelow(fs), NEW ix, NEW fl, NEW nf, NEW d, NEW pk, NEW next,
         next = FsState(ix, fl, fs.open, nf, fs.nextHandle, d, pk)
  PROVE  FsStep(fs, next)
<1>1. PICK ix1, fl1, op, nf1, d1, pk1 : \E nh \in Nat :
        fs = FsState(ix1, fl1, op, nf1, nh, d1, pk1) /\ \A h \in DOMAIN op : h \in Nat /\ h < nh
  BY DEF HandlesBelow
<1>2. PICK nh \in Nat : fs.nextHandle = nh /\ fs.open = op /\ \A h \in DOMAIN op : h \in Nat /\ h < nh
  BY <1>1 DEF FsState
<1>3. next = FsState(ix, fl, op, nf, nh, d, pk)
  BY <1>2
<1>4. HandlesBelow(next)
  BY <1>2, <1>3 DEF HandlesBelow
<1>5. next.open = op /\ next.nextHandle = nh
  BY <1>3 DEF FsState
<1> QED BY <1>2, <1>4, <1>5 DEF FsStep, HandleKept

LEMMA FsTwoSteps ==
  ASSUME NEW fs, NEW mid, NEW next, HandlesBelow(fs), FsStep(fs, mid), FsStep(mid, next)
  PROVE  FsStep(fs, next)
<1>1. PICK n1 \in Nat : fs.nextHandle = n1 /\ \A h \in DOMAIN fs.open : h \in Nat /\ h < n1
  BY DEF HandlesBelow, FsState
<1>2. PICK n2 \in Nat : mid.nextHandle = n2 /\ \A h \in DOMAIN mid.open : h \in Nat /\ h < n2
  BY DEF FsStep, HandlesBelow, FsState
<1>3. PICK n3 \in Nat : next.nextHandle = n3
  BY DEF FsStep, HandlesBelow, FsState
<1>4. n1 <= n2 /\ n2 <= n3
  BY <1>1, <1>2, <1>3 DEF FsStep
<1>5. \A h \in DOMAIN fs.open : h \in 0 .. n2 - 1
  BY <1>1, <1>4
<1>6. /\ \A h \in DOMAIN fs.open : h \in DOMAIN mid.open => mid.open[h] = fs.open[h]
      /\ \A h \in 0 .. n1 - 1 : h \in DOMAIN mid.open => h \in DOMAIN fs.open
      /\ \A h \in DOMAIN mid.open : h \in DOMAIN next.open => next.open[h] = mid.open[h]
      /\ \A h \in 0 .. n2 - 1 : h \in DOMAIN next.open => h \in DOMAIN mid.open
  BY <1>1, <1>2 DEF FsStep, HandleKept
<1>7. 0 .. n1 - 1 \subseteq 0 .. n2 - 1
  BY <1>4
<1>8. /\ \A h \in DOMAIN fs.open : h \in DOMAIN next.open => next.open[h] = fs.open[h]
      /\ \A h \in 0 .. n1 - 1 : h \in DOMAIN next.open => h \in DOMAIN fs.open
  BY <1>5, <1>6, <1>7
<1> QED BY <1>1, <1>3, <1>4, <1>8 DEF FsStep, HandleKept

LEMMA FsCreates ==
  ASSUME NEW fs, HandlesBelow(fs), NEW path
  PROVE  FsStep(fs, Create(fs, path))
<1>1. PICK ix, fl, op, nf, d, pk : \E nh \in Nat :
        fs = FsState(ix, fl, op, nf, nh, d, pk) /\ \A h \in DOMAIN op : h \in Nat /\ h < nh
  BY DEF HandlesBelow
<1>2. PICK nh : fs = FsState(ix, fl, op, nf, nh, d, pk)
  BY <1>1
<1>3. PICK fl1 : fl1 = Put(fs.files, fs.index[path], <<>>)
  OBVIOUS
<1>4. PICK fl2 : fl2 = Put(fs.files, fs.nextFile, <<>>)
  OBVIOUS
<1>5. PICK ix2 : ix2 = Put(fs.index, path, fs.nextFile)
  OBVIOUS
<1>6. fs.open = op /\ fs.nextHandle = nh
  BY <1>2 DEF FsState
<1>7. CASE path \in DOMAIN fs.index
  <2>1. Create(fs, path) = [fs EXCEPT !.files = fl1]
    BY <1>3, <1>7 DEF Create
  <2>2. Create(fs, path) = FsState(ix, fl1, fs.open, nf, fs.nextHandle, d, pk)
    BY <1>2, <1>6, <2>1 DEF FsState
  <2> QED BY <2>2, FsAside
<1>8. CASE path \notin DOMAIN fs.index
  <2>1. Create(fs, path) = [fs EXCEPT !.index = ix2, !.files = fl2, !.nextFile = fs.nextFile + 1]
    BY <1>4, <1>5, <1>8 DEF Create
  <2>2. PICK nf2 : nf2 = fs.nextFile + 1
    OBVIOUS
  <2>3. Create(fs, path) = FsState(ix2, fl2, fs.open, nf2, fs.nextHandle, d, pk)
    BY <1>2, <1>6, <2>1, <2>2 DEF FsState
  <2> QED BY <2>3, FsAside
<1> QED BY <1>7, <1>8

LEMMA FsOpens ==
  ASSUME NEW fs, HandlesBelow(fs), NEW path, NEW write
  PROVE  FsStep(fs, OpenFile(fs, path, write))
<1>1. PICK ix, fl, op, nf, d, pk : \E nh \in Nat :
        fs = FsState(ix, fl, op, nf, nh, d, pk) /\ \A h \in DOMAIN op : h \in Nat /\ h < nh
  BY DEF HandlesBelow
<1>2. PICK nh \in Nat : fs = FsState(ix, fl, op, nf, nh, d, pk) /\ \A h \in DOMAIN op : h \in Nat /\ h < nh
  BY <1>1
<1>3. PICK e : e = [file |-> fs.index[path], write |-> write]
  OBVIOUS
<1>4. fs.open = op /\ fs.nextHandle = nh
  BY <1>2 DEF FsState
<1>5. PICK op2 : op2 = Put(op, nh, e)
  OBVIOUS
<1>6. PICK next : next = OpenFile(fs, path, write)
  OBVIOUS
<1>7. next = [fs EXCEPT !.open = op2, !.nextHandle = nh + 1]
  BY <1>3, <1>4, <1>5, <1>6 DEF OpenFile
<1>8. next = FsState(ix, fl, op2, nf, nh + 1, d, pk)
  BY <1>2, <1>7 DEF FsState
<1>9. /\ DOMAIN op2 = DOMAIN op \cup {nh}
      /\ \A h \in DOMAIN op : h # nh => op2[h] = op[h]
  BY <1>5 DEF Put
<1>10. HandlesBelow(next)
  <2>1. nh + 1 \in Nat /\ \A h \in DOMAIN op2 : h \in Nat /\ h < nh + 1
    BY <1>2, <1>9
  <2> QED BY <1>8, <2>1 DEF HandlesBelow
<1>11. next.open = op2 /\ next.nextHandle = nh + 1
  BY <1>8 DEF FsState
<1>12. /\ \A h \in DOMAIN op : op2[h] = op[h]
       /\ \A h \in 0 .. nh - 1 : h \in DOMAIN op2 => h \in DOMAIN op
  BY <1>2, <1>9
<1> QED BY <1>4, <1>6, <1>10, <1>11, <1>12 DEF FsStep, HandleKept

LEMMA FsCloses ==
  ASSUME NEW fs, HandlesBelow(fs), NEW h
  PROVE  FsStep(fs, FsClose(fs, h).svc)
<1>1. PICK ix, fl, op, nf, d, pk : \E nh \in Nat :
        fs = FsState(ix, fl, op, nf, nh, d, pk) /\ \A k \in DOMAIN op : k \in Nat /\ k < nh
  BY DEF HandlesBelow
<1>2. PICK nh \in Nat : fs = FsState(ix, fl, op, nf, nh, d, pk) /\ \A k \in DOMAIN op : k \in Nat /\ k < nh
  BY <1>1
<1>3. fs.open = op /\ fs.nextHandle = nh
  BY <1>2 DEF FsState
<1>4. CASE h \in DOMAIN fs.open
  <2>1. PICK op2 : op2 = Drop(op, h)
    OBVIOUS
  <2>2. PICK next : next = [fs EXCEPT !.open = op2]
    OBVIOUS
  <2>3. FsClose(fs, h).svc = next
    BY <1>3, <1>4, <2>1, <2>2 DEF FsClose, Respond
  <2>4. next = FsState(ix, fl, op2, nf, nh, d, pk)
    BY <1>2, <2>2 DEF FsState
  <2>5. DOMAIN op2 \subseteq DOMAIN op /\ \A k \in DOMAIN op2 : op2[k] = op[k]
    BY <2>1 DEF Drop
  <2>6. HandlesBelow(next)
    BY <1>2, <2>4, <2>5 DEF HandlesBelow
  <2>7. next.open = op2 /\ next.nextHandle = nh
    BY <2>4 DEF FsState
  <2> QED BY <1>3, <2>3, <2>5, <2>6, <2>7 DEF FsStep, HandleKept
<1>5. CASE h \notin DOMAIN fs.open
  <2>1. FsClose(fs, h).svc = fs
    BY <1>5 DEF FsClose, FsError, Respond
  <2> QED BY <2>1, FsStay
<1> QED BY <1>4, <1>5

LEMMA FsOpensFor ==
  ASSUME NEW fs, HandlesBelow(fs), NEW path, NEW write, NEW create
  PROVE  FsStep(fs, FsOpen(fs, path, write, create).svc)
<1>1. CASE path \in DOMAIN fs.index
  <2>1. FsOpen(fs, path, write, create).svc = OpenFile(fs, path, write)
    BY <1>1 DEF FsOpen, Respond
  <2> QED BY <2>1, FsOpens
<1>2. CASE path \notin DOMAIN fs.index /\ create
  <2>1. FsOpen(fs, path, write, create).svc = OpenFile(Create(fs, path), path, write)
    BY <1>2 DEF FsOpen, Respond
  <2>2. PICK mid : mid = Create(fs, path)
    OBVIOUS
  <2>3. FsStep(fs, mid)
    BY <2>2, FsCreates
  <2>4. HandlesBelow(mid)
    BY <2>3 DEF FsStep
  <2>5. FsStep(mid, OpenFile(mid, path, write))
    BY <2>4, FsOpens
  <2> QED BY <2>1, <2>2, <2>3, <2>5, FsTwoSteps
<1>3. CASE path \notin DOMAIN fs.index /\ ~create
  <2>1. FsOpen(fs, path, write, create).svc = fs
    BY <1>3 DEF FsOpen, FsError, Respond
  <2> QED BY <2>1, FsStay
<1> QED BY <1>1, <1>2, <1>3

LEMMA FsReads ==
  ASSUME NEW fs, HandlesBelow(fs), NEW h, NEW offset, NEW len
  PROVE  FsStep(fs, FsRead(fs, h, offset, len).svc)
<1>1. CASE h \notin DOMAIN fs.open
  <2>1. FsRead(fs, h, offset, len).svc = fs
    BY <1>1 DEF FsRead, FsError, Respond
  <2> QED BY <2>1, FsStay
<1>2. CASE h \in DOMAIN fs.open
  <2>1. PICK d2 : FsRead(fs, h, offset, len).svc = [fs EXCEPT !.data = d2]
    BY <1>2 DEF FsRead, Respond
  <2>2. PICK ix, fl, op, nf, nh, d, pk : fs = FsState(ix, fl, op, nf, nh, d, pk)
    BY DEF HandlesBelow
  <2>3. FsRead(fs, h, offset, len).svc = FsState(ix, fl, fs.open, nf, fs.nextHandle, d2, pk)
    BY <2>1, <2>2 DEF FsState
  <2> QED BY <2>3, FsAside
<1> QED BY <1>1, <1>2

LEMMA FsWrites ==
  ASSUME NEW fs, HandlesBelow(fs), NEW h, NEW offset, NEW src
  PROVE  FsStep(fs, FsWrite(fs, h, offset, src).svc)
<1> DEFINE Admits == h \in DOMAIN fs.open /\ fs.open[h].write
           Wraps  == offset + Len(src) >= U64
           Fits   == ~(offset + Len(src) > MaxFileBytes)
<1>0. PICK ix, fl, op, nf, nh, d, pk : fs = FsState(ix, fl, op, nf, nh, d, pk)
  BY DEF HandlesBelow
<1>1. CASE Admits /\ ~Wraps /\ Fits
  <2>1. PICK fl2 : FsWrite(fs, h, offset, src).svc = [fs EXCEPT !.files = fl2]
    BY <1>1 DEF FsWrite, Respond
  <2>2. FsWrite(fs, h, offset, src).svc = FsState(ix, fl2, fs.open, nf, fs.nextHandle, d, pk)
    BY <1>0, <2>1 DEF FsState
  <2> QED BY <2>2, FsAside
<1>2. CASE Admits /\ Wraps
  <2>1. FsWrite(fs, h, offset, src).svc = [fs EXCEPT !.panicked = TRUE]
    BY <1>2 DEF FsWrite, Respond
  <2>2. FsWrite(fs, h, offset, src).svc = FsState(ix, fl, fs.open, nf, fs.nextHandle, d, TRUE)
    BY <1>0, <2>1 DEF FsState
  <2> QED BY <2>2, FsAside
<1>3. CASE ~Admits \/ (~Wraps /\ ~Fits)
  <2>1. FsWrite(fs, h, offset, src).svc = fs
    BY <1>3 DEF FsWrite, FsError, Respond
  <2> QED BY <2>1, FsStay
<1> QED BY <1>1, <1>2, <1>3

LEMMA FsStats ==
  ASSUME NEW fs, HandlesBelow(fs), NEW path
  PROVE  FsStep(fs, FsStat(fs, path).svc)
<1>1. PICK opened : opened = FsOpen(fs, path, FALSE, FALSE)
  OBVIOUS
<1>2. FsStep(fs, opened.svc)
  BY <1>1, FsOpensFor
<1>3. PICK mid : mid = opened.svc
  OBVIOUS
<1>4. HandlesBelow(mid) /\ FsStep(fs, mid)
  BY <1>2, <1>3 DEF FsStep
<1>5. CASE opened.resp.tag = "Error"
  <2>1. FsStat(fs, path) = opened
    BY <1>1, <1>5, Zenon DEF FsStat
  <2> QED BY <1>2, <2>1
<1>6. CASE opened.resp.tag # "Error"
  <2>1. FsStat(fs, path).svc = FsClose(mid, opened.resp.f[1]).svc
    BY <1>1, <1>3, <1>6 DEF FsStat, Respond
  <2>2. FsStep(mid, FsClose(mid, opened.resp.f[1]).svc)
    BY <1>4, FsCloses
  <2> QED BY <1>4, <2>1, <2>2, FsTwoSteps
<1> QED BY <1>5, <1>6

LEMMA FsHandles ==
  ASSUME NEW fs, HandlesBelow(fs), NEW req
  PROVE  FsStep(fs, HandleFs(fs, req).svc)
<1>1. PICK r : r = HandleFs(fs, req)
  OBVIOUS
<1>2. \/ \E e : r = FsError(fs, e)
      \/ \E path, write, create : r = FsOpen(fs, path, write, create)
      \/ \E path : r = FsStat(fs, path)
      \/ \E h : r = FsClose(fs, h)
      \/ \E h, offset, len : r = FsRead(fs, h, offset, len)
      \/ \E h, offset, src : r = FsWrite(fs, h, offset, src)
  BY <1>1 DEF HandleFs
<1>3. \A e : FsError(fs, e).svc = fs
  BY DEF FsError, Respond
<1>4. CASE \E e : r = FsError(fs, e)
  BY <1>1, <1>3, <1>4, FsStay
<1>5. CASE \E path, write, create : r = FsOpen(fs, path, write, create)
  BY <1>1, <1>5, FsOpensFor
<1>6. CASE \E path : r = FsStat(fs, path)
  BY <1>1, <1>6, FsStats
<1>7. CASE \E h : r = FsClose(fs, h)
  BY <1>1, <1>7, FsCloses
<1>8. CASE \E h, offset, len : r = FsRead(fs, h, offset, len)
  BY <1>1, <1>8, FsReads
<1>9. CASE \E h, offset, src : r = FsWrite(fs, h, offset, src)
  BY <1>1, <1>9, FsWrites
<1> QED BY <1>2, <1>4, <1>5, <1>6, <1>7, <1>8, <1>9

LEMMA FsBootedBelow == HandlesBelow(FsBooted)
<1>1. HandlesBelow(MemFs)
  <2>1. PICK d : d = [i \in 1 .. FsDataLen |-> 0]
    OBVIOUS
  <2>2. PICK none : none = <<>>
    OBVIOUS
  <2>3. MemFs = FsState(none, none, none, 0, 0, d, FALSE)
    BY <2>1, <2>2 DEF MemFs, FsState
  <2>4. DOMAIN none = {}
    BY <2>2
  <2> QED BY <2>3, <2>4 DEF HandlesBelow
<1>2. PICK made : made = Create(MemFs, "/greeting")
  OBVIOUS
<1>3. HandlesBelow(made)
  BY <1>1, <1>2, FsCreates DEF FsStep
<1>4. PICK opened : opened = FsOpen(made, "/greeting", TRUE, FALSE)
  OBVIOUS
<1>5. HandlesBelow(opened.svc)
  BY <1>3, <1>4, FsOpensFor DEF FsStep
<1>6. PICK h : h = opened.resp.f[1]
  OBVIOUS
<1>7. PICK seeded : seeded = FsWrite(opened.svc, h, 0, Greeting).svc
  OBVIOUS
<1>8. HandlesBelow(seeded)
  BY <1>5, <1>7, FsWrites DEF FsStep
<1>9. FsBooted = FsClose(seeded, h).svc
  BY <1>2, <1>4, <1>6, <1>7, Zenon DEF FsBooted
<1>10. FsStep(seeded, FsClose(seeded, h).svc)
  BY <1>8, FsCloses
<1> QED BY <1>9, <1>10 DEF FsStep

(***************************************************************************)
(* A handle of the file system names one opening for good: while it is     *)
(* open it keeps its file and its mode, and a closed one (by a client, or  *)
(* by the Stat that opened it) never comes back, whatever the requests     *)
(* and however large the files and the data page are.                      *)
(***************************************************************************)
THEOREM HandlesNameOneOpening == FsSpec => HandlesNeverReused
<1> DEFINE Below == HandlesBelow(memfs)
<1>1. FsInit => Below
  BY FsBootedBelow DEF FsInit
<1>2. Below /\ [FsNext]_memfs => Below'
  <2>1. CASE UNCHANGED memfs
    BY <2>1
  <2>2. ASSUME Below, FsNext PROVE HandlesBelow(memfs')
    <3>1. CASE UNCHANGED memfs
      BY <2>2, <3>1
    <3>2. CASE \E req : memfs' = HandleFs(memfs, req).svc
      <4>1. PICK req : memfs' = HandleFs(memfs, req).svc
        BY <3>2
      <4>2. FsStep(memfs, HandleFs(memfs, req).svc)
        BY <2>2, FsHandles
      <4> QED BY <4>1, <4>2 DEF FsStep
    <3> QED BY <2>2, <3>1, <3>2 DEF FsNext
  <2> QED BY <2>1, <2>2
<1>3. Below /\ [FsNext]_memfs => [HandleKept(memfs, memfs')]_memfs
  <2>1. ASSUME Below, FsNext PROVE HandleKept(memfs, memfs')
    <3>1. CASE UNCHANGED memfs
      BY <3>1 DEF HandleKept
    <3>2. CASE \E req : memfs' = HandleFs(memfs, req).svc
      <4>1. PICK req : memfs' = HandleFs(memfs, req).svc
        BY <3>2
      <4>2. FsStep(memfs, HandleFs(memfs, req).svc)
        BY <2>1, FsHandles
      <4> QED BY <4>1, <4>2 DEF FsStep
    <3> QED BY <2>1, <3>1, <3>2 DEF FsNext
  <2> QED BY <2>1
<1> QED BY <1>1, <1>2, <1>3, PTL DEF FsSpec, HandlesNeverReused
=============================================================================
