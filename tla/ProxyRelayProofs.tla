------------------------- MODULE ProxyRelayProofs --------------------------
(* Theorems about the bridge, for any number of runs and addresses, every   *)
(* limit and window, and all interleavings of the threads.                  *)
EXTENDS ProxyRelay, FiniteSetTheorems, TLAPS

(* The copies that threads hold are no longer than the limit either.        *)
HitsBounded == \A r \in Runs : Cardinality(hits[r]) <= RateMax

(* What the threads and the instance have told so far.  Nothing is asked of *)
(* the instance, and no status is known, before the relay; only what was    *)
(* sent in full gets there; and the instance answers once.                  *)
Untold ==
  \A r \in Runs :
    /\ thread[r] \notin {"asks", "follows", "closed"} => answer[r] = "none"
    /\ thread[r] # "closed" => status[r] = "none"
    /\ thread[r] = "asks" => answer[r] # "none"
    /\ thread[r] = "follows" => answer[r] = "moved"
    /\ run[r] = "new" => thread[r] = "none"
    /\ request[r] = "whole" => run[r] = "waits"
    /\ run[r] = "failed" => answer[r] = "none"

Told ==
  \A r \in Runs :
    /\ status[r] \in {"forbidden", "limited", "malformed"} => answer[r] = "none"
    /\ status[r] = "ok" => answer[r] \in {"ok", "moved"}
    /\ status[r] = "unreachable" => answer[r] \in {"none", "moved"}
    /\ answer[r] \in {"none", "asked"} => created[r] = 0
    /\ answer[r] = "ok" => created[r] = 1
    /\ created[r] \in {0, 1}

(* Tables and copies hold hits that really took place.                      *)
Recorded ==
  /\ \A i \in Ips : rate[i] \subseteq admitted[i]
  /\ \A r \in Runs :
       /\ hits[r] \subseteq {a \in admitted[from[r]] : at[r] - a[2] < Window}
       /\ thread[r] # "counted" => hits[r] = {}

-----------------------------------------------------------------------------
LEMMA HitsFinite == ASSUME NEW S \in SUBSET Hits PROVE IsFiniteSet(S)
<1>1. IsFiniteSet(Runs) /\ IsFiniteSet(Times)
  BY FS_Interval, RelayAssumption DEF Runs, Times
<1>2. IsFiniteSet(Hits)
  BY <1>1, FS_Product DEF Hits
<1> QED BY <1>2, FS_Subset

LEMMA NoHits == {} \in SUBSET Hits /\ Cardinality({}) = 0
BY FS_EmptySet

(* Forgetting what is out of the window makes no list longer.               *)
LEMMA RecentShorter ==
  ASSUME NEW S \in SUBSET Hits, NEW t \in Times
  PROVE  /\ Recent(S, t) \in SUBSET Hits
         /\ Cardinality(Recent(S, t)) <= Cardinality(S)
<1>1. Recent(S, t) \in SUBSET S
  BY DEF Recent
<1> QED BY <1>1, HitsFinite, FS_Subset

(* A list that is not full has room for one more hit.                       *)
LEMMA RoomForOne ==
  ASSUME NEW S \in SUBSET Hits, NEW x \in Hits, ~Full(S)
  PROVE  /\ S \cup {x} \in SUBSET Hits
         /\ Cardinality(S \cup {x}) <= RateMax
<1>1. IsFiniteSet(S) /\ Cardinality(S) \in Nat
  BY HitsFinite, FS_CardinalityType
<1>2. Cardinality(S) < RateMax /\ RateMax \in Nat
  BY <1>1, RelayAssumption DEF Full
<1>3. Cardinality(S \cup {x}) = Cardinality(S) \/ Cardinality(S \cup {x}) = Cardinality(S) + 1
  BY <1>1, FS_AddElement
<1> QED BY <1>1, <1>2, <1>3

-----------------------------------------------------------------------------
Typed == TypeOK /\ HitsBounded

LEMMA TypedInit == Init => Typed
<1> SUFFICES ASSUME Init PROVE Typed
  OBVIOUS
<1>1. RateMax \in Nat /\ 0 \in Times /\ Origins \subseteq [Runs -> Ips]
  BY RelayAssumption DEF Times
<1>2. \A i \in Ips : Cardinality(rate[i]) <= RateMax
  BY <1>1, NoHits DEF Init
<1>3. HitsBounded
  BY <1>1, NoHits DEF Init, HitsBounded
<1> QED BY <1>1, <1>2, <1>3 DEF Init, Typed, TypeOK, Requests, Statuses, InstanceAnswers

LEMMA TypedStep == Typed /\ [Next]_vars => Typed'
<1> SUFFICES ASSUME Typed, [Next]_vars PROVE Typed'
  OBVIOUS
<1> USE DEF Typed
<1>1. CASE UNCHANGED vars
  BY <1>1 DEF vars, TypeOK, HitsBounded
<1>2. CASE Tick
  <2>1. now' \in Times
    BY <1>2, RelayAssumption DEF Tick, TypeOK, Times
  <2> QED BY <1>2, <2>1 DEF instance, Tick, client, limiter, TypeOK, HitsBounded
<1>3. ASSUME NEW r \in Runs, SendFails(r) PROVE Typed'
  BY <1>3 DEF instance, SendFails, limiter, TypeOK, HitsBounded, Requests
<1>4. ASSUME NEW r \in Runs, Sends(r) PROVE Typed'
  BY <1>4 DEF instance, Sends, limiter, TypeOK, HitsBounded, Requests
<1>5. ASSUME NEW r \in Runs, Forbids(r) PROVE Typed'
  BY <1>5 DEF instance, Forbids, Answers, Goes, client, limiter, TypeOK, HitsBounded, Statuses
<1>6. ASSUME NEW r \in Runs, TakesTime(r) PROVE Typed'
  BY <1>6 DEF instance, TakesTime, Goes, client, TypeOK, HitsBounded
<1>7. ASSUME NEW r \in Runs, Counts(r) PROVE Typed'
  <2>1. rate[from[r]] \in SUBSET Hits /\ at[r] \in Times /\ from[r] \in Ips
    BY DEF TypeOK
  <2>2. /\ Recent(rate[from[r]], at[r]) \in SUBSET Hits
        /\ Cardinality(Recent(rate[from[r]], at[r])) <= Cardinality(rate[from[r]])
    BY <2>1, RecentShorter
  <2>3. /\ Cardinality(rate[from[r]]) \in Nat
        /\ Cardinality(Recent(rate[from[r]], at[r])) \in Nat
        /\ RateMax \in Nat
    BY <2>1, <2>2, HitsFinite, FS_CardinalityType, RelayAssumption
  <2>4. Cardinality(Recent(rate[from[r]], at[r])) <= RateMax
    BY <2>1, <2>2, <2>3 DEF TypeOK
  <2>5. HitsBounded'
    BY <1>7, <2>4 DEF Counts, HitsBounded, TypeOK
  <2>6. hits' \in [Runs -> SUBSET Hits]
    BY <1>7, <2>2 DEF Counts, TypeOK
  <2> QED BY <1>7, <2>5, <2>6 DEF instance, Counts, Goes, client, TypeOK
<1>8. ASSUME NEW r \in Runs, Admits(r) PROVE Typed'
  <2>1. /\ hits[r] \in SUBSET Hits /\ <<r, at[r]>> \in Hits /\ from[r] \in Ips
    BY DEF TypeOK, Hits
  <2>2. /\ hits[r] \cup {<<r, at[r]>>} \in SUBSET Hits
        /\ Cardinality(hits[r] \cup {<<r, at[r]>>}) <= RateMax
    BY <1>8, <2>1, RoomForOne DEF Admits
  <2>3. /\ rate' \in [Ips -> SUBSET Hits]
        /\ \A i \in Ips : Cardinality(rate'[i]) <= RateMax
    BY <1>8, <2>2 DEF Admits, TypeOK
  <2>4. HitsBounded' /\ hits' \in [Runs -> SUBSET Hits]
    BY <1>8, NoHits, RelayAssumption DEF Admits, TypeOK, HitsBounded
  <2>5. admitted' \in [Ips -> SUBSET Hits]
    BY <1>8, <2>1 DEF Admits, TypeOK
  <2> QED BY <1>8, <2>3, <2>4, <2>5 DEF instance, Admits, Goes, client, TypeOK
<1>9. ASSUME NEW r \in Runs, Limits(r) PROVE Typed'
  <2>1. hits[r] \in SUBSET Hits /\ Cardinality(hits[r]) <= RateMax /\ from[r] \in Ips
    BY DEF TypeOK, HitsBounded
  <2>2. /\ rate' \in [Ips -> SUBSET Hits]
        /\ \A i \in Ips : Cardinality(rate'[i]) <= RateMax
    BY <1>9, <2>1 DEF Limits, TypeOK
  <2>3. HitsBounded' /\ hits' \in [Runs -> SUBSET Hits]
    BY <1>9, NoHits, RelayAssumption DEF Limits, TypeOK, HitsBounded
  <2> QED BY <1>9, <2>2, <2>3 DEF instance, Limits, Answers, Goes, client, TypeOK, Statuses
<1>10. ASSUME NEW r \in Runs, Refuses(r) PROVE Typed'
  BY <1>10 DEF instance, Refuses, Answers, Goes, limiter, TypeOK, HitsBounded, Statuses, Requests
<1>11. ASSUME NEW r \in Runs, RelayRequest(r) PROVE Typed'
  BY <1>11 DEF RelayRequest, Asks, Unreachable, Passes, Follows, PassesOther, TimesOut,
     BreaksOff, Relays, Waits, Answers, Goes, client, instance, limiter, TypeOK,
     HitsBounded, Statuses, Requests, InstanceAnswers
<1>12. ASSUME NEW r \in Runs, Instance(r) PROVE Typed'
  BY <1>12 DEF Instance, Accepts, Declines, Perhaps, client, limiter, TypeOK,
     HitsBounded, InstanceAnswers
<1> QED BY <1>1, <1>2, <1>3, <1>4, <1>5, <1>6, <1>7, <1>8, <1>9, <1>10, <1>11, <1>12
    DEF Next, Client, Thread, Limiter

(* Types; the limiter's lists never hold more than RATE_MAX hits. *)
THEOREM TypeCorrect == Spec => []TypeOK
<1>1. Typed => TypeOK
  BY DEF Typed
<1> QED BY <1>1, TypedInit, TypedStep, PTL DEF Spec

-----------------------------------------------------------------------------
LEMMA UntoldInit == Init => Untold /\ Told
BY DEF Init, Untold, Told

LEMMA UntoldStep == Typed /\ Untold /\ Told /\ [Next]_vars => Untold' /\ Told'
<1> SUFFICES ASSUME Typed, Untold, Told, [Next]_vars
             PROVE  Untold' /\ Told'
  OBVIOUS
<1> USE DEF Typed
<1>1. CASE UNCHANGED vars \/ Tick
  BY <1>1 DEF vars, Tick, client, limiter, instance, Untold, Told
<1>2. ASSUME NEW r \in Runs, Client(r) PROVE Untold' /\ Told'
  BY <1>2 DEF Client, Starts, SendFails, Sends, limiter, instance, Untold, Told, TypeOK
<1>3. ASSUME NEW r \in Runs, Limiter(r) PROVE Untold' /\ Told'
  BY <1>3 DEF Limiter, Forbids, TakesTime, Counts, Admits, Limits, Answers, Goes,
     client, limiter, instance, Untold, Told, TypeOK
<1>4. ASSUME NEW r \in Runs, Refuses(r) PROVE Untold' /\ Told'
  BY <1>4 DEF Refuses, Answers, Goes, limiter, instance, Untold, Told, TypeOK
<1>5. ASSUME NEW r \in Runs, Asks(r) \/ Unreachable(r) PROVE Untold' /\ Told'
  BY <1>5 DEF Asks, Unreachable, Relays, Answers, Goes, limiter, Untold, Told, TypeOK
<1>6. ASSUME NEW r \in Runs, Passes(r) \/ Follows(r) \/ PassesOther(r)
      PROVE  Untold' /\ Told'
  BY <1>6 DEF Passes, Follows, PassesOther, Answers, Goes, client, instance, limiter,
     Untold, Told, TypeOK
<1>7. ASSUME NEW r \in Runs, TimesOut(r) \/ BreaksOff(r) PROVE Untold' /\ Told'
  BY <1>7 DEF TimesOut, BreaksOff, Waits, Goes, client, instance, limiter,
     Untold, Told, TypeOK
<1>8. ASSUME NEW r \in Runs, Instance(r) PROVE Untold' /\ Told'
  <2>1. answer[r] = "asked" /\ created[r] = 0
    BY <1>8 DEF Instance, Accepts, Declines, Told
  <2> QED BY <1>8, <2>1 DEF Instance, Accepts, Declines, Perhaps, client, limiter,
      Untold, Told, TypeOK
<1> QED BY <1>1, <1>2, <1>3, <1>4, <1>5, <1>6, <1>7, <1>8 DEF Next, Thread, RelayRequest

(* Whatever breaks, times out or is redirected, and however late the        *)
(* instance acts: unless its POST was redirected, what the client can print *)
(* of a run is true of the instance, and no status is created twice.        *)
THEOREM Reported == Spec => []AsReported
<1>1. Init => Typed /\ Untold /\ Told
  BY TypedInit, UntoldInit
<1>2. Typed /\ Untold /\ Told /\ [Next]_vars => (Typed /\ Untold /\ Told)'
  BY TypedStep, UntoldStep
<1>3. Typed /\ Untold /\ Told => AsReported
  BY DEF Untold, Told, AsReported, Typed, TypeOK, InstanceAnswers
<1> QED BY <1>1, <1>2, <1>3, PTL DEF Spec

-----------------------------------------------------------------------------
LEMMA RecordedInit == Init => Recorded
BY DEF Init, Recorded

LEMMA RecordedStep == Typed /\ Untold /\ Recorded /\ [Next]_vars => Recorded'
<1> SUFFICES ASSUME Typed, Untold, Recorded, [Next]_vars PROVE Recorded'
  OBVIOUS
<1> USE DEF Typed
<1>1. CASE UNCHANGED vars \/ Tick
  BY <1>1 DEF vars, Tick, client, limiter, Recorded
<1>2. ASSUME NEW r \in Runs, Client(r) PROVE Recorded'
  BY <1>2 DEF Client, Starts, SendFails, Sends, limiter, Untold, Recorded, TypeOK
<1>3. ASSUME NEW r \in Runs, Forbids(r) \/ Refuses(r) \/ RelayRequest(r)
      PROVE  Recorded'
  <2>1. UNCHANGED <<from, limiter>>
    BY <1>3 DEF Forbids, Refuses, RelayRequest, Asks, Unreachable, Passes, Follows,
       PassesOther, TimesOut, BreaksOff, Relays, client
  <2>2. thread[r] # "counted"
    BY <1>3 DEF Forbids, Refuses, RelayRequest, Asks, Unreachable, Passes, Follows,
       PassesOther, TimesOut, BreaksOff, Waits, Relays
  <2>3. \A q \in Runs : q # r => thread'[q] = thread[q]
    BY <1>3 DEF Forbids, Refuses, RelayRequest, Asks, Unreachable, Passes, Follows,
       PassesOther, TimesOut, BreaksOff, Answers, Goes, TypeOK
  <2> QED BY <2>1, <2>2, <2>3 DEF limiter, Recorded
<1>4. ASSUME NEW r \in Runs, TakesTime(r) PROVE Recorded'
  BY <1>4 DEF TakesTime, Goes, client, Recorded, TypeOK
<1>5. ASSUME NEW r \in Runs, Counts(r) PROVE Recorded'
  <2>1. Recent(rate[from[r]], at[r]) \subseteq {a \in admitted[from[r]] : at[r] - a[2] < Window}
    BY DEF Recent, Recorded, TypeOK
  <2> QED BY <1>5, <2>1 DEF Counts, Goes, client, Recorded, TypeOK
<1>6. ASSUME NEW r \in Runs, Admits(r) PROVE Recorded'
  <2>1. \A i \in Ips : admitted[i] \subseteq admitted'[i]
    BY <1>6 DEF Admits, TypeOK
  <2>2. \A i \in Ips : rate'[i] \subseteq admitted'[i]
    BY <1>6 DEF Admits, Recorded, TypeOK
  <2> QED BY <1>6, <2>1, <2>2 DEF Admits, Goes, client, Recorded, TypeOK
<1>7. ASSUME NEW r \in Runs, Limits(r) PROVE Recorded'
  <2>1. \A i \in Ips : rate'[i] \subseteq admitted[i]
    BY <1>7 DEF Limits, Recorded, TypeOK
  <2> QED BY <1>7, <2>1 DEF Limits, Answers, Goes, client, Recorded, TypeOK
<1>8. ASSUME NEW r \in Runs, Instance(r) PROVE Recorded'
  BY <1>8 DEF Instance, Accepts, Declines, client, limiter, Recorded, TypeOK
<1> QED BY <1>1, <1>2, <1>3, <1>4, <1>5, <1>6, <1>7, <1>8 DEF Next, Thread, Limiter

(* Admissions of an address that a thread finds within the window.          *)
Within(r) == {a \in admitted[from[r]] : at[r] - a[2] < Window}

LEMMA LimitedStep ==
  Typed /\ Untold /\ Recorded /\ LimitedAtLimit /\ [Next]_vars => LimitedAtLimit'
<1> SUFFICES ASSUME Typed, Untold, Recorded, LimitedAtLimit, [Next]_vars,
                    NEW q \in Runs, status'[q] = "limited"
             PROVE  Cardinality(Within(q)') >= RateMax
  BY DEF LimitedAtLimit, Within
<1> USE DEF Typed
<1>1. from' = from /\ \A i \in Ips : admitted[i] \subseteq admitted'[i]
  BY DEF Next, vars, Tick, Client, SendFails, Sends, Thread, Limiter, Forbids, TakesTime,
     Counts, Admits, Limits, Refuses, RelayRequest, Asks, Unreachable, Passes,
     Follows, PassesOther, TimesOut, BreaksOff, Instance, Accepts, Declines,
       Relays, client, limiter, TypeOK
<1>2. CASE status[q] = "limited"
  <2>1. thread[q] = "closed"
    BY <1>2 DEF Untold
  <2>2. at'[q] = at[q]
    BY <2>1 DEF Next, vars, Tick, Client, SendFails, Sends, Thread, Limiter, Forbids,
       TakesTime, Counts, Admits, Limits, Refuses, RelayRequest, Asks, Unreachable, Passes,
       Follows, PassesOther, TimesOut, BreaksOff, Instance, Accepts, Declines,
       Relays, client, limiter, TypeOK
  <2>3. Within(q) \in SUBSET Within(q)'
    BY <1>1, <2>2 DEF Within, TypeOK
  <2>4. Within(q)' \in SUBSET Hits
    <3>1. TypeOK'
      BY TypedStep
    <3> QED BY <3>1 DEF Within, TypeOK
  <2>5. /\ Cardinality(Within(q)) <= Cardinality(Within(q)')
        /\ Cardinality(Within(q)) \in Nat /\ Cardinality(Within(q)') \in Nat
    BY <2>3, <2>4, HitsFinite, FS_Subset, FS_CardinalityType
  <2>6. Cardinality(Within(q)) >= RateMax
    BY <1>2 DEF LimitedAtLimit, Within
  <2> QED BY <2>5, <2>6, RelayAssumption
<1>3. CASE status[q] # "limited"
  <2>1. Limits(q)
    BY <1>3 DEF Next, vars, Tick, Client, SendFails, Sends, Thread, Limiter, Forbids,
       TakesTime, Counts, Admits, Limits, Refuses, RelayRequest, Asks, Unreachable, Passes,
       Follows, PassesOther, TimesOut, BreaksOff, Instance, Accepts, Declines,
       Relays, Answers, client, limiter, TypeOK
  <2>2. at' = at /\ admitted' = admitted /\ Cardinality(hits[q]) >= RateMax
    BY <2>1 DEF Limits, Full
  <2>3. Within(q)' = Within(q) /\ hits[q] \in SUBSET Within(q)
    BY <1>1, <2>2 DEF Within, Recorded
  <2>4. Within(q) \in SUBSET Hits
    BY DEF Within, TypeOK
  <2>5. /\ Cardinality(hits[q]) <= Cardinality(Within(q))
        /\ Cardinality(hits[q]) \in Nat /\ Cardinality(Within(q)) \in Nat
    BY <2>3, <2>4, HitsFinite, FS_Subset, FS_CardinalityType
  <2> QED BY <2>2, <2>3, <2>5, RelayAssumption
<1> QED BY <1>2, <1>3

(* Nobody is turned away below the limit, whatever the threads overwrite.   *)
THEOREM Limited == Spec => []LimitedAtLimit
<1> DEFINE I == Typed /\ Untold /\ Told /\ Recorded /\ LimitedAtLimit
<1>1. Init => I
  <2>1. Init => LimitedAtLimit
    BY DEF Init, LimitedAtLimit
  <2> QED BY <2>1, TypedInit, UntoldInit, RecordedInit
<1>2. I /\ [Next]_vars => I'
  BY TypedStep, UntoldStep, RecordedStep, LimitedStep
<1>3. I => LimitedAtLimit
  OBVIOUS
<1> QED BY <1>1, <1>2, <1>3, PTL DEF Spec

-----------------------------------------------------------------------------
(* As long as the threads of an address take turns, the table and the copy  *)
(* of the one that is in rate_ok() miss no hit that is still in the window. *)
TakeTurns ==
  \A r, q \in Runs :
    InLimiter(r) /\ InLimiter(q) /\ from[r] = from[q] /\ r # q => from[r] \in overlap

Current ==
  \A i \in Ips \ overlap : \A a \in admitted[i] :
    a[2] <= now /\ (a \in rate[i] \/ now - a[2] >= Window)

(* A thread that has taken the time sees all earlier hits.                  *)
Sees(r, list) ==
  \A a \in admitted[from[r]] :
    a[2] <= at[r] /\ (a \in list \/ at[r] - a[2] >= Window)

Complete ==
  \A r \in Runs :
    /\ InLimiter(r) => at[r] <= now
    /\ thread[r] = "timed" /\ from[r] \notin overlap => Sees(r, rate[from[r]])
    /\ thread[r] = "counted" /\ from[r] \notin overlap => Sees(r, hits[r])

Serial == TakeTurns /\ Current /\ Complete

LEMMA SerialInit == Init => Serial /\ LimitHeld
<1> SUFFICES ASSUME Init PROVE Serial /\ LimitHeld
  OBVIOUS
<1>1. \A i \in Ips : admitted[i] = {}
  BY DEF Init
<1>2. Serial
  BY <1>1 DEF Init, Serial, TakeTurns, Current, Complete, InLimiter
<1>3. \A i \in Ips : \A t \in Times :
        {a \in admitted[i] : a[2] <= t /\ t - a[2] < Window} = {}
  BY <1>1
<1>4. Cardinality({}) <= RateMax
  BY NoHits, RelayAssumption
<1>5. LimitHeld
  BY <1>3, <1>4, Zenon DEF LimitHeld
<1> QED BY <1>2, <1>5

(* A step that leaves the tables, the clock and the threads in rate_ok()    *)
(* alone.                                                                   *)
LEMMA SerialQuiet ==
  ASSUME Typed, Serial, LimitHeld, from' = from, now' = now, UNCHANGED limiter,
         \A q \in Runs : thread'[q] = thread[q] \/ thread'[q] \notin {"timed", "counted"}
  PROVE  Serial' /\ LimitHeld'
<1>1. UNCHANGED <<from, now, rate, at, hits, admitted, overlap>>
  BY DEF limiter
<1>2. \A q \in Runs : InLimiter(q)' => InLimiter(q)
  BY DEF InLimiter
<1>3. TakeTurns'
  BY <1>1, <1>2 DEF Serial, TakeTurns
<1>4. Current' /\ LimitHeld'
  BY <1>1 DEF Serial, Current, LimitHeld
<1>5. \A q \in Runs : /\ thread'[q] = "timed" => thread[q] = "timed"
                     /\ thread'[q] = "counted" => thread[q] = "counted"
  OBVIOUS
<1>6. Complete'
  <2> SUFFICES ASSUME NEW q \in Runs
               PROVE  /\ InLimiter(q)' => at[q] <= now
                      /\ thread'[q] = "timed" /\ from[q] \notin overlap
                           => Sees(q, rate[from[q]])'
                      /\ thread'[q] = "counted" /\ from[q] \notin overlap
                           => Sees(q, hits[q])'
    BY <1>1 DEF Complete
  <2>1. thread'[q] = "timed" => thread[q] = "timed"
    BY <1>5
  <2>2. thread'[q] = "counted" => thread[q] = "counted"
    BY <1>5
  <2>3. InLimiter(q)' => at[q] <= now
    BY <2>1, <2>2 DEF Serial, Complete, InLimiter
  <2>4. thread'[q] = "timed" /\ from[q] \notin overlap => Sees(q, rate[from[q]])'
    BY <1>1, <2>1 DEF Serial, Complete, Sees
  <2>5. thread'[q] = "counted" /\ from[q] \notin overlap => Sees(q, hits[q])'
    BY <1>1, <2>2 DEF Serial, Complete, Sees
  <2> QED BY <2>3, <2>4, <2>5
<1> QED BY <1>3, <1>4, <1>6 DEF Serial

LEMMA SerialTick ==
  ASSUME Typed, Serial, LimitHeld, Tick PROVE Serial' /\ LimitHeld'
<1>1. now \in Nat /\ now' = now + 1 /\ Window \in Nat /\ \A r \in Runs : at[r] \in Nat
  BY RelayAssumption DEF Tick, Typed, TypeOK, Times
<1>2. UNCHANGED <<from, limiter, thread>>
  BY DEF Tick, client
<1>3. \A i \in Ips : \A a \in admitted[i] : a[2] \in Nat
  BY DEF Typed, TypeOK, Hits, Times
<1>4. TakeTurns'
  BY <1>2 DEF Serial, TakeTurns, InLimiter, limiter
<1>5. Current'
  BY <1>1, <1>2, <1>3 DEF Serial, Current, limiter
<1>6. Complete'
  BY <1>1, <1>2 DEF Serial, Complete, Sees, InLimiter, limiter
<1>7. LimitHeld'
  BY <1>2 DEF LimitHeld, limiter
<1> QED BY <1>4, <1>5, <1>6, <1>7 DEF Serial

LEMMA SerialTakesTime ==
  ASSUME Typed, Serial, LimitHeld, NEW r \in Runs, TakesTime(r)
  PROVE  Serial' /\ LimitHeld'
<1>1. /\ UNCHANGED <<from, now, rate, hits, admitted>> /\ overlap \subseteq overlap'
      /\ at' = [at EXCEPT ![r] = now] /\ thread' = [thread EXCEPT ![r] = "timed"]
      /\ thread[r] = "accepted"
  BY DEF TakesTime, Goes, client
<1>2. now \in Nat /\ from[r] \in Ips
  BY DEF Typed, TypeOK, Times
<1>3. TakeTurns'
  <2> SUFFICES ASSUME NEW p \in Runs, NEW q \in Runs, InLimiter(p)', InLimiter(q)',
                      from[p] = from[q], p # q
               PROVE  from[p] \in overlap'
    BY <1>1 DEF TakeTurns
  <2>1. CASE p # r /\ q # r
    BY <1>1, <2>1 DEF Serial, TakeTurns, InLimiter, Typed, TypeOK
  <2>2. CASE p = r
    <3>1. InLimiter(q)
      BY <1>1, <2>2 DEF InLimiter, Typed, TypeOK
    <3> QED BY <2>2, <3>1 DEF TakesTime
  <2>3. CASE q = r
    <3>1. InLimiter(p)
      BY <1>1, <2>3 DEF InLimiter, Typed, TypeOK
    <3> QED BY <2>3, <3>1 DEF TakesTime
  <2> QED BY <2>1, <2>2, <2>3
<1>4. Current'
  BY <1>1 DEF Serial, Current
<1>5. Complete'
  <2> SUFFICES ASSUME NEW q \in Runs
               PROVE  /\ InLimiter(q)' => at'[q] <= now
                      /\ thread'[q] = "timed" /\ from[q] \notin overlap'
                           => Sees(q, rate[from[q]])'
                      /\ thread'[q] = "counted" /\ from[q] \notin overlap'
                           => Sees(q, hits[q])'
    BY <1>1 DEF Complete
  <2>1. CASE q = r
    <3>1. at'[q] = now /\ thread'[q] = "timed"
      BY <1>1, <2>1 DEF Typed, TypeOK
    <3>2. from[q] \notin overlap' => Sees(q, rate[from[q]])'
      BY <1>1, <1>2, <2>1, <3>1 DEF Serial, Current, Sees
    <3> QED BY <1>2, <3>1, <3>2
  <2>2. CASE q # r
    <3>1. at'[q] = at[q] /\ thread'[q] = thread[q]
      BY <1>1, <2>2 DEF Typed, TypeOK
    <3> QED BY <1>1, <3>1 DEF Serial, Complete, Sees, InLimiter
  <2> QED BY <2>1, <2>2
<1>6. LimitHeld'
  BY <1>1 DEF LimitHeld
<1> QED BY <1>3, <1>4, <1>5, <1>6 DEF Serial

LEMMA SerialCounts ==
  ASSUME Typed, Serial, LimitHeld, NEW r \in Runs, Counts(r)
  PROVE  Serial' /\ LimitHeld'
<1>1. /\ UNCHANGED <<from, now, rate, at, admitted, overlap>>
      /\ hits' = [hits EXCEPT ![r] = Recent(rate[from[r]], at[r])]
      /\ thread[r] = "timed" /\ thread' = [thread EXCEPT ![r] = "counted"]
  BY DEF Counts, Goes, client
<1>2. \A q \in Runs : InLimiter(q)' <=> InLimiter(q)
  BY <1>1 DEF InLimiter, Typed, TypeOK
<1>3. TakeTurns' /\ Current' /\ LimitHeld'
  BY <1>1, <1>2 DEF Serial, TakeTurns, Current, LimitHeld
<1>4. Complete'
  <2> SUFFICES ASSUME NEW q \in Runs
               PROVE  /\ InLimiter(q)' => at[q] <= now
                      /\ thread'[q] = "timed" /\ from[q] \notin overlap
                           => Sees(q, rate[from[q]])'
                      /\ thread'[q] = "counted" /\ from[q] \notin overlap
                           => Sees(q, hits[q])'
    BY <1>1 DEF Complete
  <2>1. CASE q = r
    <3>1. thread'[q] = "counted" /\ hits'[q] = Recent(rate[from[q]], at[q])
      BY <1>1, <2>1 DEF Typed, TypeOK
    <3>2. from[q] \notin overlap => Sees(q, rate[from[q]])
      BY <1>1, <2>1 DEF Serial, Complete
    <3>3. /\ Window \in Nat /\ at[q] \in Nat
          /\ \A a \in admitted[from[q]] : a[2] \in Nat
      BY RelayAssumption DEF Typed, TypeOK, Hits, Times
    <3>4. from[q] \notin overlap => Sees(q, hits[q])'
      BY <1>1, <3>1, <3>2, <3>3 DEF Sees, Recent
    <3> QED BY <1>1, <1>2, <2>1, <3>1, <3>4 DEF Serial, Complete
  <2>2. CASE q # r
    <3>1. hits'[q] = hits[q] /\ thread'[q] = thread[q]
      BY <1>1, <2>2 DEF Typed, TypeOK
    <3> QED BY <1>1, <1>2, <3>1 DEF Serial, Complete, Sees
  <2> QED BY <2>1, <2>2
<1> QED BY <1>3, <1>4 DEF Serial

(* rate_ok() stores its copy: a thread that saw every hit leaves every hit. *)
LEMMA SerialStores ==
  ASSUME Typed, Serial, LimitHeld, NEW r \in Runs, thread[r] = "counted",
         NEW new \in SUBSET {<<r, at[r]>>},
         new # {} => ~Full(hits[r]),
         UNCHANGED <<from, now, at, overlap>>,
         rate' = [rate EXCEPT ![from[r]] = hits[r] \cup new],
         hits' = [hits EXCEPT ![r] = {}],
         admitted' = [admitted EXCEPT ![from[r]] = @ \cup new],
         \A q \in Runs : IF q = r THEN thread'[q] \notin {"timed", "counted"}
                                ELSE thread'[q] = thread[q]
  PROVE  Serial' /\ LimitHeld'
<1>1. /\ now \in Nat /\ Window \in Nat /\ from[r] \in Ips /\ at[r] \in Nat
      /\ hits[r] \in SUBSET Hits /\ RateMax \in Nat
      /\ \A i \in Ips : \A a \in admitted[i] : a[2] \in Nat
      /\ \A i \in Ips : admitted[i] \in SUBSET Hits
  BY RelayAssumption DEF Typed, TypeOK, Hits, Times
<1>2. at[r] <= now /\ (from[r] \notin overlap => Sees(r, hits[r]))
  BY DEF Serial, Complete, InLimiter
<1>3. /\ rate'[from[r]] = hits[r] \cup new
      /\ admitted'[from[r]] = admitted[from[r]] \cup new
      /\ \A i \in Ips : i # from[r] => rate'[i] = rate[i] /\ admitted'[i] = admitted[i]
  BY <1>1 DEF Typed, TypeOK
<1>4. TakeTurns'
  BY DEF Serial, TakeTurns, InLimiter
<1>5. Current'
  <2> SUFFICES ASSUME NEW i \in Ips \ overlap, NEW a \in admitted'[i]
               PROVE  a[2] <= now /\ (a \in rate'[i] \/ now - a[2] >= Window)
    BY DEF Current
  <2>1. CASE i # from[r]
    BY <1>3, <2>1 DEF Serial, Current
  <2>2. CASE i = from[r] /\ a \in new
    <3>1. a[2] = at[r] /\ a \in rate'[i]
      BY <1>3, <2>2
    <3> QED BY <1>2, <3>1
  <2>3. CASE i = from[r] /\ a \in admitted[i]
    <3>1. a[2] <= at[r] /\ (a \in hits[r] \/ at[r] - a[2] >= Window)
      BY <1>2, <2>3 DEF Sees
    <3>2. a[2] \in Nat /\ (a \in hits[r] => a \in rate'[i])
      BY <1>1, <1>3, <2>3
    <3> QED BY <1>1, <1>2, <3>1, <3>2
  <2> QED BY <1>3, <2>1, <2>2, <2>3
<1>6. Complete'
  <2> SUFFICES ASSUME NEW q \in Runs, q # r, InLimiter(q)
               PROVE  /\ at[q] <= now
                      /\ thread[q] = "timed" /\ from[q] \notin overlap
                           => Sees(q, rate[from[q]])'
                      /\ thread[q] = "counted" /\ from[q] \notin overlap
                           => Sees(q, hits[q])'
    BY DEF Complete, InLimiter
  <2>1. from[q] = from[r] => from[q] \in overlap
    BY DEF Serial, TakeTurns, InLimiter
  <2>2. from[q] # from[r] => /\ rate'[from[q]] = rate[from[q]]
                             /\ admitted'[from[q]] = admitted[from[q]]
    BY <1>3 DEF Typed, TypeOK
  <2>3. hits'[q] = hits[q]
    BY DEF Typed, TypeOK
  <2> QED BY <2>1, <2>2, <2>3 DEF Serial, Complete, Sees
<1>7. LimitHeld'
  <2> SUFFICES ASSUME NEW i \in Ips \ overlap, NEW t \in Times
               PROVE  Cardinality({a \in admitted'[i] : a[2] <= t /\ t - a[2] < Window})
                        <= RateMax
    BY DEF LimitHeld
  <2> DEFINE Old == {a \in admitted[i] : a[2] <= t /\ t - a[2] < Window}
             New == {a \in admitted'[i] : a[2] <= t /\ t - a[2] < Window}
  <2>1. Cardinality(Old) <= RateMax /\ t \in Nat
    BY DEF LimitHeld, Times
  <2>2. CASE New = Old
    BY <2>1, <2>2
  <2>3. CASE New # Old
    <3>1. i = from[r] /\ new = {<<r, at[r]>>} /\ at[r] <= t
      BY <1>3, <2>3
    <3>2. /\ <<r, at[r]>> \in Hits
          /\ hits[r] \cup {<<r, at[r]>>} \in SUBSET Hits
          /\ Cardinality(hits[r] \cup {<<r, at[r]>>}) <= RateMax
      <4>1. <<r, at[r]>> \in Hits
        BY DEF Typed, TypeOK, Hits
      <4> QED BY <1>1, <3>1, <4>1, RoomForOne
    <3>3. New \in SUBSET (hits[r] \cup {<<r, at[r]>>})
      <4> SUFFICES ASSUME NEW a \in admitted[i], a[2] <= t, t - a[2] < Window
                   PROVE  a \in hits[r]
        BY <1>3, <3>1
      <4>1. a \in hits[r] \/ at[r] - a[2] >= Window
        BY <1>2, <3>1 DEF Sees
      <4>2. a[2] \in Nat
        BY <1>1
      <4> QED BY <1>1, <2>1, <3>1, <4>1, <4>2
    <3>4. /\ Cardinality(New) <= Cardinality(hits[r] \cup {<<r, at[r]>>})
          /\ Cardinality(New) \in Nat
          /\ Cardinality(hits[r] \cup {<<r, at[r]>>}) \in Nat
      BY <3>2, <3>3, HitsFinite, FS_Subset, FS_CardinalityType
    <3> QED BY <1>1, <3>2, <3>4
  <2> QED BY <2>2, <2>3
<1> QED BY <1>4, <1>5, <1>6, <1>7 DEF Serial

LEMMA SerialStep ==
  Typed /\ Untold /\ Serial /\ LimitHeld /\ [Next]_vars => Serial' /\ LimitHeld'
<1> SUFFICES ASSUME Typed, Untold, Serial, LimitHeld, [Next]_vars
             PROVE  Serial' /\ LimitHeld'
  OBVIOUS
<1>1. CASE UNCHANGED vars
  BY <1>1, SerialQuiet DEF vars, limiter
<1>2. CASE Tick
  BY <1>2, SerialTick
<1>3. ASSUME NEW r \in Runs, Client(r) PROVE Serial' /\ LimitHeld'
  <2>1. UNCHANGED <<from, now, limiter>>
    BY <1>3 DEF Client, SendFails, Sends
  <2>2. \A q \in Runs : thread'[q] = thread[q] \/ thread'[q] \notin {"timed", "counted"}
    BY <1>3 DEF Client, SendFails, Sends, Typed, TypeOK
  <2> QED BY <2>1, <2>2, SerialQuiet
<1>4. ASSUME NEW r \in Runs, Forbids(r) \/ Refuses(r) \/ RelayRequest(r)
      PROVE  Serial' /\ LimitHeld'
  <2>1. UNCHANGED <<from, now, limiter>>
    BY <1>4 DEF Forbids, Refuses, RelayRequest, Asks, Unreachable, Passes, Follows,
       PassesOther, TimesOut, BreaksOff, Relays, client
  <2>2. \A q \in Runs : thread'[q] = thread[q] \/ thread'[q] \notin {"timed", "counted"}
    BY <1>4 DEF Forbids, Refuses, RelayRequest, Asks, Unreachable, Passes, Follows,
       PassesOther, TimesOut, BreaksOff, Relays, Answers, Goes, Typed, TypeOK
  <2> QED BY <2>1, <2>2, SerialQuiet
<1>5. ASSUME NEW r \in Runs, TakesTime(r) PROVE Serial' /\ LimitHeld'
  BY <1>5, SerialTakesTime
<1>6. ASSUME NEW r \in Runs, Counts(r) PROVE Serial' /\ LimitHeld'
  BY <1>6, SerialCounts
<1>7. ASSUME NEW r \in Runs, Admits(r) PROVE Serial' /\ LimitHeld'
  <2>1. /\ thread[r] = "counted" /\ ~Full(hits[r]) /\ UNCHANGED <<from, now, at, overlap>>
        /\ {<<r, at[r]>>} \in SUBSET {<<r, at[r]>>}
        /\ rate' = [rate EXCEPT ![from[r]] = hits[r] \cup {<<r, at[r]>>}]
        /\ hits' = [hits EXCEPT ![r] = {}]
        /\ admitted' = [admitted EXCEPT ![from[r]] = @ \cup {<<r, at[r]>>}]
    BY <1>7 DEF Admits, client
  <2>2. \A q \in Runs : IF q = r THEN thread'[q] \notin {"timed", "counted"}
                                ELSE thread'[q] = thread[q]
    BY <1>7 DEF Admits, Goes, Typed, TypeOK
  <2> QED BY <2>1, <2>2, SerialStores
<1>8. ASSUME NEW r \in Runs, Limits(r) PROVE Serial' /\ LimitHeld'
  <2>1. /\ thread[r] = "counted" /\ UNCHANGED <<from, now, at, overlap, admitted>>
        /\ {} \in SUBSET {<<r, at[r]>>}
        /\ rate' = [rate EXCEPT ![from[r]] = hits[r] \cup {}]
        /\ hits' = [hits EXCEPT ![r] = {}]
    BY <1>8 DEF Limits, client
  <2>2. admitted' = [admitted EXCEPT ![from[r]] = @ \cup {}]
    BY <2>1 DEF Typed, TypeOK
  <2>3. \A q \in Runs : IF q = r THEN thread'[q] \notin {"timed", "counted"}
                                ELSE thread'[q] = thread[q]
    BY <1>8 DEF Limits, Answers, Goes, Typed, TypeOK
  <2> QED BY <2>1, <2>2, <2>3, SerialStores
<1>9. ASSUME NEW r \in Runs, Instance(r) PROVE Serial' /\ LimitHeld'
  <2>1. UNCHANGED <<from, now, limiter, thread>>
    BY <1>9 DEF Instance, Accepts, Declines, client
  <2> QED BY <2>1, SerialQuiet
<1> QED BY <1>1, <1>2, <1>3, <1>4, <1>5, <1>6, <1>7, <1>8, <1>9
    DEF Next, Thread, Limiter

(* The limit holds for every address whose threads took turns.              *)
THEOREM SerialLimit == Spec => []LimitHeld
<1> DEFINE I == Typed /\ Untold /\ Told /\ Serial /\ LimitHeld
<1>1. Init => I
  BY TypedInit, UntoldInit, SerialInit
<1>2. I /\ [Next]_vars => I'
  BY TypedStep, UntoldStep, SerialStep
<1>3. I => LimitHeld
  OBVIOUS
<1> QED BY <1>1, <1>2, <1>3, PTL DEF Spec
=============================================================================
