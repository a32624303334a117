----------------------- MODULE TelemetryIntakeProofs ------------------------
(***************************************************************************)
(* Telemetry is logged at most once, for any number of packets, tasks and  *)
(* faults.  The argument: a packet the station would still accept, that is *)
(* one under the key of the session and above the replay clock, is neither *)
(* in the log nor carried by a task on its way there.  A session that is   *)
(* forgotten takes its replay clock along, but the next one has a new key, *)
(* under which nothing is in flight yet.                                   *)
(*                                                                         *)
(* Second part: no number below the expected one is unaccounted for.  The  *)
(* task at work has read the expected number the hash still holds, so the  *)
(* losses it writes are those the new expected number will leave behind.   *)
(*                                                                         *)
(* Third part: what is counted as lost was never accepted.  The numbers of *)
(* the UAV run no faster than its clock, so a gap of n numbers is one of n *)
(* timestamps at least, none of which was accepted; the books kept up to   *)
(* the newest accepted timestamp have room for every loss.                 *)
(*                                                                         *)
(* Fourth part: the types, and the limits of the buffers.                  *)
(***************************************************************************)
EXTENDS TelemetryIntake, FiniteSetTheorems, WellFoundedInduction, TLAPS

USE TelemetryIntakeAssumption, NoneAssumption

Telemetries == [fec : {FALSE}, seq : Nat, ts : Clocks, key : Nat, near : BOOLEAN]
Sums == [fec : {TRUE}, of : SUBSET Clocks, key : Nat, near : BOOLEAN]

Uavs == [seq : Nat, clock : Nat, key : Nat, secure : BOOLEAN, near : BOOLEAN,
         fec_buffer : Seq(Clocks)]

Flying(chan) == {chan[i] : i \in 1..Len(chan)}

\* Task u of tk carries a telemetry packet that is not logged yet.
Carries(tk, u) == tk[u].pc \in {"range", "state", "own", "log"} /\ ~ tk[u].pkt.fec

\* The packet ts is in the log lg or on its way there.
Used(tk, lg, ts) == lg[ts] > 0 \/ \E u \in Slots : Carries(tk, u) /\ tk[u].pkt.ts = ts

TaskTyped(tk) ==
  /\ DOMAIN tk = Slots
  /\ \A u \in Slots :
       /\ "pc" \in DOMAIN tk[u]
       /\ tk[u].pc # "idle" => "pkt" \in DOMAIN tk[u] /\ tk[u].pkt \in Telemetries \cup Sums
       /\ tk[u].pc \in {"log", "stats", "expect", "store"} => ~ tk[u].pkt.fec

Typed ==
  /\ uav \in Uavs
  /\ net \in Seq(Telemetries \cup Sums)
  /\ session \in {0, uav.key}
  /\ last_ts \in Nat
  /\ logged \in [Clocks -> Nat]
  /\ TaskTyped(task)

\* Nothing in flight is ahead of the UAV.
Past ==
  /\ \A p \in Flying(net) : ~ p.fec => p.ts <= uav.clock /\ p.key <= uav.key
  /\ \A ts \in Clocks : Used(task, logged, ts) => ts <= uav.clock

\* A packet on its way to the log is not in it, and no other task carries it.
Single ==
  /\ \A ts \in Clocks : logged[ts] <= 1
  /\ \A u \in Slots : Carries(task, u) => logged[task[u].pkt.ts] = 0
  /\ \A u, v \in Slots :
       Carries(task, u) /\ Carries(task, v) /\ task[u].pkt.ts = task[v].pkt.ts => u = v

\* What the station would still accept is new to it.
Fresh ==
  session # 0 =>
    \A p \in Flying(net) :
      ~ p.fec /\ p.key = session /\ p.ts > last_ts => ~ Used(task, logged, p.ts)

LogInv == Typed /\ Past /\ Single /\ Fresh

-----------------------------------------------------------------------------
LEMMA ClocksNat == Clocks \subseteq Nat
BY DEF Clocks

LEMMA Kinds ==
  ASSUME NEW p \in Telemetries \cup Sums, ~ p.fec
  PROVE  p \in Telemetries /\ p.ts \in Clocks /\ p.ts \in Nat /\ p.key \in Nat
BY ClocksNat DEF Telemetries, Sums

LEMMA UavTyped ==
  ASSUME NEW u \in Uavs
  PROVE  /\ {u.seq, u.clock, u.key} \subseteq Nat /\ {u.secure, u.near} \subseteq BOOLEAN
         /\ u.fec_buffer \in Seq(Clocks)
BY DEF Uavs

LEMMA UavKeyed ==
  ASSUME NEW u \in Uavs, NEW k \in Nat
  PROVE  /\ [u EXCEPT !.secure = TRUE, !.key = k] \in Uavs
         /\ [u EXCEPT !.secure = TRUE, !.key = k].clock = u.clock
         /\ [u EXCEPT !.secure = TRUE, !.key = k].key = k
BY DEF Uavs

LEMMA UavRestarted ==
  ASSUME NEW u \in Uavs, NEW b \in Seq(Clocks)
  PROVE  /\ [u EXCEPT !.seq = 1, !.secure = FALSE, !.fec_buffer = b] \in Uavs
         /\ [u EXCEPT !.seq = 1, !.secure = FALSE, !.fec_buffer = b].clock = u.clock
         /\ [u EXCEPT !.seq = 1, !.secure = FALSE, !.fec_buffer = b].key = u.key
BY DEF Uavs

LEMMA UavMoved ==
  ASSUME NEW u \in Uavs, NEW x \in BOOLEAN
  PROVE  /\ [u EXCEPT !.near = x] \in Uavs /\ [u EXCEPT !.secure = x] \in Uavs
         /\ [u EXCEPT !.near = x].clock = u.clock /\ [u EXCEPT !.secure = x].clock = u.clock
         /\ [u EXCEPT !.near = x].key = u.key /\ [u EXCEPT !.secure = x].key = u.key
BY DEF Uavs

(* What the actions on the channel leave in flight. *)

LEMMA FlyingTyped ==
  ASSUME NEW S, NEW chan \in Seq(S)
  PROVE  Flying(chan) \subseteq S
BY DEF Flying

LEMMA FlyingTail ==
  ASSUME NEW S, NEW chan \in Seq(S), chan # <<>>
  PROVE  /\ Tail(chan) \in Seq(S) /\ Head(chan) \in Flying(chan)
         /\ Flying(Tail(chan)) \subseteq Flying(chan)
<1>1. Tail(chan) \in Seq(S) /\ Len(Tail(chan)) = Len(chan) - 1 /\ Len(chan) \in Nat /\ Len(chan) > 0
  OBVIOUS
<1>2. \A i \in 1..Len(Tail(chan)) : Tail(chan)[i] = chan[i + 1]
  OBVIOUS
<1>3. Head(chan) = chan[1]
  OBVIOUS
<1>4. \A i \in 1..Len(Tail(chan)) : i + 1 \in 1..Len(chan)
  BY <1>1
<1>5. 1 \in 1..Len(chan)
  BY <1>1
<1>6. Flying(Tail(chan)) \subseteq Flying(chan)
  BY <1>2, <1>4 DEF Flying
<1>7. Head(chan) \in Flying(chan)
  BY <1>3, <1>5 DEF Flying
<1>8. QED
  BY <1>1, <1>6, <1>7

LEMMA FlyingAppend ==
  ASSUME NEW S, NEW chan \in Seq(S), NEW p \in S
  PROVE  /\ Append(chan, p) \in Seq(S)
         /\ Flying(Append(chan, p)) = Flying(chan) \cup {p}
<1>1. /\ Append(chan, p) \in Seq(S) /\ Len(Append(chan, p)) = Len(chan) + 1
      /\ Len(chan) \in Nat
      /\ Append(chan, p)[Len(chan) + 1] = p
      /\ \A i \in 1..Len(chan) : Append(chan, p)[i] = chan[i]
  OBVIOUS
<1>2. 1..(Len(chan) + 1) = (1..Len(chan)) \cup {Len(chan) + 1}
  BY <1>1
<1>3. QED
  BY <1>1, <1>2 DEF Flying

LEMMA Joined ==
  ASSUME NEW S, NEW a \in Seq(S), NEW b \in Seq(S)
  PROVE  /\ a \o b \in Seq(S) /\ Len(a \o b) = Len(a) + Len(b)
         /\ \A j \in 1..(Len(a) + Len(b)) :
              (a \o b)[j] = IF j <= Len(a) THEN a[j] ELSE b[j - Len(a)]
OBVIOUS

LEMMA FlyingRemove ==
  ASSUME NEW S, NEW chan \in Seq(S), NEW i \in 1..Len(chan)
  PROVE  /\ RemoveAt(chan, i) \in Seq(S) /\ Len(RemoveAt(chan, i)) = Len(chan) - 1
         /\ Flying(RemoveAt(chan, i)) \subseteq Flying(chan)
<1> DEFINE n == Len(chan)
           a == SubSeq(chan, 1, i - 1)
           b == SubSeq(chan, i + 1, n)
<1>1. n \in Nat /\ i \in 1..n /\ n = Len(chan)
  OBVIOUS
<1>2. a \in Seq(S) /\ Len(a) = i - 1 /\ \A j \in 1..(i - 1) : a[j] = chan[j]
  BY <1>1
<1>3. b \in Seq(S) /\ Len(b) = n - i /\ \A j \in 1..(n - i) : b[j] = chan[i + j]
  BY <1>1
<1>4. RemoveAt(chan, i) = a \o b
  BY DEF RemoveAt
<1> HIDE DEF n, a, b
<1>5. /\ a \o b \in Seq(S) /\ Len(a \o b) = n - 1
      /\ \A j \in 1..(n - 1) : (a \o b)[j] = IF j <= i - 1 THEN a[j] ELSE b[j - (i - 1)]
  <2>1. Len(a) + Len(b) = n - 1
    BY <1>1, <1>2, <1>3
  <2>2. a \in Seq(S) /\ b \in Seq(S) /\ Len(a) = i - 1
    BY <1>2, <1>3
  <2>3. /\ a \o b \in Seq(S) /\ Len(a \o b) = Len(a) + Len(b)
        /\ \A j \in 1..(Len(a) + Len(b)) :
             (a \o b)[j] = IF j <= Len(a) THEN a[j] ELSE b[j - Len(a)]
    BY <2>2, Joined
  <2>4. QED
    BY <2>1, <2>2, <2>3
<1>6. \A j \in 1..(n - 1) : \E k \in 1..n : (a \o b)[j] = chan[k]
  <2> SUFFICES ASSUME NEW j \in 1..(n - 1) PROVE \E k \in 1..n : (a \o b)[j] = chan[k]
    OBVIOUS
  <2>1. CASE j <= i - 1
    <3>1. j \in 1..(i - 1) /\ j \in 1..n
      BY <2>1, <1>1
    <3>2. QED
      BY <2>1, <3>1, <1>2, <1>5
  <2>2. CASE ~ (j <= i - 1)
    <3>1. j - (i - 1) \in 1..(n - i) /\ i + (j - (i - 1)) = j + 1 /\ j + 1 \in 1..n
      BY <2>2, <1>1
    <3>2. (a \o b)[j] = chan[j + 1]
      BY <2>2, <3>1, <1>3, <1>5
    <3>3. QED
      BY <3>1, <3>2
  <2>3. QED
    BY <2>1, <2>2
<1>7. Flying(a \o b) \subseteq Flying(chan)
  <2>1. \A j \in 1..(n - 1) : (a \o b)[j] \in Flying(chan)
    BY <1>1, <1>6 DEF Flying
  <2>2. QED
    BY <2>1, <1>5 DEF Flying
<1>8. QED
  BY <1>1, <1>4, <1>5, <1>7

-----------------------------------------------------------------------------
(* Most steps put nothing into flight, take tasks only further and keep or *)
(* forget the session.                                                     *)

LEMMA Calm ==
  ASSUME LogInv,
         uav' \in Uavs,
         uav'.clock = uav.clock, uav'.key = uav.key,
         net' \in Seq(Telemetries \cup Sums),
         Flying(net') \subseteq Flying(net),
         session' \in {0, session}, last_ts' \in Nat, session' = 0 \/ last_ts' = last_ts,
         logged' = logged,
         TaskTyped(task'),
         \A u \in Slots : Carries(task', u) => Carries(task, u) /\ task'[u].pkt = task[u].pkt
  PROVE  LogInv'
<1>1. Typed'
  BY DEF LogInv, Typed
<1>2. \A ts : Used(task', logged', ts) => Used(task, logged, ts)
  BY DEF Used
<1>3. Past'
  BY <1>2 DEF LogInv, Past
<1>4. Single'
  BY DEF LogInv, Single
<1>5. Fresh'
  BY <1>2 DEF LogInv, Fresh
<1>6. QED
  BY <1>1, <1>3, <1>4, <1>5 DEF LogInv

\* A task that goes on with its packet, from x to y, or ends.
LEMMA Further ==
  ASSUME TaskTyped(task), NEW t \in Slots, NEW pc,
         task[t].pc # "idle",
         pc \in {"log", "stats", "expect", "store"} => ~ task[t].pkt.fec,
         pc \in {"range", "state", "own", "log"} => task[t].pc \in {"range", "state", "own", "log"},
         GoTo(t, pc) \/ End(t)
  PROVE  /\ TaskTyped(task')
         /\ \A u \in Slots :
              Carries(task', u) => Carries(task, u) /\ task'[u].pkt = task[u].pkt
<1>1. CASE GoTo(t, pc)
  <2>1. DOMAIN task' = Slots /\ \A u \in Slots \ {t} : task'[u] = task[u]
    BY <1>1 DEF GoTo, TaskTyped
  <2>2. task'[t] = [task[t] EXCEPT !.pc = pc]
    BY <1>1 DEF GoTo, TaskTyped
  <2>3. DOMAIN task'[t] = DOMAIN task[t] /\ task'[t].pc = pc /\ task'[t].pkt = task[t].pkt
    BY <2>2 DEF TaskTyped
  <2>4. QED
    BY <2>1, <2>3 DEF TaskTyped, Carries
<1>2. CASE End(t)
  <2>1. DOMAIN task' = Slots /\ \A u \in Slots \ {t} : task'[u] = task[u]
    BY <1>2 DEF End, TaskTyped
  <2>2. task'[t] = [pc |-> "idle"]
    BY <1>2 DEF End, Idle, TaskTyped
  <2>3. "pc" \in DOMAIN task'[t] /\ task'[t].pc = "idle"
    BY <2>2
  <2>4. QED
    BY <2>1, <2>3 DEF TaskTyped, Carries
<1>3. QED
  BY <1>1, <1>2

LEMMA CalmTask ==
  ASSUME LogInv, UNCHANGED <<uav, net, session, last_ts, logged>>,
         TaskTyped(task'),
         \A u \in Slots : Carries(task', u) => Carries(task, u) /\ task'[u].pkt = task[u].pkt
  PROVE  LogInv'
<1>1. /\ uav \in Uavs
      /\ net \in Seq(Telemetries \cup Sums) /\ last_ts \in Nat
  BY DEF LogInv, Typed
<1>2. QED
  BY <1>1, Calm

\* The steps of a task between its arrival and the log, and behind the log.
LEMMA TaskSteps ==
  ASSUME LogInv, NEW t \in Slots,
         \/ EvaluateLinkGate(t) \/ ReadState(t) \/ Own(t) \/ FecStats(t) \/ FecClear(t)
         \/ UpdateCounters(t) \/ UpdateExpected(t) \/ StoreInWindow(t) \/ TaskFails(t)
  PROVE  LogInv'
<1>0. TaskTyped(task)
  BY DEF LogInv, Typed
<1>1. CASE EvaluateLinkGate(t)
  <2>1. (GoTo(t, "state") \/ End(t)) /\ task[t].pc = "range"
    BY <1>1 DEF EvaluateLinkGate, At
  <2>2. QED
    BY <1>0, <1>1, <2>1, Further, CalmTask DEF EvaluateLinkGate, historyVars
<1>2. CASE ReadState(t)
  <2>1. task[t].pc = "state" /\ task' = [task EXCEPT ![t] = [pc |-> "own", pkt |-> task[t].pkt,
                                  expected |-> hash'.expected, lost |-> hash'.lost]]
    BY <1>2 DEF ReadState, At
  <2>2. /\ DOMAIN task' = Slots /\ \A u \in Slots \ {t} : task'[u] = task[u]
        /\ task'[t] = [pc |-> "own", pkt |-> task[t].pkt,
                       expected |-> hash'.expected, lost |-> hash'.lost]
    BY <1>0, <2>1 DEF TaskTyped
  <2>3. "pc" \in DOMAIN task'[t] /\ "pkt" \in DOMAIN task'[t]
        /\ task'[t].pc = "own" /\ task'[t].pkt = task[t].pkt
    BY <2>2
  <2>4. TaskTyped(task')
    BY <1>0, <2>1, <2>2, <2>3 DEF TaskTyped
  <2>5. \A u \in Slots : Carries(task', u) => Carries(task, u) /\ task'[u].pkt = task[u].pkt
    BY <2>1, <2>2, <2>3 DEF Carries
  <2>6. QED
    BY <1>2, <2>4, <2>5, CalmTask DEF ReadState, stationVars, historyVars
<1>3. CASE Own(t)
  <2>1. /\ task[t].pc = "own"
        /\ (~ task[t].pkt.fec /\ GoTo(t, "log")) \/ GoTo(t, "fecstats") \/ End(t)
    BY <1>3 DEF Own, At
  <2>2. QED
    BY <1>0, <1>3, <2>1, Further, CalmTask DEF Own
<1>4. CASE FecStats(t)
  <2>1. GoTo(t, "fecclear") /\ task[t].pc = "fecstats"
    BY <1>4 DEF FecStats, At
  <2>2. QED
    BY <1>0, <1>4, <2>1, Further, CalmTask DEF FecStats, stationVars, historyVars
<1>5. CASE FecClear(t)
  <2>1. End(t) /\ task[t].pc = "fecclear"
    BY <1>5 DEF FecClear, At
  <2>2. QED
    BY <1>0, <1>5, <2>1, Further, CalmTask DEF FecClear, historyVars
<1>6. CASE UpdateCounters(t)
  <2>1. GoTo(t, "expect") /\ task[t].pc = "stats" /\ ~ task[t].pkt.fec
    BY <1>0, <1>6 DEF UpdateCounters, At, TaskTyped
  <2>2. QED
    BY <1>0, <1>6, <2>1, Further, CalmTask DEF UpdateCounters, stationVars, historyVars
<1>7. CASE UpdateExpected(t)
  <2>1. GoTo(t, "store") /\ task[t].pc = "expect" /\ ~ task[t].pkt.fec
    BY <1>0, <1>7 DEF UpdateExpected, At, TaskTyped
  <2>2. QED
    BY <1>0, <1>7, <2>1, Further, CalmTask DEF UpdateExpected, stationVars, historyVars
<1>8. CASE StoreInWindow(t)
  <2>1. End(t) /\ task[t].pc = "store"
    BY <1>8 DEF StoreInWindow, At
  <2>2. QED
    BY <1>0, <1>8, <2>1, Further, CalmTask DEF StoreInWindow, historyVars
<1>9. CASE TaskFails(t)
  <2>1. \/ task[t].pc \in {"state", "own"} /\ End(t)
        \/ task[t].pc \in {"stats", "expect"} /\ ~ task[t].pkt.fec /\ GoTo(t, "store")
        \/ task[t].pc = "fecstats" /\ GoTo(t, "fecclear")
    BY <1>0, <1>9 DEF TaskFails, At, TaskTyped
  <2>2. UNCHANGED <<uav, net, session, last_ts, logged>>
    BY <1>9 DEF TaskFails, stationVars
  <2>3. QED
    BY <1>0, <2>1, <2>2, Further, CalmTask
<1>10. QED
  BY <1>1, <1>2, <1>3, <1>4, <1>5, <1>6, <1>7, <1>8, <1>9

-----------------------------------------------------------------------------
(* Arrival and log.                                                        *)

LEMMA ArriveStep ==
  ASSUME LogInv, NEW t \in Slots, Arrive(t)
  PROVE  LogInv'
<1> DEFINE pkt == Head(net)
<1>1. /\ net \in Seq(Telemetries \cup Sums) /\ net # <<>> /\ net' = Tail(net)
      /\ task[t].pc = "idle" /\ TaskTyped(task)
      /\ UNCHANGED <<session, logged>>
  BY DEF LogInv, Typed, Arrive, At
<1>2. /\ net' \in Seq(Telemetries \cup Sums)
      /\ Flying(net') \subseteq Flying(net)
      /\ pkt \in Flying(net) /\ pkt \in Telemetries \cup Sums
  BY <1>1, FlyingTail, FlyingTyped
<1>3. CASE UNCHANGED <<task, last_ts>>
  <2>1. /\ uav' \in Uavs
        /\ uav'.clock = uav.clock /\ uav'.key = uav.key
    <3>1. uav' = uav \/ uav' = [uav EXCEPT !.secure = FALSE]
      BY DEF Arrive, Accept
    <3>2. QED
      BY <3>1, UavMoved DEF LogInv, Typed
  <2>2. last_ts' \in Nat
    BY <1>3 DEF LogInv, Typed
  <2>3. QED
    BY <1>1, <1>2, <1>3, <2>1, <2>2, Calm
<1>4. CASE Accept(t, pkt)
  <2>1. /\ uav' = uav /\ DOMAIN task' = Slots
        /\ \A u \in Slots \ {t} : task'[u] = task[u]
        /\ task'[t] = [pc |-> "range", pkt |-> pkt]
    BY <1>1, <1>4 DEF Accept, TaskTyped
  <2>2. /\ "pc" \in DOMAIN task'[t] /\ "pkt" \in DOMAIN task'[t]
        /\ task'[t].pc = "range" /\ task'[t].pkt = pkt
    BY <2>1
  <2>3. TaskTyped(task')
    BY <1>1, <1>2, <2>1, <2>2 DEF TaskTyped
  <2>4. CASE pkt.fec /\ last_ts' = last_ts
    <3>1. \A u \in Slots : Carries(task', u) => Carries(task, u) /\ task'[u].pkt = task[u].pkt
      BY <2>1, <2>2, <2>4 DEF Carries
    <3>2. /\ uav' \in Uavs
          /\ last_ts' \in Nat
      BY <2>1, <2>4 DEF LogInv, Typed
    <3>3. QED
      BY <1>1, <1>2, <2>1, <2>3, <2>4, <3>1, <3>2, Calm
  <2>5. CASE /\ ~ pkt.fec /\ last_ts' = pkt.ts
             /\ session # 0 /\ session = pkt.key /\ ~ (pkt.ts <= last_ts)
    <3>1. pkt \in Telemetries /\ pkt.ts \in Clocks /\ pkt.ts \in Nat /\ last_ts \in Nat /\ pkt.ts > last_ts
      <4>1. pkt \in Telemetries /\ pkt.ts \in Clocks /\ pkt.ts \in Nat
        BY <1>2, <2>5, Kinds
      <4>2. last_ts \in Nat
        BY DEF LogInv, Typed
      <4>3. QED
        BY <2>5, <4>1, <4>2
    <3>2. ~ Used(task, logged, pkt.ts) /\ pkt.ts <= uav.clock
      BY <1>2, <2>5, <3>1 DEF LogInv, Fresh, Past
    <3>3. \A u \in Slots : Carries(task', u) <=> u = t \/ (u # t /\ Carries(task, u))
      BY <2>1, <2>2, <2>5 DEF Carries
    <3>4. \A u \in Slots : u # t => task'[u].pkt = task[u].pkt
      BY <2>1
    <3>5. \A ts : Used(task', logged', ts) => Used(task, logged, ts) \/ ts = pkt.ts
      BY <1>1, <2>2, <3>3, <3>4 DEF Used
    <3>6. Typed'
      BY <1>1, <1>2, <2>1, <2>3, <2>5, <3>1 DEF LogInv, Typed
    <3>7. Past'
      BY <1>2, <2>1, <3>2, <3>5 DEF LogInv, Past
    <3>8. Single'
      <4>1. logged[pkt.ts] = 0
        BY <3>1, <3>2 DEF Used, LogInv, Typed
      <4>2. \A u \in Slots : Carries(task, u) => task[u].pkt.ts # pkt.ts
        BY <3>2 DEF Used
      <4>3. QED
        BY <1>1, <2>2, <3>3, <3>4, <4>1, <4>2 DEF LogInv, Single
    <3>9. Fresh'
      <4>1. \A p \in Flying(net') : ~ p.fec => p.ts \in Nat
        <5> SUFFICES ASSUME NEW p \in Flying(net'), ~ p.fec PROVE p.ts \in Nat
          OBVIOUS
        <5>1. p \in Telemetries \cup Sums
          BY <1>2, FlyingTyped
        <5>2. QED
          BY <5>1, Kinds
      <4>2. QED
        BY <1>1, <1>2, <2>5, <3>1, <3>5, <4>1 DEF LogInv, Fresh
    <3>10. QED
      BY <3>6, <3>7, <3>8, <3>9 DEF LogInv
  <2>6. QED
    <3>1. \/ UNCHANGED <<task, last_ts>>
          \/ pkt.fec /\ last_ts' = last_ts
          \/ /\ ~ pkt.fec /\ last_ts' = pkt.ts
             /\ session # 0 /\ session = pkt.key /\ ~ (pkt.ts <= last_ts)
      BY DEF Arrive
    <3>2. QED
      BY <3>1, <1>3, <2>4, <2>5
<1>5. QED
  <2>1. UNCHANGED <<task, last_ts>> \/ Accept(t, pkt)
    BY DEF Arrive
  <2>2. QED
    BY <2>1, <1>3, <1>4

LEMMA LogStep ==
  ASSUME LogInv, NEW t \in Slots, LogPacket(t)
  PROVE  LogInv'
<1> DEFINE pkt == task[t].pkt
           upd == CountLosses(task[t].expected, pkt.seq, resync, task[t].lost)
<1>1. /\ task[t].pc = "log" /\ TaskTyped(task) /\ pkt \in Telemetries \cup Sums
      /\ logged' = [logged EXCEPT ![pkt.ts] = @ + 1]
      /\ task' = [task EXCEPT ![t] = [pc |-> "stats", pkt |-> pkt, upd |-> upd]]
      /\ UNCHANGED <<uav, net, session, last_ts>>
  BY DEF LogInv, Typed, TaskTyped, LogPacket, At
<1> HIDE DEF upd
<1>2. /\ DOMAIN task' = Slots /\ \A u \in Slots \ {t} : task'[u] = task[u]
      /\ task'[t] = [pc |-> "stats", pkt |-> pkt, upd |-> upd]
  BY <1>1 DEF TaskTyped
<1>3. "pc" \in DOMAIN task'[t] /\ "pkt" \in DOMAIN task'[t]
      /\ task'[t].pc = "stats" /\ task'[t].pkt = pkt
  BY <1>2
<1>4. TaskTyped(task')
  BY <1>1, <1>2, <1>3 DEF TaskTyped
<1>5. \A u \in Slots : Carries(task', u) <=> u # t /\ Carries(task, u)
  BY <1>2, <1>3 DEF Carries
<1>6. \A u \in Slots : u # t => task'[u].pkt = task[u].pkt
  BY <1>2
<1>7. CASE pkt.fec
  BY <1>1, <1>7 DEF TaskTyped
<1>8. CASE ~ pkt.fec
  <2>1. pkt.ts \in Clocks /\ Carries(task, t)
    BY <1>1, <1>8, Kinds DEF Carries
  <2>2. logged \in [Clocks -> Nat] /\ logged[pkt.ts] = 0
    BY <2>1 DEF LogInv, Typed, Single
  <2>3. /\ logged' \in [Clocks -> Nat]
        /\ logged'[pkt.ts] = 1
        /\ \A ts \in Clocks : ts # pkt.ts => logged'[ts] = logged[ts]
    BY <1>1, <2>1, <2>2
  <2>4. \A ts \in Clocks : Used(task', logged', ts) => Used(task, logged, ts)
    BY <1>5, <1>6, <2>1, <2>3 DEF Used
  <2>5. Typed'
    BY <1>1, <1>4, <2>3 DEF LogInv, Typed
  <2>6. Past'
    BY <1>1, <2>4 DEF LogInv, Past
  <2>7. \A u \in Slots : Carries(task', u) => task'[u].pkt.ts \in Clocks /\ task'[u].pkt.ts # pkt.ts
    <3> SUFFICES ASSUME NEW u \in Slots, Carries(task', u)
                 PROVE  task'[u].pkt.ts \in Clocks /\ task'[u].pkt.ts # pkt.ts
      OBVIOUS
    <3>1. u # t /\ Carries(task, u) /\ task'[u].pkt = task[u].pkt
      BY <1>5, <1>6
    <3>2. task[u].pkt \in Telemetries \cup Sums /\ ~ task[u].pkt.fec
      BY <1>1, <3>1 DEF TaskTyped, Carries
    <3>3. task[u].pkt.ts \in Clocks
      BY <3>2, Kinds
    <3>4. QED
      BY <2>1, <3>1, <3>3 DEF LogInv, Single
  <2>8. Single'
    BY <1>5, <1>6, <2>3, <2>7 DEF LogInv, Single
  <2>9. Fresh'
    <3> SUFFICES ASSUME session # 0, NEW p \in Flying(net), ~ p.fec, p.key = session, p.ts > last_ts
                 PROVE  ~ Used(task', logged', p.ts)
      BY <1>1 DEF Fresh
    <3>1. p \in Telemetries \cup Sums
      BY FlyingTyped DEF LogInv, Typed
    <3>2. p.ts \in Clocks
      BY <3>1, Kinds
    <3>3. QED
      BY <2>4, <3>2 DEF LogInv, Fresh
  <2>10. QED
    BY <2>5, <2>6, <2>8, <2>9 DEF LogInv
<1>9. QED
  BY <1>7, <1>8

-----------------------------------------------------------------------------
(* The UAV, the network, closings and restarts.                            *)

LEMMA HandshakeStep == LogInv /\ Handshake => LogInv'
<1> SUFFICES ASSUME LogInv, Handshake PROVE LogInv'
  OBVIOUS
<1>1. /\ uav' = [uav EXCEPT !.secure = TRUE, !.key = @ + 1]
      /\ session' = uav.key + 1
      /\ UNCHANGED <<net, last_ts, task, logged>>
  BY DEF Handshake, historyVars
<1>2. /\ uav' \in Uavs
      /\ uav'.clock = uav.clock /\ uav'.key = uav.key + 1 /\ uav.key \in Nat
  <2>1. uav \in Uavs /\ uav.key \in Nat /\ uav.key + 1 \in Nat
    BY UavTyped DEF LogInv, Typed
  <2>2. uav' = [uav EXCEPT !.secure = TRUE, !.key = uav.key + 1]
    BY <1>1
  <2>3. QED
    BY <2>1, <2>2, UavKeyed
<1>3. Typed'
  BY <1>1, <1>2 DEF LogInv, Typed
<1>4. \A p \in Flying(net) : ~ p.fec => p.key \in Nat /\ p.key <= uav.key /\ p.ts <= uav.clock
  <2> SUFFICES ASSUME NEW p \in Flying(net), ~ p.fec
               PROVE  p.key \in Nat /\ p.key <= uav.key /\ p.ts <= uav.clock
    OBVIOUS
  <2>1. p \in Telemetries \cup Sums
    BY FlyingTyped DEF LogInv, Typed
  <2>2. QED
    BY <2>1, Kinds DEF LogInv, Past
<1>5. Past' /\ Fresh'
  BY <1>1, <1>2, <1>4 DEF LogInv, Past, Fresh
<1>6. Single'
  BY <1>1 DEF LogInv, Single
<1>7. QED
  BY <1>3, <1>5, <1>6 DEF LogInv

\* What the UAV sends has its number, its new clock and its key.
LEMMA Launch ==
  ASSUME LogInv, SendTelemetry
  PROVE  /\ net' \in Seq(Telemetries \cup Sums)
         /\ uav' \in Uavs /\ uav.clock + 1 \in Clocks
         /\ uav'.clock = uav.clock + 1 /\ uav'.seq = uav.seq + 1 /\ uav'.key = uav.key
         /\ \A p \in Flying(net') : ~ p.fec =>
              \/ p \in Flying(net)
              \/ p.seq = uav.seq /\ p.ts = uav.clock + 1 /\ p.key = uav.key
<1> DEFINE ts == uav.clock + 1
           pkt == [fec |-> FALSE, seq |-> uav.seq, ts |-> ts, key |-> uav.key, near |-> uav.near]
           buf == IF Priority(uav.seq) THEN Append(uav.fec_buffer, ts) ELSE uav.fec_buffer
           sum == [fec |-> TRUE, of |-> ToSet(buf), key |-> uav.key, near |-> uav.near]
<1>1. /\ net' = IF Len(buf) = 3 THEN net \o <<pkt, sum>> ELSE Append(net, pkt)
      /\ uav' = [uav EXCEPT !.seq = @ + 1, !.clock = ts, !.fec_buffer = BufferAfterFec(buf)]
      /\ uav.clock < MaxClock
  BY DEF SendTelemetry
<1>2. uav \in Uavs
  BY DEF LogInv, Typed
<1>3. /\ ts \in Clocks /\ ts \in Nat
      /\ {uav.seq, uav.clock, uav.key} \subseteq Nat /\ uav.near \in BOOLEAN
      /\ uav.fec_buffer \in Seq(Clocks)
  BY <1>1, <1>2, UavTyped DEF Clocks
<1>4. buf \in Seq(Clocks) /\ ToSet(buf) \subseteq Clocks
  <2>1. buf \in Seq(Clocks)
    BY <1>3
  <2>2. QED
    BY <2>1 DEF ToSet
<1>5. pkt \in Telemetries /\ sum \in Sums
  BY <1>3, <1>4 DEF Telemetries, Sums
<1>6. /\ uav' \in Uavs
      /\ uav'.clock = ts /\ uav'.seq = uav.seq + 1 /\ uav'.key = uav.key
  <2> DEFINE n == uav.seq + 1
             b == BufferAfterFec(buf)
  <2>1. b \in Seq(Clocks)
    BY <1>4 DEF BufferAfterFec
  <2>2. uav' = [uav EXCEPT !.seq = n, !.clock = ts, !.fec_buffer = b]
    BY <1>1
  <2>3. n \in Nat /\ ts \in Nat
    BY <1>3
  <2> HIDE DEF n, b, ts
  <2>4. /\ [uav EXCEPT !.seq = n, !.clock = ts, !.fec_buffer = b] \in Uavs
        /\ [uav EXCEPT !.seq = n, !.clock = ts, !.fec_buffer = b].clock = ts
        /\ [uav EXCEPT !.seq = n, !.clock = ts, !.fec_buffer = b].seq = n
        /\ [uav EXCEPT !.seq = n, !.clock = ts, !.fec_buffer = b].key = uav.key
    BY <1>2, <2>1, <2>3 DEF Uavs
  <2>5. QED
    BY <2>2, <2>4 DEF n
<1>7. /\ pkt.fec = FALSE /\ sum.fec = TRUE
      /\ pkt.seq = uav.seq /\ pkt.ts = ts /\ pkt.key = uav.key
  OBVIOUS
<1> HIDE DEF pkt, buf, sum
<1>8. net' \in Seq(Telemetries \cup Sums) /\ Flying(net') \subseteq Flying(net) \cup {pkt, sum}
  <2>1. net \in Seq(Telemetries \cup Sums)
    BY DEF LogInv, Typed
  <2> DEFINE S == Telemetries \cup Sums
             one == Append(net, pkt)
  <2>2. net \in Seq(S) /\ pkt \in S /\ sum \in S
    BY <1>5, <2>1
  <2> HIDE DEF S
  <2>3. one \in Seq(S) /\ Flying(one) = Flying(net) \cup {pkt}
    BY <2>2, FlyingAppend
  <2>4. net \o <<pkt, sum>> = Append(one, sum)
    BY <2>2
  <2> HIDE DEF one
  <2>5. Append(one, sum) \in Seq(S) /\ Flying(Append(one, sum)) = Flying(one) \cup {sum}
    BY <2>2, <2>3, FlyingAppend
  <2>6. net' = one \/ net' = Append(one, sum)
    BY <1>1, <2>4 DEF one
  <2>7. net' \in Seq(S) /\ Flying(net') \subseteq Flying(net) \cup {pkt, sum}
    BY <2>3, <2>5, <2>6
  <2>8. QED
    BY <2>7 DEF S
<1>9. QED
  BY <1>3, <1>6, <1>7, <1>8

LEMMA SendStep == LogInv /\ SendTelemetry => LogInv'
<1> SUFFICES ASSUME LogInv, SendTelemetry PROVE LogInv'
  OBVIOUS
<1> DEFINE ts == uav.clock + 1
<1>1. UNCHANGED <<session, last_ts, task, logged>>
  BY DEF SendTelemetry, stationVars, historyVars
<1>2. /\ net' \in Seq(Telemetries \cup Sums)
      /\ uav' \in Uavs /\ ts \in Clocks
      /\ uav'.clock = ts /\ uav'.key = uav.key
      /\ \A p \in Flying(net') : ~ p.fec =>
           p \in Flying(net) \/ (p.ts = ts /\ p.key = uav.key)
  BY Launch
<1>3. {uav.clock, uav.key} \subseteq Nat /\ uav.clock < ts
  BY UavTyped DEF LogInv, Typed
<1>4. Typed'
  BY <1>1, <1>2 DEF LogInv, Typed
<1>5. \A x \in Clocks : Used(task', logged', x) => x <= uav.clock /\ x # ts
  <2>1. \A x \in Clocks : Used(task', logged', x) <=> Used(task, logged, x)
    BY <1>1 DEF Used
  <2>2. \A x \in Clocks : x \in Nat
    BY ClocksNat
  <2>3. QED
    BY <1>3, <2>1, <2>2 DEF LogInv, Past
<1>6. Past'
  <2>1. \A p \in Flying(net') : ~ p.fec => p.ts <= uav'.clock /\ p.key <= uav'.key
    <3> SUFFICES ASSUME NEW p \in Flying(net'), ~ p.fec
                 PROVE  p.ts <= uav'.clock /\ p.key <= uav'.key
      OBVIOUS
    <3>1. CASE p.ts = ts /\ p.key = uav.key
      BY <1>2, <1>3, <3>1
    <3>2. CASE p \in Flying(net)
      <4>1. p.ts \in Nat /\ p.ts <= uav.clock /\ p.key <= uav.key
        <5>1. p \in Telemetries \cup Sums
          BY <3>2, FlyingTyped DEF LogInv, Typed
        <5>2. QED
          BY <3>2, <5>1, Kinds DEF LogInv, Past
      <4>2. QED
        BY <1>2, <1>3, <4>1
    <3>3. QED
      BY <1>2, <3>1, <3>2
  <2>2. \A x \in Clocks : Used(task', logged', x) => x <= uav'.clock
    BY <1>2, <1>3, <1>5, ClocksNat
  <2>3. QED
    BY <2>1, <2>2 DEF Past
<1>7. Single'
  BY <1>1 DEF LogInv, Single
<1>8. Fresh'
  <2> SUFFICES ASSUME session # 0, NEW p \in Flying(net'), ~ p.fec, p.key = session, p.ts > last_ts
               PROVE  ~ Used(task', logged', p.ts)
    BY <1>1 DEF Fresh
  <2>1. CASE p.ts = ts
    BY <1>2, <1>5, <2>1
  <2>2. CASE p \in Flying(net)
    BY <1>1, <2>2 DEF LogInv, Fresh
  <2>3. QED
    BY <1>2, <2>1, <2>2
<1>9. QED
  BY <1>4, <1>6, <1>7, <1>8 DEF LogInv

\* What the network does to the packets in flight puts none into flight.
LEMMA NetSteps ==
  ASSUME LogInv, Lose \/ Repeat \/ Delay
  PROVE  net' \in Seq(Telemetries \cup Sums) /\ Flying(net') \subseteq Flying(net)
<1>0. net \in Seq(Telemetries \cup Sums)
  BY DEF LogInv, Typed
<1>1. CASE Lose
  BY <1>0, <1>1, FlyingRemove DEF Lose
<1>2. CASE Repeat
  <2>1. PICK i \in 1..Len(net) : net' = Append(net, net[i])
    BY <1>2 DEF Repeat
  <2>2. net[i] \in Telemetries \cup Sums /\ net[i] \in Flying(net)
    BY <1>0 DEF Flying
  <2>3. QED
    BY <1>0, <2>1, <2>2, FlyingAppend
<1>3. CASE Delay
  <2>1. PICK i \in 1..(Len(net) - 1) : net' = Append(RemoveAt(net, i), net[i])
    BY <1>3 DEF Delay
  <2>2. i \in 1..Len(net)
    BY <1>0
  <2>3. net[i] \in Telemetries \cup Sums /\ net[i] \in Flying(net)
    BY <1>0, <2>2 DEF Flying
  <2>4. /\ RemoveAt(net, i) \in Seq(Telemetries \cup Sums)
        /\ Flying(RemoveAt(net, i)) \subseteq Flying(net)
    BY <1>0, <2>2, FlyingRemove
  <2>5. QED
    BY <2>1, <2>3, <2>4, FlyingAppend
<1>4. QED
  BY <1>1, <1>2, <1>3

LEMMA WorldStep ==
  LogInv /\ (CloseSession \/ Forget \/ GksRestart \/ UavRestart \/ Move \/ Lose \/ Repeat \/ Delay)
    => LogInv'
<1> SUFFICES ASSUME LogInv,
                    CloseSession \/ Forget \/ GksRestart \/ UavRestart \/ Move
                      \/ Lose \/ Repeat \/ Delay
             PROVE  LogInv'
  OBVIOUS
<1>0. /\ uav \in Uavs
      /\ net \in Seq(Telemetries \cup Sums) /\ last_ts \in Nat /\ TaskTyped(task)
  BY DEF LogInv, Typed
<1>1. CASE CloseSession
  BY <1>0, <1>1, CalmTask DEF CloseSession
<1>2. CASE Forget
  BY <1>0, <1>2, Calm DEF Forget, historyVars
<1>3. CASE GksRestart
  <2>1. TaskTyped(task') /\ \A u \in Slots : ~ Carries(task', u)
    BY <1>3 DEF GksRestart, TaskTyped, Carries, Idle
  <2>2. QED
    BY <1>0, <1>3, <2>1, Calm DEF GksRestart
<1>4. CASE UavRestart
  <2>1. /\ uav' \in Uavs
        /\ uav'.clock = uav.clock /\ uav'.key = uav.key
    <3>1. <<>> \in Seq(Clocks)
      OBVIOUS
    <3>2. QED
      BY <1>0, <1>4, <3>1, UavRestarted DEF UavRestart
  <2>2. QED
    BY <1>0, <1>4, <2>1, Calm DEF UavRestart, stationVars, historyVars
<1>5. CASE Move
  <2>1. /\ uav' \in Uavs
        /\ uav'.clock = uav.clock /\ uav'.key = uav.key
    <3>1. uav' = [uav EXCEPT !.near = ~ uav.near] /\ (~ uav.near) \in BOOLEAN
      BY <1>5 DEF Move
    <3>2. QED
      BY <1>0, <3>1, UavMoved
  <2>2. QED
    BY <1>0, <1>5, <2>1, Calm DEF Move, stationVars, historyVars
<1>6. CASE Lose \/ Repeat \/ Delay
  <2>1. net' \in Seq(Telemetries \cup Sums) /\ Flying(net') \subseteq Flying(net)
    BY <1>6, NetSteps
  <2>2. UNCHANGED <<uav, session, last_ts, task, logged>>
    BY <1>6 DEF Lose, Repeat, Delay, stationVars, historyVars
  <2>3. QED
    BY <1>0, <2>1, <2>2, Calm
<1>7. QED
  BY <1>1, <1>2, <1>3, <1>4, <1>5, <1>6

-----------------------------------------------------------------------------
LEMMA LogStarts == Init => LogInv
<1> SUFFICES ASSUME Init PROVE LogInv
  OBVIOUS
<1>1. /\ uav = [seq |-> 1, clock |-> 0, key |-> 0, secure |-> FALSE, near |-> TRUE,
                fec_buffer |-> <<>>]
      /\ net = <<>> /\ session = 0 /\ last_ts = 0
      /\ task = [t \in Slots |-> Idle]
      /\ logged = [ts \in Clocks |-> 0]
  BY DEF Init
<1>2. TaskTyped(task) /\ \A u \in Slots : ~ Carries(task, u)
  BY <1>1 DEF TaskTyped, Carries, Idle
<1>3. Typed
  <2>1. uav \in Uavs /\ uav.key = 0
    BY <1>1 DEF Uavs
  <2>2. net \in Seq(Telemetries \cup Sums)
    BY <1>1
  <2>3. QED
    BY <1>1, <1>2, <2>1, <2>2 DEF Typed
<1>4. Flying(net) = {} /\ \A ts \in Clocks : ~ Used(task, logged, ts)
  BY <1>1, <1>2 DEF Flying, Used
<1>5. Past /\ Single /\ Fresh
  BY <1>1, <1>2, <1>4 DEF Past, Single, Fresh
<1>6. QED
  BY <1>3, <1>5 DEF LogInv

LEMMA LogSteps == LogInv /\ [Next]_vars => LogInv'
<1> SUFFICES ASSUME LogInv, [Next]_vars PROVE LogInv'
  OBVIOUS
<1>1. CASE Handshake \/ SendTelemetry
  BY <1>1, HandshakeStep, SendStep
<1>2. CASE \E t \in Slots : TaskStep(t) \/ TaskFails(t)
  BY <1>2, TaskSteps, ArriveStep, LogStep DEF TaskStep
<1>3. CASE CloseSession \/ Forget \/ GksRestart \/ UavRestart \/ Move \/ Lose \/ Repeat \/ Delay
  BY <1>3, WorldStep
<1>4. CASE UNCHANGED vars
  BY <1>4 DEF vars, stationVars, historyVars, LogInv, Typed, Past, Single, Fresh
<1>5. QED
  BY <1>1, <1>2, <1>3, <1>4 DEF Next

\* Every telemetry packet is logged at most once, whatever is lost, repeated,
\* delayed, closed, restarted or handled at the same time (server.py:537-543).
THEOREM PacketsLoggedOnce == Spec => []LoggedOnce
<1>1. LogInv => LoggedOnce
  BY DEF LogInv, Single, LoggedOnce
<1>2. QED
  BY <1>1, LogStarts, LogSteps, PTL DEF Spec

-----------------------------------------------------------------------------
(* The ledger, as long as telemetry tasks do not overlap.  A hash that is   *)
(* not there counts as the empty one that an update would write to, so that *)
(* every update is an addition to the same ledger.                          *)

Updates == [next : Nat, lost : Int, skipped : Int, undone : Int, recovered : Nat, first : BOOLEAN]

Ledger(h) == h.received + h.lost + h.undone + h.skipped

\* A telemetry packet is in work in task u.
Working(tk, u) == tk[u].pc # "idle" /\ ~ tk[u].pkt.fec

\* What the fields of a task are at each position of a telemetry task.
TaskFields(tk, u) ==
  /\ tk[u].pc \in {"own", "log"} => "expected" \in DOMAIN tk[u] /\ tk[u].expected \in Nat
  /\ tk[u].pc \in {"stats", "expect"} => "upd" \in DOMAIN tk[u] /\ tk[u].upd \in Updates

\* An update that moves the expected number from e accounts for what it skips.
Fits(e, s, upd) ==
  LET inc == upd.lost + upd.undone + upd.skipped
  IN  /\ inc >= 0
      /\ e = 0 => upd.first /\ upd.next = s + 1
      /\ e # 0 => ~ upd.first /\ upd.next <= e + inc + 1

Balanced(h) ==
  /\ Ledger(h) >= 0
  /\ h.expected # 0 => Ledger(h) >= h.expected - h.base

\* What task u has read, or is about to write, agrees with the hash h.
InStep(tk, u, h) ==
  /\ tk[u].pc \in {"own", "log"} => tk[u].expected = h.expected
  /\ tk[u].pc = "stats" => Fits(h.expected, tk[u].pkt.seq, tk[u].upd)
  /\ tk[u].pc = "expect" =>
       /\ tk[u].upd.first => tk[u].upd.next = tk[u].pkt.seq + 1 /\ Ledger(h) >= 1
       /\ ~ tk[u].upd.first => Ledger(h) >= tk[u].upd.next - h.base

GapInv ==
  /\ hash = None \/ hash \in Hashes
  /\ resync \in BOOLEAN
  /\ \A u \in Slots : TaskFields(task, u)
  /\ ~ overlapped =>
       /\ Balanced(Touched)
       /\ \A u, v \in Slots : Working(task, u) /\ Working(task, v) => u = v
       /\ \A u \in Slots : Working(task, u) => InStep(task, u, Touched)

LEMMA CountFits ==
  ASSUME NEW e \in Nat, NEW s \in Nat, NEW sync \in BOOLEAN, NEW known
  PROVE  /\ CountLosses(e, s, sync, known) \in Updates
         /\ Fits(e, s, CountLosses(e, s, sync, known))
<1> DEFINE undone == IF (e # 0 /\ s < e /\ Priority(s)) /\ known > 0 THEN 1 ELSE 0
           next == IF e = 0 \/ s >= e THEN s + 1 ELSE e
           lost == IF e # 0 /\ s > e /\ ~ sync THEN s - e ELSE 0 - undone
           skipped == IF e # 0 /\ s > e /\ sync THEN s - e ELSE 0
           recovered == IF e # 0 /\ s < e /\ Priority(s) THEN 1 ELSE 0
<1>1. CountLosses(e, s, sync, known) =
        [next |-> next, lost |-> lost, skipped |-> skipped, undone |-> undone,
         recovered |-> recovered, first |-> e = 0]
  BY DEF CountLosses
<1>2. undone \in {0, 1} /\ (s >= e => undone = 0) /\ recovered \in {0, 1}
  OBVIOUS
<1> HIDE DEF undone, recovered
<1>3. next \in Nat /\ lost \in Int /\ skipped \in Int /\ undone \in Int /\ recovered \in Nat
  BY <1>2
<1>4. /\ lost + undone + skipped >= 0
      /\ e = 0 => next = s + 1
      /\ e # 0 => next <= e + (lost + undone + skipped) + 1
  BY <1>2
<1> HIDE DEF next, lost, skipped
<1> DEFINE upd == [next |-> next, lost |-> lost, skipped |-> skipped, undone |-> undone,
                   recovered |-> recovered, first |-> e = 0]
<1>5. upd \in Updates
  <2>1. (e = 0) \in BOOLEAN
    OBVIOUS
  <2>2. QED
    BY <1>3, <2>1 DEF Updates
<1>6. /\ upd.next = next /\ upd.lost = lost /\ upd.skipped = skipped /\ upd.undone = undone
      /\ upd.first = (e = 0)
  OBVIOUS
<1> HIDE DEF upd
<1>7. Fits(e, s, upd)
  BY <1>4, <1>6 DEF Fits
<1>8. QED
  BY <1>1, <1>5, <1>7 DEF upd

LEMMA TouchedTyped ==
  ASSUME hash = None \/ hash \in Hashes
  PROVE  Touched \in Hashes
BY DEF Touched, NoSession, Hashes

LEMMA EmptyBalanced ==
  /\ NoSession \in Hashes /\ NewSession \in Hashes
  /\ \A h \in {NoSession, NewSession} : h.expected = 0 /\ h.base = 0 /\ Ledger(h) = 0 /\ Balanced(h)
<1>1. NoSession \in Hashes
  BY DEF NoSession, Hashes
<1>2. \A h \in Hashes : /\ [h EXCEPT !.session = TRUE] \in Hashes
                       /\ [h EXCEPT !.session = TRUE].expected = h.expected
                       /\ [h EXCEPT !.session = TRUE].base = h.base
                       /\ [h EXCEPT !.session = TRUE].received = h.received
                       /\ [h EXCEPT !.session = TRUE].lost = h.lost
                       /\ [h EXCEPT !.session = TRUE].undone = h.undone
                       /\ [h EXCEPT !.session = TRUE].skipped = h.skipped
  BY DEF Hashes
<1>3. /\ NoSession.expected = 0 /\ NoSession.base = 0 /\ NoSession.received = 0
      /\ NoSession.lost = 0 /\ NoSession.undone = 0 /\ NoSession.skipped = 0
  BY DEF NoSession
<1>4. /\ NewSession \in Hashes
      /\ NewSession.expected = 0 /\ NewSession.base = 0 /\ NewSession.received = 0
      /\ NewSession.lost = 0 /\ NewSession.undone = 0 /\ NewSession.skipped = 0
  BY <1>1, <1>2, <1>3 DEF NewSession
<1>5. QED
  BY <1>1, <1>3, <1>4 DEF Ledger, Balanced

\* A ledger that only grows, for the same expected number, serves as well.
LEMMA GrownLedger ==
  ASSUME NEW g \in Hashes, NEW h \in Hashes, NEW tk,
         Ledger(g) >= Ledger(h), g.expected = h.expected, g.base = h.base,
         \A u \in Slots : TaskFields(tk, u)
  PROVE  /\ Balanced(h) => Balanced(g)
         /\ \A u \in Slots : InStep(tk, u, h) => InStep(tk, u, g)
<1>1. /\ Ledger(g) \in Int /\ Ledger(h) \in Int /\ g.base \in Int /\ g.expected \in Nat
  BY DEF Hashes, Ledger
<1>2. Balanced(h) => Balanced(g)
  BY <1>1 DEF Balanced
<1>3. ASSUME NEW u \in Slots, InStep(tk, u, h) PROVE InStep(tk, u, g)
  <2>1. tk[u].pc = "expect" => tk[u].upd.next \in Nat
    BY DEF TaskFields, Updates
  <2>2. QED
    BY <1>1, <1>3, <2>1 DEF InStep
<1>4. QED
  BY <1>2, <1>3

LEMMA GoToMeans ==
  ASSUME TaskTyped(task), NEW t \in Slots, NEW pc, GoTo(t, pc)
  PROVE  /\ \A u \in Slots : u # t => task'[u] = task[u]
         /\ task'[t].pc = pc /\ DOMAIN task'[t] = DOMAIN task[t]
         /\ \A x \in DOMAIN task[t] : x # "pc" => task'[t][x] = task[t][x]
<1>1. task'[t] = [task[t] EXCEPT !.pc = pc] /\ \A u \in Slots : u # t => task'[u] = task[u]
  BY DEF GoTo, TaskTyped
<1>2. QED
  BY <1>1 DEF TaskTyped

LEMMA EndMeans ==
  ASSUME TaskTyped(task), NEW t \in Slots, End(t)
  PROVE  /\ \A u \in Slots : u # t => task'[u] = task[u]
         /\ task'[t].pc = "idle"
BY DEF End, Idle, TaskTyped

\* Steps that leave the ledger as it is, or let it grow, and take one task to a
\* position at which it owes nothing new.
LEMMA GapCalm ==
  ASSUME LogInv, GapInv, NEW t \in Slots,
         hash' = None \/ hash' \in Hashes, resync' \in BOOLEAN, overlapped' = overlapped,
         Touched'.expected = Touched.expected, Touched'.base = Touched.base,
         ~ overlapped => Ledger(Touched') >= Ledger(Touched),
         \/ End(t)
         \/ /\ task[t].pc # "idle"
            /\ \/ GoTo(t, "state") \/ GoTo(t, "fecstats") \/ GoTo(t, "fecclear") \/ GoTo(t, "store")
               \/ task[t].pc = "own" /\ GoTo(t, "log")
  PROVE  GapInv'
<1>1. TaskTyped(task)
  BY DEF LogInv, Typed
<1>2. \A u \in Slots : u # t => task'[u] = task[u]
  BY <1>1, GoToMeans, EndMeans
<1>3. \/ task'[t].pc = "idle"
      \/ /\ task'[t].pc \in {"state", "fecstats", "fecclear", "store"}
         /\ task[t].pc # "idle" /\ task'[t].pkt = task[t].pkt
      \/ /\ task'[t].pc = "log" /\ task[t].pc = "own"
         /\ task'[t].pkt = task[t].pkt /\ DOMAIN task'[t] = DOMAIN task[t]
         /\ task'[t].expected = task[t].expected
  <2>1. task[t].pc # "idle" => "pkt" \in DOMAIN task[t] /\ "pkt" # "pc"
    BY <1>1 DEF TaskTyped
  <2>2. task[t].pc = "own" => "expected" \in DOMAIN task[t] /\ "expected" # "pc"
    BY DEF GapInv, TaskFields
  <2>3. QED
    BY <1>1, <2>1, <2>2, GoToMeans, EndMeans
<1>4. \A u \in Slots : TaskFields(task', u)
  BY <1>2, <1>3 DEF GapInv, TaskFields
<1>5. \A u \in Slots : Working(task', u) => Working(task, u)
  BY <1>2, <1>3 DEF Working
<1>6. Touched \in Hashes /\ Touched' \in Hashes
  BY TouchedTyped DEF GapInv, Touched, NoSession, Hashes
<1>7. ASSUME ~ overlapped
      PROVE  Balanced(Touched') /\ \A u \in Slots : Working(task', u) => InStep(task', u, Touched')
  <2>1. Balanced(Touched')
    BY <1>6, <1>7, GrownLedger DEF GapInv
  <2>2. \A u \in Slots : Working(task, u) => InStep(task, u, Touched')
    BY <1>6, <1>7, GrownLedger DEF GapInv
  <2>3. ASSUME NEW u \in Slots, Working(task', u) PROVE InStep(task', u, Touched')
    <3>1. InStep(task, u, Touched')
      BY <1>5, <2>2, <2>3
    <3>2. QED
      BY <1>2, <1>3, <3>1 DEF InStep
  <2>4. QED
    BY <2>1, <2>3
<1>8. QED
  BY <1>4, <1>5, <1>7 DEF GapInv

\* A step of one task: either it is the one at work, or it leaves the others'
\* ledger serving them.
LEMMA GapTask ==
  ASSUME GapInv, NEW t \in Slots,
         \A u \in Slots : u # t => task'[u] = task[u],
         hash' = None \/ hash' \in Hashes, resync' \in BOOLEAN, overlapped' = overlapped,
         TaskFields(task', t),
         Working(task', t) => Working(task, t),
         ~ overlapped =>
           /\ Balanced(Touched')
           /\ Working(task', t) => InStep(task', t, Touched')
           /\ \/ Working(task, t)
              \/ /\ Ledger(Touched') >= Ledger(Touched)
                 /\ Touched'.expected = Touched.expected /\ Touched'.base = Touched.base
  PROVE  GapInv'
<1>1. \A u \in Slots : TaskFields(task', u)
  BY DEF GapInv, TaskFields
<1>2. \A u \in Slots : Working(task', u) => Working(task, u)
  BY DEF Working
<1>3. Touched \in Hashes /\ Touched' \in Hashes
  BY TouchedTyped DEF GapInv, Touched, NoSession, Hashes
<1>4. ASSUME ~ overlapped, NEW u \in Slots, Working(task', u)
      PROVE  InStep(task', u, Touched')
  <2>1. CASE u = t
    BY <1>4, <2>1
  <2>2. CASE u # t
    <3>1. task'[u] = task[u] /\ InStep(task, u, Touched) /\ ~ Working(task, t)
      BY <1>2, <1>4, <2>2 DEF GapInv
    <3>2. InStep(task, u, Touched')
      BY <1>3, <1>4, <3>1, GrownLedger DEF GapInv
    <3>3. QED
      BY <3>1, <3>2 DEF InStep
  <2>3. QED
    BY <2>1, <2>2
<1>5. QED
  BY <1>1, <1>2, <1>4 DEF GapInv

\* What the updates of the hash do to its ledger.
LEMMA Written ==
  ASSUME NEW h \in Hashes, NEW upd \in Updates
  PROVE  LET g == [h EXCEPT !.lost = @ + upd.lost, !.undone = @ + upd.undone,
                            !.skipped = @ + upd.skipped]
             c == [g EXCEPT !.received = @ + 1, !.recovered = @ + upd.recovered]
         IN  /\ g \in Hashes /\ g.expected = h.expected /\ g.base = h.base
             /\ Ledger(g) = Ledger(h) + upd.lost + upd.undone + upd.skipped
             /\ c \in Hashes /\ c.expected = h.expected /\ c.base = h.base
             /\ Ledger(c) = Ledger(h) + upd.lost + upd.undone + upd.skipped + 1
<1> DEFINE g == [h EXCEPT !.lost = @ + upd.lost, !.undone = @ + upd.undone,
                          !.skipped = @ + upd.skipped]
           c == [g EXCEPT !.received = @ + 1, !.recovered = @ + upd.recovered]
<1>1. /\ h.lost \in Int /\ h.undone \in Int /\ h.skipped \in Int /\ h.received \in Int
      /\ upd.lost \in Int /\ upd.undone \in Int /\ upd.skipped \in Int /\ upd.recovered \in Nat
  BY DEF Hashes, Updates
<1>2. /\ g.lost = h.lost + upd.lost /\ g.undone = h.undone + upd.undone
      /\ g.skipped = h.skipped + upd.skipped /\ g.received = h.received
      /\ g.expected = h.expected /\ g.base = h.base
  BY DEF Hashes
<1>3. h.lost + upd.lost \in Int /\ h.undone + upd.undone \in Int /\ h.skipped + upd.skipped \in Int
  BY <1>1
<1>4. g \in Hashes
  BY <1>3 DEF Hashes
<1> HIDE DEF g
<1>5. /\ c.lost = g.lost /\ c.undone = g.undone /\ c.skipped = g.skipped
      /\ c.received = g.received + 1 /\ c.expected = g.expected /\ c.base = g.base
  BY <1>4 DEF Hashes
<1>6. g.received + 1 \in Nat /\ g.recovered + upd.recovered \in Nat
  BY <1>1, <1>4 DEF Hashes
<1>7. c \in Hashes
  BY <1>4, <1>6 DEF Hashes
<1> HIDE DEF c
<1>8. QED
  <2>1. Ledger(g) = Ledger(h) + upd.lost + upd.undone + upd.skipped
    BY <1>1, <1>2 DEF Ledger
  <2>2. Ledger(c) = Ledger(h) + upd.lost + upd.undone + upd.skipped + 1
    BY <1>1, <1>2, <1>5 DEF Ledger
  <2>3. QED
    BY <1>2, <1>4, <1>5, <1>7, <2>1, <2>2 DEF g, c

LEMMA TakenBack ==
  ASSUME NEW h \in Hashes, NEW n \in {0, 1}
  PROVE  LET g == [h EXCEPT !.lost = @ - n, !.undone = @ + n, !.recovered = @ + 1]
         IN  g \in Hashes /\ g.expected = h.expected /\ g.base = h.base /\ Ledger(g) = Ledger(h)
<1> DEFINE g == [h EXCEPT !.lost = @ - n, !.undone = @ + n, !.recovered = @ + 1]
<1>1. /\ h.lost \in Int /\ h.undone \in Int /\ h.skipped \in Int /\ h.received \in Int
      /\ h.recovered \in Nat
  BY DEF Hashes
<1>2. h.lost - n \in Int /\ h.undone + n \in Int /\ h.recovered + 1 \in Nat
  BY <1>1
<1>3. g \in Hashes
  BY <1>2 DEF Hashes
<1>4. /\ g.lost = h.lost - n /\ g.undone = h.undone + n
      /\ g.skipped = h.skipped /\ g.received = h.received
      /\ g.expected = h.expected /\ g.base = h.base
  BY DEF Hashes
<1> HIDE DEF g
<1>5. Ledger(g) = Ledger(h)
  BY <1>1, <1>4 DEF Ledger
<1>6. QED
  BY <1>3, <1>4, <1>5 DEF g

LEMMA GapSame ==
  ASSUME LogInv, GapInv, NEW t \in Slots,
         hash' = hash \/ hash' = Touched, resync' \in BOOLEAN, overlapped' = overlapped,
         \/ End(t)
         \/ /\ task[t].pc # "idle"
            /\ \/ GoTo(t, "state") \/ GoTo(t, "fecstats") \/ GoTo(t, "fecclear") \/ GoTo(t, "store")
               \/ task[t].pc = "own" /\ GoTo(t, "log")
  PROVE  GapInv'
<1>1. Touched \in Hashes
  BY TouchedTyped DEF GapInv
<1>2. hash' = None \/ hash' \in Hashes
  BY <1>1 DEF GapInv
<1>3. Touched' = Touched
  BY DEF Touched
<1>4. Ledger(Touched') >= Ledger(Touched)
  BY <1>1, <1>3 DEF Ledger, Hashes
<1>5. QED
  BY <1>2, <1>3, <1>4, GapCalm

LEMMA GapEasySteps ==
  ASSUME LogInv, GapInv, NEW t \in Slots,
         \/ EvaluateLinkGate(t) \/ Own(t) \/ FecStats(t) \/ FecClear(t) \/ StoreInWindow(t)
         \/ TaskFails(t)
  PROVE  GapInv'
<1>0. resync \in BOOLEAN /\ Touched \in Hashes
  BY TouchedTyped DEF GapInv
<1>1. CASE EvaluateLinkGate(t)
  <2>1. hash' = hash /\ overlapped' = overlapped /\ resync' \in BOOLEAN
    BY <1>0, <1>1 DEF EvaluateLinkGate, historyVars
  <2>2. End(t) \/ (task[t].pc # "idle" /\ GoTo(t, "state"))
    BY <1>1 DEF EvaluateLinkGate, At
  <2>3. QED
    BY <2>1, <2>2, GapSame
<1>2. CASE Own(t)
  <2>1. hash' = Touched /\ overlapped' = overlapped /\ resync' \in BOOLEAN
    BY <1>0, <1>2 DEF Own
  <2>2. \/ End(t)
        \/ task[t].pc = "own" /\ (GoTo(t, "log") \/ GoTo(t, "fecstats"))
    BY <1>2 DEF Own, At
  <2>3. QED
    BY <2>1, <2>2, GapSame
<1>3. CASE FecStats(t)
  <2>1. /\ overlapped' = overlapped /\ resync' \in BOOLEAN
        /\ task[t].pc # "idle" /\ GoTo(t, "fecclear")
    BY <1>0, <1>3 DEF FecStats, At, stationVars, historyVars
  <2>2. PICK n \in {0, 1} :
          hash' = [Touched EXCEPT !.lost = @ - n, !.undone = @ + n, !.recovered = @ + 1]
    BY <1>3 DEF FecStats
  <2>3. /\ hash' \in Hashes /\ hash'.expected = Touched.expected /\ hash'.base = Touched.base
        /\ Ledger(hash') = Ledger(Touched)
    BY <1>0, <2>2, TakenBack
  <2>4. Touched' = hash'
    BY <2>3 DEF Touched
  <2>5. Ledger(Touched') >= Ledger(Touched)
    BY <1>0, <2>3, <2>4 DEF Ledger, Hashes
  <2>6. QED
    BY <2>1, <2>3, <2>4, <2>5, GapCalm
<1>4. CASE FecClear(t)
  <2>1. hash' = hash /\ overlapped' = overlapped /\ resync' \in BOOLEAN /\ End(t)
    BY <1>0, <1>4 DEF FecClear, historyVars
  <2>2. QED
    BY <2>1, GapSame
<1>5. CASE StoreInWindow(t)
  <2>1. hash' = hash /\ overlapped' = overlapped /\ resync' \in BOOLEAN /\ End(t)
    BY <1>0, <1>5 DEF StoreInWindow, historyVars
  <2>2. QED
    BY <2>1, GapSame
<1>6. CASE TaskFails(t)
  <2>1. overlapped' = overlapped /\ resync' \in BOOLEAN
    BY <1>0, <1>6 DEF TaskFails, stationVars
  <2>2. CASE hash' = hash
    <3>1. End(t) \/ (task[t].pc # "idle" /\ (GoTo(t, "store") \/ GoTo(t, "fecclear")))
      BY <1>6 DEF TaskFails, At
    <3>2. QED
      BY <2>1, <2>2, <3>1, GapSame
  <2>3. CASE hash' # hash
    <3>1. task[t].pc = "stats" /\ GoTo(t, "store") /\ hash' = WithLosses(task[t].upd)
      BY <1>6, <2>3 DEF TaskFails, At
    <3>2. task[t].upd \in Updates
      BY <3>1 DEF GapInv, TaskFields
    <3>3. /\ hash' \in Hashes /\ hash'.expected = Touched.expected /\ hash'.base = Touched.base
          /\ Ledger(hash') = Ledger(Touched) + task[t].upd.lost + task[t].upd.undone
                                 + task[t].upd.skipped
      BY <1>0, <3>1, <3>2, Written DEF WithLosses
    <3>4. Touched' = hash'
      BY <3>3 DEF Touched
    <3>5. ASSUME ~ overlapped PROVE Ledger(Touched') >= Ledger(Touched)
      <4>1. Working(task, t)
        BY <3>1 DEF Working, LogInv, Typed, TaskTyped
      <4>2. InStep(task, t, Touched)
        BY <3>5, <4>1 DEF GapInv
      <4>3. task[t].upd.lost + task[t].upd.undone + task[t].upd.skipped >= 0
        BY <3>1, <4>2 DEF InStep, Fits
      <4>4. QED
        BY <1>0, <3>2, <3>3, <3>4, <4>3 DEF Ledger, Hashes, Updates
    <3>6. task[t].pc # "idle"
      BY <3>1
    <3>7. QED
      BY <2>1, <3>1, <3>3, <3>4, <3>5, <3>6, GapCalm
  <2>4. QED
    BY <2>2, <2>3
<1>7. QED
  BY <1>1, <1>2, <1>3, <1>4, <1>5, <1>6

\* The step in which a task comes to its next position with a new record.
LEMMA NewRecord ==
  ASSUME TaskTyped(task), NEW t \in Slots, NEW r, task' = [task EXCEPT ![t] = r]
  PROVE  task'[t] = r /\ \A u \in Slots : u # t => task'[u] = task[u]
BY DEF TaskTyped

LEMMA GapReadState ==
  ASSUME LogInv, GapInv, NEW t \in Slots, ReadState(t)
  PROVE  GapInv'
<1> DEFINE r == [pc |-> "own", pkt |-> task[t].pkt,
                 expected |-> hash'.expected, lost |-> hash'.lost]
<1>0. TaskTyped(task) /\ Touched \in Hashes
  BY TouchedTyped DEF LogInv, Typed, GapInv
<1>1. /\ task[t].pc = "state" /\ task' = [task EXCEPT ![t] = r]
      /\ hash' = IF hash = None THEN NewSession ELSE hash
      /\ UNCHANGED <<resync, overlapped>>
  BY DEF ReadState, At, stationVars, historyVars
<1>2. task'[t] = r /\ \A u \in Slots : u # t => task'[u] = task[u]
  BY <1>0, <1>1 DEF TaskTyped
<1>3. hash' \in Hashes /\ Touched' = hash'
  BY <1>1, EmptyBalanced DEF GapInv, Touched
<1>4. hash'.expected \in Nat
  BY <1>3 DEF Hashes
<1>5. /\ task'[t].pc = "own" /\ task'[t].pkt = task[t].pkt
      /\ "expected" \in DOMAIN task'[t] /\ task'[t].expected = hash'.expected
  BY <1>2
<1>6. TaskFields(task', t)
  BY <1>4, <1>5 DEF TaskFields
<1>7. Working(task', t) => Working(task, t)
  BY <1>1, <1>5 DEF Working
<1>8. /\ Ledger(Touched') >= Ledger(Touched)
      /\ Touched'.expected = Touched.expected /\ Touched'.base = Touched.base
      /\ Balanced(Touched) => Balanced(Touched')
  <2>1. CASE hash = None
    <3>1. Touched = NoSession /\ Touched' = NewSession
      BY <1>1, <1>3, <2>1 DEF Touched
    <3>2. QED
      BY <3>1, EmptyBalanced
  <2>2. CASE hash # None
    <3>1. Touched = hash /\ Touched' = hash
      BY <1>1, <1>3, <2>2 DEF Touched
    <3>2. Ledger(hash) >= Ledger(hash)
      BY <1>0, <3>1 DEF Ledger, Hashes
    <3>3. QED
      BY <3>1, <3>2
  <2>3. QED
    BY <2>1, <2>2
<1>9. InStep(task', t, Touched')
  BY <1>3, <1>5 DEF InStep
<1>10. ~ overlapped => Balanced(Touched')
  BY <1>8 DEF GapInv
<1>11. resync' \in BOOLEAN /\ overlapped' = overlapped
  BY <1>1 DEF GapInv
<1>12. QED
  BY <1>2, <1>3, <1>6, <1>7, <1>8, <1>9, <1>10, <1>11, GapTask

LEMMA GapLogPacket ==
  ASSUME LogInv, GapInv, NEW t \in Slots, LogPacket(t)
  PROVE  GapInv'
<1> DEFINE pkt == task[t].pkt
           upd == CountLosses(task[t].expected, pkt.seq, resync, task[t].lost)
           r == [pc |-> "stats", pkt |-> pkt, upd |-> upd]
<1>0. TaskTyped(task) /\ Touched \in Hashes
  BY TouchedTyped DEF LogInv, Typed, GapInv
<1>1. /\ task[t].pc = "log" /\ task' = [task EXCEPT ![t] = r]
      /\ hash' = hash /\ resync' \in BOOLEAN /\ overlapped' = overlapped
  BY DEF LogPacket, At
<1>2. ~ pkt.fec /\ pkt \in Telemetries \cup Sums
  BY <1>0, <1>1 DEF TaskTyped
<1>3. pkt.seq \in Nat
  BY <1>2, Kinds DEF Telemetries
<1>4. task[t].expected \in Nat /\ resync \in BOOLEAN
  BY <1>1 DEF GapInv, TaskFields
<1>5. upd \in Updates /\ Fits(task[t].expected, pkt.seq, upd)
  BY <1>3, <1>4, CountFits
<1> HIDE DEF upd
<1>6. task'[t] = r /\ \A u \in Slots : u # t => task'[u] = task[u]
  BY <1>0, <1>1, NewRecord
<1>7. /\ task'[t].pc = "stats" /\ task'[t].pkt = pkt
      /\ "upd" \in DOMAIN task'[t] /\ task'[t].upd = upd
  BY <1>6
<1>8. TaskFields(task', t)
  BY <1>5, <1>7 DEF TaskFields
<1>9. Working(task, t)
  BY <1>1, <1>2 DEF Working
<1>10. Touched' = Touched /\ (hash' = None \/ hash' \in Hashes)
  BY <1>1 DEF Touched, GapInv
<1>11. ASSUME ~ overlapped PROVE Balanced(Touched') /\ InStep(task', t, Touched')
  <2>1. Balanced(Touched) /\ task[t].expected = Touched.expected
    BY <1>1, <1>9, <1>11 DEF GapInv, InStep
  <2>2. QED
    BY <1>5, <1>7, <1>10, <2>1 DEF InStep
<1>12. QED
  BY <1>1, <1>6, <1>8, <1>9, <1>10, <1>11, GapTask

LEMMA GapUpdateCounters ==
  ASSUME LogInv, GapInv, NEW t \in Slots, UpdateCounters(t)
  PROVE  GapInv'
<1> DEFINE upd == task[t].upd
           inc == upd.lost + upd.undone + upd.skipped
<1>0. TaskTyped(task) /\ Touched \in Hashes
  BY TouchedTyped DEF LogInv, Typed, GapInv
<1>1. /\ task[t].pc = "stats" /\ GoTo(t, "expect")
      /\ hash' = [WithLosses(upd) EXCEPT !.received = @ + 1, !.recovered = @ + upd.recovered]
      /\ UNCHANGED <<resync, overlapped>>
  BY DEF UpdateCounters, At, stationVars, historyVars
<1>2. ~ task[t].pkt.fec /\ task[t].pc # "idle" /\ "pkt" \in DOMAIN task[t]
  BY <1>0, <1>1 DEF TaskTyped
<1>3. "upd" \in DOMAIN task[t] /\ upd \in Updates
  BY <1>1 DEF GapInv, TaskFields
<1>4. /\ hash' \in Hashes /\ hash'.expected = Touched.expected /\ hash'.base = Touched.base
      /\ Ledger(hash') = Ledger(Touched) + upd.lost + upd.undone + upd.skipped + 1
  BY <1>0, <1>1, <1>3, Written DEF WithLosses
<1>5. Touched' = hash'
  BY <1>4 DEF Touched
<1>6. /\ \A u \in Slots : u # t => task'[u] = task[u]
      /\ task'[t].pc = "expect" /\ task'[t].pkt = task[t].pkt
      /\ "upd" \in DOMAIN task'[t] /\ task'[t].upd = upd
  <2>1. "pkt" # "pc" /\ "upd" # "pc"
    OBVIOUS
  <2>2. QED
    BY <1>0, <1>1, <1>2, <1>3, <2>1, GoToMeans
<1>7. TaskFields(task', t)
  BY <1>3, <1>6 DEF TaskFields
<1>8. Working(task, t)
  BY <1>2 DEF Working
<1>9. ASSUME ~ overlapped PROVE Balanced(Touched') /\ InStep(task', t, Touched')
  <2>1. Balanced(Touched) /\ Fits(Touched.expected, task[t].pkt.seq, upd)
    BY <1>1, <1>8, <1>9 DEF GapInv, InStep
  <2>2. /\ Ledger(Touched) \in Int /\ Touched.expected \in Nat /\ Touched.base \in Int
        /\ inc \in Int /\ upd.next \in Nat
    BY <1>0, <1>3 DEF Ledger, Hashes, Updates
  <2>3. Ledger(hash') = Ledger(Touched) + inc + 1
    BY <1>0, <1>3, <1>4 DEF Ledger, Hashes, Updates
  <2>4. inc >= 0
    BY <2>1 DEF Fits
  <2>5. Touched.expected = 0 => upd.first /\ upd.next = task[t].pkt.seq + 1
    BY <2>1 DEF Fits
  <2>6. Touched.expected # 0 => ~ upd.first /\ upd.next <= Touched.expected + inc + 1
    BY <2>1 DEF Fits
  <2> HIDE DEF inc
  <2>7. /\ Ledger(hash') >= 1
        /\ Touched.expected # 0 => /\ Ledger(hash') >= Touched.expected - Touched.base
                                   /\ Ledger(hash') >= upd.next - Touched.base
    BY <2>1, <2>2, <2>3, <2>4, <2>6 DEF Balanced
  <2>8. Balanced(hash')
    <3>1. Ledger(hash') >= 0
      BY <2>2, <2>3, <2>7
    <3>2. QED
      BY <1>4, <2>7, <3>1 DEF Balanced
  <2>9. InStep(task', t, hash')
    BY <1>4, <1>6, <2>5, <2>6, <2>7 DEF InStep
  <2>10. QED
    BY <1>5, <2>8, <2>9
<1>10. resync' \in BOOLEAN /\ overlapped' = overlapped
  BY <1>1 DEF GapInv
<1>11. QED
  BY <1>4, <1>6, <1>7, <1>8, <1>9, <1>10, GapTask

LEMMA GapUpdateExpected ==
  ASSUME LogInv, GapInv, NEW t \in Slots, UpdateExpected(t)
  PROVE  GapInv'
<1> DEFINE upd == task[t].upd
           base == IF upd.first THEN task[t].pkt.seq ELSE Touched.base
<1>0. TaskTyped(task) /\ Touched \in Hashes
  BY TouchedTyped DEF LogInv, Typed, GapInv
<1>1. /\ task[t].pc = "expect" /\ GoTo(t, "store")
      /\ hash' = [Touched EXCEPT !.expected = upd.next, !.base = base]
      /\ UNCHANGED <<resync, overlapped>>
  BY DEF UpdateExpected, At, stationVars, historyVars
<1>2. /\ ~ task[t].pkt.fec /\ task[t].pc # "idle" /\ "pkt" \in DOMAIN task[t]
      /\ task[t].pkt \in Telemetries \cup Sums
  BY <1>0, <1>1 DEF TaskTyped
<1>3. upd \in Updates
  BY <1>1 DEF GapInv, TaskFields
<1>4. upd.next \in Nat /\ upd.first \in BOOLEAN /\ task[t].pkt.seq \in Nat /\ base \in Int
  <2>1. task[t].pkt.seq \in Nat
    BY <1>2, Kinds DEF Telemetries
  <2>2. QED
    BY <1>0, <1>3, <2>1 DEF Updates, Hashes
<1>5. /\ upd.first => base = task[t].pkt.seq
      /\ ~ upd.first => base = Touched.base
  OBVIOUS
<1> HIDE DEF base, upd
<1>6. hash' \in Hashes /\ hash'.expected = upd.next /\ hash'.base = base
      /\ Ledger(hash') = Ledger(Touched)
  <2> DEFINE g == [Touched EXCEPT !.expected = upd.next, !.base = base]
  <2>1. g \in Hashes
    BY <1>0, <1>4 DEF Hashes
  <2>2. /\ g.expected = upd.next /\ g.base = base
        /\ g.received = Touched.received /\ g.lost = Touched.lost
        /\ g.undone = Touched.undone /\ g.skipped = Touched.skipped
    BY <1>0 DEF Hashes
  <2>3. hash' = g
    BY <1>1
  <2> HIDE DEF g
  <2>4. QED
    BY <2>1, <2>2, <2>3 DEF Ledger
<1>7. Touched' = hash'
  BY <1>6 DEF Touched
<1>8. /\ \A u \in Slots : u # t => task'[u] = task[u]
      /\ task'[t].pc = "store" /\ task'[t].pkt = task[t].pkt
  <2>1. "pkt" # "pc"
    OBVIOUS
  <2>2. QED
    BY <1>0, <1>1, <1>2, <2>1, GoToMeans
<1>9. TaskFields(task', t) /\ InStep(task', t, Touched')
  BY <1>8 DEF TaskFields, InStep
<1>10. Working(task, t)
  BY <1>2 DEF Working
<1>11. ASSUME ~ overlapped PROVE Balanced(Touched')
  <2>1. /\ Ledger(Touched) >= 0
        /\ upd.first => upd.next = task[t].pkt.seq + 1 /\ Ledger(Touched) >= 1
        /\ ~ upd.first => Ledger(Touched) >= upd.next - Touched.base
    BY <1>1, <1>10, <1>11 DEF GapInv, InStep, Balanced, upd
  <2>2. Ledger(Touched) \in Int /\ Touched.base \in Int
    BY <1>0 DEF Ledger, Hashes
  <2>3. CASE upd.first
    <3>1. hash'.expected - hash'.base = 1
      BY <1>4, <1>5, <1>6, <2>1, <2>3
    <3>2. QED
      BY <1>6, <1>7, <2>1, <2>3, <3>1 DEF Balanced
  <2>4. CASE ~ upd.first
    BY <1>5, <1>6, <1>7, <2>1, <2>4 DEF Balanced
  <2>5. QED
    BY <2>3, <2>4
<1>12. resync' \in BOOLEAN /\ overlapped' = overlapped
  BY <1>1 DEF GapInv
<1>13. QED
  BY <1>6, <1>8, <1>9, <1>10, <1>11, <1>12, GapTask

LEMMA GapArrive ==
  ASSUME LogInv, GapInv, NEW t \in Slots, Arrive(t)
  PROVE  GapInv'
<1>0. TaskTyped(task)
  BY DEF LogInv, Typed
<1>1. task[t].pc = "idle" /\ hash' = hash /\ resync' = resync
  BY DEF Arrive, At
<1>2. Touched' = Touched
  BY <1>1 DEF Touched
<1>3. CASE UNCHANGED <<task, overlapped>>
  BY <1>1, <1>2, <1>3 DEF GapInv
<1>4. CASE Accept(t, Head(net))
  <2>1. /\ \A u \in Slots : u # t => task'[u] = task[u]
        /\ task'[t] = [pc |-> "range", pkt |-> Head(net)]
    BY <1>0, <1>4 DEF Accept, TaskTyped
  <2>2. task'[t].pc = "range" /\ task'[t].pkt = Head(net)
    BY <2>1
  <2>3. \/ Head(net).fec /\ overlapped' = overlapped
        \/ overlapped' = (overlapped \/ InWork)
    <3>1. task' # task
      BY <1>1, <2>2
    <3>2. QED
      BY <3>1 DEF Arrive
  <2>4. \A u \in Slots : TaskFields(task', u)
    BY <2>1, <2>2 DEF GapInv, TaskFields
  <2>5. InStep(task', t, Touched')
    BY <2>2 DEF InStep
  <2>6. ASSUME ~ overlapped', NEW u \in Slots, NEW v \in Slots,
               Working(task', u), Working(task', v)
        PROVE  u = v /\ InStep(task', u, Touched') /\ ~ overlapped
    <3>1. CASE Head(net).fec /\ overlapped' = overlapped
      <4>1. ~ Working(task', t)
        BY <2>2, <3>1 DEF Working
      <4>2. Working(task, u) /\ Working(task, v) /\ task'[u] = task[u]
        BY <2>1, <2>6, <4>1 DEF Working
      <4>3. QED
        BY <1>2, <2>6, <3>1, <4>2 DEF GapInv, InStep
    <3>2. CASE overlapped' = (overlapped \/ InWork)
      <4>1. ~ overlapped /\ \A w \in Slots : ~ Working(task, w)
        BY <2>6, <3>2 DEF InWork, Working, At
      <4>2. u = t /\ v = t
        BY <2>1, <2>6, <4>1 DEF Working
      <4>3. QED
        BY <2>5, <4>1, <4>2
    <3>3. (Head(net).fec /\ overlapped' = overlapped) \/ overlapped' = (overlapped \/ InWork)
      BY <2>3
    <3>4. QED
      BY <3>1, <3>2, <3>3
  <2>7. ~ overlapped' => Balanced(Touched')
    BY <1>2, <2>3 DEF GapInv
  <2>8. (hash' = None \/ hash' \in Hashes) /\ resync' \in BOOLEAN
    BY <1>1 DEF GapInv
  <2>9. QED
    BY <2>4, <2>6, <2>7, <2>8 DEF GapInv
<1>5. QED
  BY <1>3, <1>4 DEF Arrive

LEMMA GapTaskSteps ==
  ASSUME LogInv, GapInv, NEW t \in Slots, TaskStep(t) \/ TaskFails(t)
  PROVE  GapInv'
BY GapEasySteps, GapReadState, GapLogPacket, GapUpdateCounters, GapUpdateExpected, GapArrive
   DEF TaskStep

LEMMA GapWorldStep ==
  ASSUME LogInv, GapInv,
         \/ Handshake \/ SendTelemetry \/ CloseSession \/ Forget \/ GksRestart \/ UavRestart
         \/ Move \/ Lose \/ Repeat \/ Delay \/ UNCHANGED vars
  PROVE  GapInv'
<1>1. CASE CloseSession
  <2>1. /\ hash' = None /\ task' = task /\ resync' = resync
        /\ overlapped' = (overlapped \/ InWork)
    BY <1>1 DEF CloseSession
  <2>2. ~ overlapped' => \A u \in Slots : ~ Working(task', u)
    BY <2>1 DEF InWork, At, Working
  <2>3. Balanced(Touched')
    BY <2>1, EmptyBalanced DEF Touched
  <2>4. \A u \in Slots : TaskFields(task', u)
    BY <2>1 DEF GapInv, TaskFields
  <2>5. QED
    BY <2>1, <2>2, <2>3, <2>4 DEF GapInv
<1>2. CASE GksRestart
  <2>1. hash' = hash /\ overlapped' = overlapped /\ resync' = FALSE
        /\ task' = [u \in Slots |-> Idle]
    BY <1>2 DEF GksRestart
  <2>2. \A u \in Slots : task'[u].pc = "idle"
    BY <2>1 DEF Idle
  <2>3. \A u \in Slots : TaskFields(task', u) /\ ~ Working(task', u)
    BY <2>2 DEF TaskFields, Working
  <2>4. Touched' = Touched
    BY <2>1 DEF Touched
  <2>5. QED
    BY <2>1, <2>3, <2>4 DEF GapInv
<1>3. CASE \/ Handshake \/ SendTelemetry \/ Forget \/ UavRestart
           \/ Move \/ Lose \/ Repeat \/ Delay \/ UNCHANGED vars
  <2>1. /\ hash' = hash /\ overlapped' = overlapped /\ task' = task
        /\ resync' \in {resync, FALSE}
    BY <1>3 DEF Handshake, SendTelemetry, Forget, UavRestart, Move, Lose, Repeat, Delay,
                vars, stationVars, historyVars
  <2>2. Touched' = Touched
    BY <2>1 DEF Touched
  <2>3. QED
    BY <2>1, <2>2 DEF GapInv, TaskFields, Working, InStep
<1>4. QED
  BY <1>1, <1>2, <1>3

LEMMA GapStarts == Init => GapInv
<1> SUFFICES ASSUME Init PROVE GapInv
  OBVIOUS
<1>1. hash = None /\ resync = FALSE /\ task = [u \in Slots |-> Idle]
  BY DEF Init
<1>2. \A u \in Slots : task[u].pc = "idle"
  BY <1>1 DEF Idle
<1>3. \A u \in Slots : TaskFields(task, u) /\ ~ Working(task, u)
  BY <1>2 DEF TaskFields, Working
<1>4. Balanced(Touched)
  BY <1>1, EmptyBalanced DEF Touched
<1>5. QED
  BY <1>1, <1>3, <1>4 DEF GapInv

\* However packets are lost, repeated or delayed, calls fail and stations and
\* UAVs restart, every number below the expected one is received, lost or skipped,
\* as long as the telemetry tasks do not overlap (server.py:598-637).
THEOREM NumbersAccountedFor == Spec => []NoSilentGap
<1>1. LogInv /\ GapInv => NoSilentGap
  <2> SUFFICES ASSUME GapInv, ~ overlapped, hash # None, hash.expected # 0
               PROVE  hash.received + hash.lost + hash.undone + hash.skipped
                        >= hash.expected - hash.base
    BY DEF NoSilentGap
  <2>1. Touched = hash /\ Balanced(Touched)
    BY DEF GapInv, Touched
  <2>2. QED
    BY <2>1 DEF Balanced, Ledger
<1>2. LogInv /\ GapInv /\ [Next]_vars => GapInv'
  BY GapTaskSteps, GapWorldStep DEF Next
<1>3. QED
  BY <1>1, <1>2, LogStarts, LogSteps, GapStarts, PTL DEF Spec

-----------------------------------------------------------------------------
(* What is counted as lost was never accepted.                             *)

\* The telemetry packets in flight.
Flown == {p \in Flying(net) : ~ p.fec}

Counted(h) == h.lost + h.undone
Unaccepted(m) == Cardinality((1..m) \ accepted)

\* Sequence numbers do not run ahead of the clock, whatever the UAV's restarts.
Steady ==
  /\ uav.seq >= 1
  /\ \A p \in Flown : p.seq >= 1 /\ uav.seq - p.seq <= uav.clock + 1 - p.ts
  /\ \A p, q \in Flown : q.ts < p.ts => p.seq - q.seq <= p.ts - q.ts

\* Neither do they from number s, sent at m, on.
Behind(s, m) ==
  /\ uav.seq - s <= uav.clock + 1 - m
  /\ \A p \in Flown : p.ts > m => p.seq - s <= p.ts - m

\* Task u has a telemetry packet on its way to the expected number.
Busy(tk, u) == Carries(tk, u) \/ (tk[u].pc \in {"stats", "expect"} /\ ~ tk[u].pkt.fec)

\* The packet in work is the newest accepted one, and there is room for the losses
\* it will count.
Owes(tk, u, m) ==
  /\ tk[u].pkt.ts = m
  /\ Behind(tk[u].pkt.seq, m)
  /\ Carries(tk, u) /\ Touched.expected # 0 /\ ~ resync =>
       Counted(Touched) + (tk[u].pkt.seq - Touched.expected) <= Unaccepted(m)
  /\ tk[u].pc = "stats" => Counted(Touched) + tk[u].upd.lost + tk[u].upd.undone <= Unaccepted(m)
  /\ tk[u].pc \in {"stats", "expect"} => tk[u].upd.next >= tk[u].pkt.seq + 1

\* The books up to the timestamp m, above which nothing was accepted.
Books(m) ==
  /\ m <= uav.clock
  /\ accepted \subseteq 1..m
  /\ session # 0 => \A p \in Flown : p.key = session /\ p.ts > last_ts => p.ts > m
  /\ Counted(Touched) <= Unaccepted(m)
  /\ \A u \in Slots : Busy(task, u) => Owes(task, u, m)
  /\ (\A u \in Slots : ~ Busy(task, u)) /\ Touched.expected # 0 /\ ~ resync =>
       Behind(Touched.expected - 1, m)

LossInv == Steady /\ (~ overlapped /\ ~ disturbed => \E m \in Nat : Books(m))

LEMMA Intervals ==
  ASSUME NEW a \in Int, NEW b \in Int
  PROVE  /\ IsFiniteSet(a..b)
         /\ a <= b + 1 => Cardinality(a..b) = b - a + 1
<1>1. IsFiniteSet(a..b) /\ Cardinality(a..b) = IF a > b THEN 0 ELSE b - a + 1
  BY FS_Interval
<1>2. ASSUME a <= b + 1 PROVE (IF a > b THEN 0 ELSE b - a + 1) = b - a + 1
  BY <1>2
<1>3. QED
  BY <1>1, <1>2

LEMMA Widened ==
  ASSUME NEW A, NEW m \in Nat, NEW n \in Nat, A \subseteq 1..m, m < n
  PROVE  /\ Cardinality((1..m) \ A) \in Nat
         /\ Cardinality((1..n) \ (A \cup {n})) = Cardinality((1..m) \ A) + (n - 1 - m)
<1> DEFINE S == (1..m) \ A
           T == (m + 1)..(n - 1)
<1>1. IsFiniteSet(1..m) /\ IsFiniteSet(T) /\ Cardinality(T) = n - 1 - m
  <2>1. m + 1 \in Int /\ n - 1 \in Int /\ 1 \in Int /\ m \in Int
    OBVIOUS
  <2>2. m + 1 <= (n - 1) + 1 /\ (n - 1) - (m + 1) + 1 = n - 1 - m
    OBVIOUS
  <2>3. IsFiniteSet(T) /\ Cardinality(T) = (n - 1) - (m + 1) + 1
    BY <2>1, <2>2, Intervals
  <2>4. IsFiniteSet(1..m)
    BY <2>1, Intervals
  <2>5. QED
    BY <2>2, <2>3, <2>4
<1>2. IsFiniteSet(S) /\ Cardinality(S) \in Nat
  BY <1>1, FS_Subset, FS_CardinalityType
<1>3. (1..n) \ (A \cup {n}) = S \cup T
  OBVIOUS
<1>4. S \cap T = {}
  OBVIOUS
<1> HIDE DEF S, T
<1>5. Cardinality(S \cup T) = Cardinality(S) + Cardinality(T) - Cardinality(S \cap T)
  BY <1>1, <1>2, FS_Union
<1>6. Cardinality(S \cap T) = 0
  BY <1>4, FS_EmptySet
<1>7. Cardinality((1..n) \ (A \cup {n})) = Cardinality(S) + (n - 1 - m)
  <2>1. Cardinality(S \cup T) = Cardinality(S) + (n - 1 - m) - 0
    BY <1>1, <1>5, <1>6
  <2>2. n - 1 - m \in Int
    OBVIOUS
  <2>3. Cardinality(S \cup T) = Cardinality(S) + (n - 1 - m)
    BY <1>2, <2>1, <2>2
  <2>4. QED
    BY <1>3, <2>3
<1>8. QED
  BY <1>2, <1>7 DEF S

LEMMA Wider ==
  ASSUME NEW A, NEW m \in Nat, NEW n \in Nat, m <= n
  PROVE  /\ Cardinality((1..m) \ A) \in Nat /\ Cardinality((1..n) \ A) \in Nat
         /\ Cardinality((1..m) \ A) <= Cardinality((1..n) \ A)
<1>1. IsFiniteSet(1..n) /\ IsFiniteSet(1..m)
  <2>1. 1 \in Int /\ m \in Int /\ n \in Int
    OBVIOUS
  <2>2. QED
    BY <2>1, Intervals
<1>2. IsFiniteSet((1..n) \ A) /\ IsFiniteSet((1..m) \ A)
  BY <1>1, FS_Subset
<1>3. (1..m) \ A \subseteq (1..n) \ A
  OBVIOUS
<1>4. QED
  BY <1>2, <1>3, FS_Subset, FS_CardinalityType

LEMMA UnacceptedNumber ==
  ASSUME NEW m \in Nat
  PROVE  Unaccepted(m) \in Nat
<1>1. m \in Int /\ 1 \in Int
  OBVIOUS
<1>2. IsFiniteSet(1..m)
  BY <1>1, Intervals
<1>3. IsFiniteSet((1..m) \ accepted)
  BY <1>2, FS_Subset
<1>4. QED
  BY <1>3, FS_CardinalityType DEF Unaccepted

LEMMA FlownTyped ==
  ASSUME LogInv
  PROVE  /\ uav.seq \in Nat /\ uav.clock \in Nat /\ uav.key \in Nat
         /\ \A p \in Flown : /\ p \in Telemetries /\ p \in Flying(net)
                             /\ p.seq \in Nat /\ p.ts \in Nat /\ p.key \in Nat
                             /\ p.ts <= uav.clock /\ p.key <= uav.key
<1>1. uav.seq \in Nat /\ uav.clock \in Nat /\ uav.key \in Nat
  BY UavTyped DEF LogInv, Typed
<1>2. ASSUME NEW p \in Flown
      PROVE  /\ p \in Telemetries /\ p \in Flying(net)
             /\ p.seq \in Nat /\ p.ts \in Nat /\ p.key \in Nat
             /\ p.ts <= uav.clock /\ p.key <= uav.key
  <2>1. p \in Flying(net) /\ ~ p.fec
    BY DEF Flown
  <2>2. p \in Telemetries \cup Sums
    BY <2>1, FlyingTyped DEF LogInv, Typed
  <2>3. p \in Telemetries /\ p.ts \in Nat /\ p.key \in Nat
    BY <2>1, <2>2, Kinds
  <2>4. p.seq \in Nat
    BY <2>3 DEF Telemetries
  <2>5. QED
    BY <2>1, <2>3, <2>4 DEF LogInv, Past
<1>3. QED
  BY <1>1, <1>2

\* What a step leaves in flight, and what it does to the numbers of the UAV.
LEMMA Aloft ==
  ASSUME LogInv, [Next]_vars
  PROVE  \/ /\ uav'.clock = uav.clock /\ uav'.seq \in {uav.seq, 1}
            /\ Flown' \subseteq Flown
         \/ /\ SendTelemetry
            /\ uav'.clock = uav.clock + 1 /\ uav'.seq = uav.seq + 1
            /\ \A p \in Flown' : \/ p \in Flown
                                 \/ p.seq = uav.seq /\ p.ts = uav.clock + 1 /\ p.key = uav.key
<1>0. uav \in Uavs /\ net \in Seq(Telemetries \cup Sums)
  BY DEF LogInv, Typed
<1>1. CASE SendTelemetry
  BY <1>1, Launch DEF Flown
<1>2. ASSUME ~ SendTelemetry
      PROVE  /\ uav'.clock = uav.clock /\ uav'.seq \in {uav.seq, 1}
             /\ Flying(net') \subseteq Flying(net)
  <2>1. CASE Lose \/ Repeat \/ Delay
    <3>1. uav' = uav
      BY <2>1 DEF Lose, Repeat, Delay
    <3>2. QED
      BY <2>1, <3>1, NetSteps
  <2>2. CASE Handshake \/ UavRestart \/ Move
    <3>1. net' = net
      BY <2>2 DEF Handshake, UavRestart, Move
    <3>2. uav'.clock = uav.clock /\ uav'.seq \in {uav.seq, 1}
      BY <1>0, <2>2 DEF Handshake, UavRestart, Move, Uavs
    <3>3. QED
      BY <3>1, <3>2
  <2>3. CASE CloseSession \/ Forget \/ GksRestart \/ UNCHANGED vars
    BY <2>3 DEF CloseSession, Forget, GksRestart, vars
  <2>4. ASSUME NEW t \in Slots, Arrive(t)
        PROVE  /\ uav'.clock = uav.clock /\ uav'.seq \in {uav.seq, 1}
               /\ Flying(net') \subseteq Flying(net)
    <3>1. net # <<>> /\ net' = Tail(net)
      BY <2>4 DEF Arrive
    <3>2. Flying(net') \subseteq Flying(net)
      BY <1>0, <3>1, FlyingTail
    <3>3. uav' = uav \/ uav' = [uav EXCEPT !.secure = FALSE]
      BY <2>4 DEF Arrive, Accept
    <3>4. uav'.clock = uav.clock /\ uav'.seq = uav.seq
      BY <1>0, <3>3 DEF Uavs
    <3>5. QED
      BY <3>2, <3>4
  <2>5. ASSUME NEW t \in Slots, TaskStep(t) \/ TaskFails(t), ~ Arrive(t)
        PROVE  UNCHANGED <<uav, net>>
    BY <2>5 DEF TaskStep, EvaluateLinkGate, ReadState, Own, FecStats, FecClear, LogPacket,
         UpdateCounters, UpdateExpected, StoreInWindow, TaskFails
  <2>6. QED
    BY <1>2, <2>1, <2>2, <2>3, <2>4, <2>5 DEF Next
<1>3. QED
  BY <1>1, <1>2 DEF Flown

LEMMA SteadyNext ==
  ASSUME LogInv, Steady, [Next]_vars
  PROVE  Steady'
<1>1. /\ uav.seq \in Nat /\ uav.clock \in Nat
      /\ \A p \in Flown : p.seq \in Nat /\ p.ts \in Nat /\ p.ts <= uav.clock
  BY FlownTyped
<1>2. CASE /\ uav'.clock = uav.clock /\ uav'.seq \in {uav.seq, 1}
           /\ Flown' \subseteq Flown
  <2>1. uav'.seq >= 1
    BY <1>2 DEF Steady
  <2>2. ASSUME NEW p \in Flown' PROVE p.seq >= 1 /\ uav'.seq - p.seq <= uav'.clock + 1 - p.ts
    BY <1>1, <1>2, <2>2 DEF Steady
  <2>3. QED
    BY <1>2, <2>1, <2>2 DEF Steady
<1>3. CASE /\ uav'.clock = uav.clock + 1 /\ uav'.seq = uav.seq + 1
           /\ \A p \in Flown' : \/ p \in Flown
                                \/ p.seq = uav.seq /\ p.ts = uav.clock + 1 /\ p.key = uav.key
  <2>1. uav'.seq >= 1
    BY <1>1, <1>3 DEF Steady
  <2>2. ASSUME NEW p \in Flown' PROVE p.seq >= 1 /\ uav'.seq - p.seq <= uav'.clock + 1 - p.ts
    BY <1>1, <1>3, <2>2 DEF Steady
  <2>3. ASSUME NEW p \in Flown', NEW q \in Flown', q.ts < p.ts
        PROVE  p.seq - q.seq <= p.ts - q.ts
    <3>1. q \in Flown
      BY <1>1, <1>3, <2>3
    <3>2. QED
      BY <1>1, <1>3, <2>3, <3>1 DEF Steady
  <2>4. QED
    BY <2>1, <2>2, <2>3 DEF Steady
<1>4. QED
  BY <1>2, <1>3, Aloft

LEMMA BehindNext ==
  ASSUME LogInv, [Next]_vars, NEW s \in Nat, NEW m \in Nat, m <= uav.clock, Behind(s, m)
  PROVE  /\ m <= uav'.clock
         /\ uav'.seq - s <= uav'.clock + 1 - m
         /\ \A p \in Flown' : p.ts > m => p.seq - s <= p.ts - m
<1>1. /\ uav.seq \in Nat /\ uav.clock \in Nat
      /\ \A p \in Flown : p.seq \in Nat /\ p.ts \in Nat /\ p.ts <= uav.clock
  BY FlownTyped
<1>2. CASE /\ uav'.clock = uav.clock /\ uav'.seq \in {uav.seq, 1}
           /\ Flown' \subseteq Flown
  BY <1>1, <1>2 DEF Behind
<1>3. CASE /\ uav'.clock = uav.clock + 1 /\ uav'.seq = uav.seq + 1
           /\ \A p \in Flown' : \/ p \in Flown
                                \/ p.seq = uav.seq /\ p.ts = uav.clock + 1 /\ p.key = uav.key
  BY <1>1, <1>3 DEF Behind
<1>4. QED
  BY <1>2, <1>3, Aloft

-----------------------------------------------------------------------------
LEMMA HashFacts ==
  ASSUME GapInv
  PROVE  /\ Touched \in Hashes /\ Touched.expected \in Nat /\ Counted(Touched) \in Int
         /\ Touched.expected # 0 => Touched.expected - 1 \in Nat
<1>1. Touched \in Hashes
  BY TouchedTyped DEF GapInv
<1>2. Touched.expected \in Nat /\ Counted(Touched) \in Int
  BY <1>1 DEF Hashes, Counted
<1>3. QED
  BY <1>1, <1>2

LEMMA BusyTyped ==
  ASSUME LogInv, NEW u \in Slots, Busy(task, u)
  PROVE  /\ task[u].pkt \in Telemetries /\ task[u].pkt.seq \in Nat /\ task[u].pkt.ts \in Nat
         /\ Working(task, u)
<1>1. task[u].pc # "idle" /\ ~ task[u].pkt.fec
  BY DEF Busy, Carries
<1>2. task[u].pkt \in Telemetries \cup Sums
  BY <1>1 DEF LogInv, Typed, TaskTyped
<1>3. task[u].pkt \in Telemetries /\ task[u].pkt.ts \in Nat
  BY <1>1, <1>2, Kinds
<1>4. QED
  BY <1>1, <1>3 DEF Telemetries, Working

\* Steps that accept nothing, count nothing and take a telemetry packet at most
\* from one position before its log to the next.
LEMMA BooksKept ==
  ASSUME LogInv, GapInv, [Next]_vars, NEW m \in Nat, Books(m),
         accepted' = accepted,
         \/ session' = 0
         \/ session' = session /\ last_ts' = last_ts
         \/ \A p \in Flown' : p.key # session',
         Counted(Touched') = Counted(Touched), Touched'.expected = Touched.expected,
         Touched.expected = 0 \/ (resync => resync'),
         \A u \in Slots : Busy(task', u) =>
           \/ Busy(task, u) /\ task'[u] = task[u]
           \/ Carries(task, u) /\ Carries(task', u) /\ task'[u].pkt = task[u].pkt,
         (\A u \in Slots : ~ Busy(task', u)) => (\A u \in Slots : ~ Busy(task, u)) \/ resync'
  PROVE  Books(m)'
<1>1. /\ uav.seq \in Nat /\ uav.clock \in Nat
      /\ \A p \in Flown : p.seq \in Nat /\ p.ts \in Nat /\ p.ts <= uav.clock
  BY FlownTyped
<1>2. /\ m <= uav.clock /\ accepted \subseteq 1..m
      /\ session # 0 => \A p \in Flown : p.key = session /\ p.ts > last_ts => p.ts > m
      /\ Counted(Touched) <= Unaccepted(m)
      /\ \A u \in Slots : Busy(task, u) => Owes(task, u, m)
      /\ (\A u \in Slots : ~ Busy(task, u)) /\ Touched.expected # 0 /\ ~ resync =>
           Behind(Touched.expected - 1, m)
  BY DEF Books
<1>3. m <= uav'.clock
  <2>1. uav'.clock = uav.clock \/ uav'.clock = uav.clock + 1
    BY Aloft
  <2>2. QED
    BY <1>1, <1>2, <2>1
<1>4. session' # 0 => \A p \in Flown' : p.key = session' /\ p.ts > last_ts' => p.ts > m
  <2> SUFFICES ASSUME session' # 0, NEW p \in Flown', p.key = session', p.ts > last_ts'
               PROVE  p.ts > m
    OBVIOUS
  <2>1. session' = session /\ last_ts' = last_ts
    OBVIOUS
  <2>2. p \in Flown \/ p.ts = uav.clock + 1
    BY Aloft
  <2>3. QED
    BY <1>1, <1>2, <2>1, <2>2
<1>5. Unaccepted(m)' = Unaccepted(m)
  BY DEF Unaccepted
<1>6. ASSUME NEW u \in Slots, Busy(task', u) PROVE Owes(task, u, m)'
  <2>1. Busy(task, u) /\ Owes(task, u, m) /\ task'[u].pkt = task[u].pkt
    BY <1>2, <1>6 DEF Busy
  <2>2. task[u].pkt.seq \in Nat
    BY <2>1, BusyTyped
  <2>3. task'[u].pkt.ts = m /\ Behind(task[u].pkt.seq, m)
    BY <2>1 DEF Owes
  <2>4. /\ uav'.seq - task[u].pkt.seq <= uav'.clock + 1 - m
        /\ \A p \in Flown' : p.ts > m => p.seq - task[u].pkt.seq <= p.ts - m
    BY <1>2, <2>2, <2>3, BehindNext
  <2>5. Behind(task[u].pkt.seq, m)'
    BY <2>1, <2>4 DEF Behind
  <2>6. Carries(task', u) => Carries(task, u)
    BY <1>6 DEF Carries
  <2>7. Carries(task', u) /\ Touched'.expected # 0 /\ ~ resync' =>
          Counted(Touched') + (task'[u].pkt.seq - Touched'.expected) <= Unaccepted(m)'
    BY <1>5, <2>1, <2>6 DEF Owes
  <2>8. task'[u].pc \in {"stats", "expect"} => task'[u] = task[u]
    BY <1>6 DEF Carries
  <2>9. task'[u].pc = "stats" =>
          Counted(Touched') + task'[u].upd.lost + task'[u].upd.undone <= Unaccepted(m)'
    BY <1>5, <2>1, <2>8 DEF Owes
  <2>10. task'[u].pc \in {"stats", "expect"} => task'[u].upd.next >= task'[u].pkt.seq + 1
    BY <2>1, <2>8 DEF Owes
  <2>11. QED
    BY <2>3, <2>5, <2>7, <2>9, <2>10 DEF Owes
<1>7. ASSUME \A u \in Slots : ~ Busy(task', u), Touched'.expected # 0, ~ resync'
      PROVE  Behind(Touched.expected - 1, m)'
  <2>1. Behind(Touched.expected - 1, m) /\ Touched.expected - 1 \in Nat
    BY <1>2, <1>7, HashFacts
  <2>2. /\ uav'.seq - (Touched.expected - 1) <= uav'.clock + 1 - m
        /\ \A p \in Flown' : p.ts > m => p.seq - (Touched.expected - 1) <= p.ts - m
    BY <1>2, <2>1, BehindNext
  <2>3. QED
    BY <2>2 DEF Behind
<1>8. accepted' \subseteq 1..m /\ Counted(Touched)' <= Unaccepted(m)'
  BY <1>2, <1>5
<1>9. QED
  BY <1>3, <1>4, <1>6, <1>7, <1>8 DEF Books

\* A task that goes on, or ends, away from where losses are counted.
LEMMA Aside ==
  ASSUME LogInv, NEW t \in Slots,
         \/ End(t) /\ (~ Busy(task, t) \/ resync')
         \/ /\ task[t].pc = "range" /\ GoTo(t, "state")
         \/ /\ task[t].pc = "own" /\ ~ task[t].pkt.fec /\ GoTo(t, "log")
         \/ /\ ~ Busy(task, t) /\ (GoTo(t, "fecstats") \/ GoTo(t, "fecclear"))
  PROVE  /\ \A u \in Slots : Busy(task', u) =>
              \/ Busy(task, u) /\ task'[u] = task[u]
              \/ Carries(task, u) /\ Carries(task', u) /\ task'[u].pkt = task[u].pkt
         /\ (\A u \in Slots : ~ Busy(task', u)) => (\A u \in Slots : ~ Busy(task, u)) \/ resync'
<1>0. TaskTyped(task)
  BY DEF LogInv, Typed
<1>1. CASE End(t) /\ (~ Busy(task, t) \/ resync')
  <2>1. task'[t].pc = "idle" /\ \A u \in Slots : u # t => task'[u] = task[u]
    BY <1>0, <1>1, EndMeans
  <2>2. ~ Busy(task', t)
    BY <2>1 DEF Busy, Carries
  <2>3. QED
    BY <1>1, <2>1, <2>2 DEF Busy, Carries
<1>2. CASE \/ task[t].pc = "range" /\ GoTo(t, "state")
           \/ task[t].pc = "own" /\ ~ task[t].pkt.fec /\ GoTo(t, "log")
  <2>1. /\ task'[t].pc \in {"state", "log"} /\ task'[t].pkt = task[t].pkt
        /\ \A u \in Slots : u # t => task'[u] = task[u]
    <3>1. "pkt" \in DOMAIN task[t] /\ "pkt" # "pc"
      BY <1>0, <1>2 DEF TaskTyped
    <3>2. QED
      BY <1>0, <1>2, <3>1, GoToMeans
  <2>2. Carries(task, t) <=> ~ task[t].pkt.fec
    BY <1>2 DEF Carries
  <2>3. Carries(task', t) <=> ~ task[t].pkt.fec
    BY <2>1 DEF Carries
  <2>4. \A u \in Slots : u # t => (Busy(task', u) <=> Busy(task, u))
    BY <2>1 DEF Busy, Carries
  <2>5. Busy(task', t) <=> Carries(task', t)
    BY <2>1 DEF Busy
  <2>6. Busy(task, t) <=> Carries(task, t)
    BY <1>2 DEF Busy
  <2>7. QED
    BY <2>1, <2>2, <2>3, <2>4, <2>5, <2>6
<1>3. CASE ~ Busy(task, t) /\ (GoTo(t, "fecstats") \/ GoTo(t, "fecclear"))
  <2>1. /\ task'[t].pc \in {"fecstats", "fecclear"}
        /\ \A u \in Slots : u # t => task'[u] = task[u]
    BY <1>0, <1>3, GoToMeans
  <2>2. ~ Busy(task', t)
    BY <2>1 DEF Busy, Carries
  <2>3. QED
    BY <1>3, <2>1, <2>2 DEF Busy, Carries
<1>4. QED
  BY <1>1, <1>2, <1>3

LEMMA SameTouched ==
  ASSUME hash' = hash \/ hash' = Touched
  PROVE  Touched' = Touched
BY DEF Touched, NoSession

LEMMA BooksTask ==
  ASSUME LogInv, GapInv, [Next]_vars, NEW m \in Nat, Books(m), NEW t \in Slots,
         \/ EvaluateLinkGate(t) \/ ReadState(t) \/ Own(t) \/ FecStats(t) \/ FecClear(t)
         \/ StoreInWindow(t)
  PROVE  Books(m)'
<1>0. TaskTyped(task) /\ Touched \in Hashes
  BY HashFacts DEF LogInv, Typed
<1>1. CASE EvaluateLinkGate(t)
  <2>1. UNCHANGED <<hash, accepted, session, last_ts>> /\ (resync => resync')
    BY <1>1 DEF EvaluateLinkGate, historyVars
  <2>2. (End(t) /\ resync') \/ (task[t].pc = "range" /\ GoTo(t, "state"))
    BY <1>1 DEF EvaluateLinkGate, At
  <2>3. Touched' = Touched
    BY <2>1, SameTouched
  <2>4. QED
    BY <2>1, <2>2, <2>3, Aside, BooksKept
<1>2. CASE ReadState(t)
  <2> DEFINE r == [pc |-> "own", pkt |-> task[t].pkt,
                   expected |-> hash'.expected, lost |-> hash'.lost]
  <2>1. /\ UNCHANGED <<accepted, session, last_ts, resync>>
        /\ hash' = IF hash = None THEN NewSession ELSE hash
        /\ task[t].pc = "state" /\ task' = [task EXCEPT ![t] = r]
    BY <1>2 DEF ReadState, At, stationVars, historyVars
  <2>2. task'[t] = r /\ \A u \in Slots : u # t => task'[u] = task[u]
    BY <1>0, <2>1 DEF TaskTyped
  <2>3. task'[t].pc = "own" /\ task'[t].pkt = task[t].pkt
    BY <2>2
  <2> HIDE DEF r
  <2>4. Busy(task', t) => Carries(task, t) /\ Carries(task', t) /\ task'[t].pkt = task[t].pkt
    BY <2>1, <2>3 DEF Busy, Carries
  <2>5. Busy(task, t) => Busy(task', t)
    BY <2>1, <2>3 DEF Busy, Carries
  <2>6. \A u \in Slots : u # t => (Busy(task', u) <=> Busy(task, u))
    BY <2>2 DEF Busy, Carries
  <2>7. Counted(Touched') = Counted(Touched) /\ Touched'.expected = Touched.expected
    <3>1. CASE hash = None
      <4>1. Touched = NoSession /\ Touched' = NewSession
        BY <2>1, <3>1, EmptyBalanced DEF Touched
      <4>2. QED
        BY <4>1 DEF NewSession, NoSession, Counted
    <3>2. CASE hash # None
      BY <2>1, <3>2 DEF Touched
    <3>3. QED
      BY <3>1, <3>2
  <2>8. QED
    BY <2>1, <2>2, <2>4, <2>5, <2>6, <2>7, BooksKept
<1>3. CASE Own(t)
  <2>1. hash' = Touched /\ UNCHANGED <<accepted, session, last_ts, resync>>
    BY <1>3 DEF Own
  <2>2. \/ task[t].pc = "own" /\ ~ task[t].pkt.fec /\ GoTo(t, "log")
        \/ ~ Busy(task, t) /\ (GoTo(t, "fecstats") \/ End(t))
    BY <1>3 DEF Own, At, Busy, Carries
  <2>3. Touched' = Touched
    BY <2>1, SameTouched
  <2>4. QED
    BY <2>1, <2>2, <2>3, Aside, BooksKept
<1>4. CASE FecStats(t)
  <2>1. UNCHANGED <<accepted, session, last_ts, resync>>
    BY <1>4 DEF FecStats, stationVars, historyVars
  <2>2. PICK n \in {0, 1} :
          hash' = [Touched EXCEPT !.lost = @ - n, !.undone = @ + n, !.recovered = @ + 1]
    BY <1>4 DEF FecStats
  <2>3. /\ hash' \in Hashes /\ hash'.expected = Touched.expected
    BY <1>0, <2>2, TakenBack
  <2>4. Counted(hash') = Counted(Touched)
    <3>1. Touched.lost \in Int /\ Touched.undone \in Int
      BY <1>0 DEF Hashes
    <3>2. hash'.lost = Touched.lost - n /\ hash'.undone = Touched.undone + n
      BY <1>0, <2>2 DEF Hashes
    <3>3. QED
      BY <3>1, <3>2 DEF Counted
  <2>5. Touched' = hash'
    BY <2>3 DEF Touched
  <2>6. ~ Busy(task, t) /\ GoTo(t, "fecclear")
    BY <1>4 DEF FecStats, At, Busy, Carries
  <2>7. QED
    BY <2>1, <2>3, <2>4, <2>5, <2>6, Aside, BooksKept
<1>5. CASE FecClear(t) \/ StoreInWindow(t)
  <2>1. UNCHANGED <<hash, accepted, session, last_ts, resync>>
    BY <1>5 DEF FecClear, StoreInWindow, historyVars
  <2>2. End(t) /\ ~ Busy(task, t)
    BY <1>5 DEF FecClear, StoreInWindow, At, Busy, Carries
  <2>3. Touched' = Touched
    BY <2>1, SameTouched
  <2>4. QED
    BY <2>1, <2>2, <2>3, Aside, BooksKept
<1>6. QED
  BY <1>1, <1>2, <1>3, <1>4, <1>5

\* The one task at work counts, within the room it has.
LEMMA BooksWork ==
  ASSUME LogInv, GapInv, [Next]_vars, NEW m \in Nat, Books(m), ~ overlapped,
         NEW t \in Slots, Busy(task, t), \A u \in Slots : u # t => task'[u] = task[u],
         UNCHANGED <<accepted, session, last_ts>>,
         Counted(Touched') <= Unaccepted(m),
         Busy(task', t) => Owes(task, t, m)',
         ~ Busy(task', t) /\ Touched'.expected # 0 /\ ~ resync' => Behind(Touched.expected - 1, m)'
  PROVE  Books(m)'
<1>1. /\ uav.seq \in Nat /\ uav.clock \in Nat
      /\ \A p \in Flown : p.seq \in Nat /\ p.ts \in Nat /\ p.ts <= uav.clock
  BY FlownTyped
<1>2. /\ m <= uav.clock /\ accepted \subseteq 1..m
      /\ session # 0 => \A p \in Flown : p.key = session /\ p.ts > last_ts => p.ts > m
  BY DEF Books
<1>3. m <= uav'.clock
  <2>1. uav'.clock = uav.clock \/ uav'.clock = uav.clock + 1
    BY Aloft
  <2>2. QED
    BY <1>1, <1>2, <2>1
<1>4. session' # 0 => \A p \in Flown' : p.key = session' /\ p.ts > last_ts' => p.ts > m
  <2> SUFFICES ASSUME session' # 0, NEW p \in Flown', p.key = session', p.ts > last_ts'
               PROVE  p.ts > m
    OBVIOUS
  <2>1. p \in Flown \/ p.ts = uav.clock + 1
    BY Aloft
  <2>2. QED
    BY <1>1, <1>2, <2>1
<1>5. \A u \in Slots : Busy(task', u) => u = t
  <2> SUFFICES ASSUME NEW u \in Slots, Busy(task', u), u # t PROVE FALSE
    OBVIOUS
  <2>1. Busy(task, u)
    BY DEF Busy, Carries
  <2>2. Working(task, u) /\ Working(task, t)
    BY <2>1, BusyTyped
  <2>3. QED
    BY <2>2 DEF GapInv
<1>6. Unaccepted(m)' = Unaccepted(m)
  BY DEF Unaccepted
<1>7. \A u \in Slots : Busy(task', u) => Owes(task, u, m)'
  BY <1>5
<1>8. accepted' \subseteq 1..m /\ Counted(Touched)' <= Unaccepted(m)'
  BY <1>2, <1>6
<1>9. QED
  BY <1>3, <1>4, <1>7, <1>8 DEF Books

LEMMA CountRoom ==
  ASSUME NEW e \in Nat, NEW s \in Nat, NEW sync \in BOOLEAN, NEW known
  PROVE  LET upd == CountLosses(e, s, sync, known)
         IN  /\ upd.next >= s + 1
             /\ upd.lost + upd.undone = IF e # 0 /\ s > e /\ ~ sync THEN s - e ELSE 0
<1> DEFINE undone == IF (e # 0 /\ s < e /\ Priority(s)) /\ known > 0 THEN 1 ELSE 0
           next == IF e = 0 \/ s >= e THEN s + 1 ELSE e
           lost == IF e # 0 /\ s > e /\ ~ sync THEN s - e ELSE 0 - undone
           upd == CountLosses(e, s, sync, known)
<1>1. upd.next = next /\ upd.lost = lost /\ upd.undone = undone
  BY DEF CountLosses
<1>2. undone \in {0, 1} /\ (s >= e => undone = 0)
  OBVIOUS
<1> HIDE DEF undone, upd
<1>3. next >= s + 1 /\ lost + undone = IF e # 0 /\ s > e /\ ~ sync THEN s - e ELSE 0
  BY <1>2
<1>4. QED
  BY <1>1, <1>3 DEF upd

LEMMA BooksLog ==
  ASSUME LogInv, GapInv, [Next]_vars, NEW m \in Nat, Books(m), ~ overlapped,
         NEW t \in Slots, LogPacket(t)
  PROVE  Books(m)'
<1> DEFINE pkt == task[t].pkt
           upd == CountLosses(task[t].expected, pkt.seq, resync, task[t].lost)
           r == [pc |-> "stats", pkt |-> pkt, upd |-> upd]
<1>0. TaskTyped(task) /\ Touched.expected \in Nat /\ Counted(Touched) \in Int
  BY HashFacts DEF LogInv, Typed
<1>1. /\ task[t].pc = "log" /\ task' = [task EXCEPT ![t] = r]
      /\ UNCHANGED <<hash, accepted, session, last_ts>> /\ resync' = FALSE
  BY DEF LogPacket, At
<1>2. Carries(task, t) /\ Busy(task, t)
  BY <1>0, <1>1 DEF TaskTyped, Carries, Busy
<1>3. pkt.seq \in Nat /\ Working(task, t)
  BY <1>2, BusyTyped
<1>4. task[t].expected \in Nat /\ resync \in BOOLEAN /\ task[t].expected = Touched.expected
  BY <1>1, <1>3 DEF GapInv, TaskFields, InStep
<1>5. /\ upd.next >= pkt.seq + 1
      /\ upd.lost + upd.undone =
           IF Touched.expected # 0 /\ pkt.seq > Touched.expected /\ ~ resync
           THEN pkt.seq - Touched.expected ELSE 0
      /\ upd \in Updates
  BY <1>3, <1>4, CountRoom, CountFits
<1>6. /\ m <= uav.clock /\ Counted(Touched) <= Unaccepted(m) /\ Owes(task, t, m)
  BY <1>2 DEF Books
<1> HIDE DEF upd
<1>7. task'[t] = r /\ \A u \in Slots : u # t => task'[u] = task[u]
  BY <1>0, <1>1, NewRecord
<1>8. task'[t].pc = "stats" /\ task'[t].pkt = pkt /\ task'[t].upd = upd
  BY <1>7
<1>9. Touched' = Touched
  BY <1>1, SameTouched
<1>10. Unaccepted(m)' = Unaccepted(m) /\ Unaccepted(m) \in Int
  BY <1>1, UnacceptedNumber DEF Unaccepted
<1>11. Counted(Touched) + upd.lost + upd.undone <= Unaccepted(m)
  <2>1. CASE Touched.expected # 0 /\ pkt.seq > Touched.expected /\ ~ resync
    <3>1. Counted(Touched) + (pkt.seq - Touched.expected) <= Unaccepted(m)
      BY <1>2, <1>6, <2>1 DEF Owes
    <3>2. QED
      BY <1>0, <1>5, <1>5, <2>1, <3>1 DEF Updates
  <2>2. CASE ~ (Touched.expected # 0 /\ pkt.seq > Touched.expected /\ ~ resync)
    <3>1. upd.lost + upd.undone = 0 /\ upd.lost \in Int /\ upd.undone \in Int
      BY <1>5, <1>5, <2>2 DEF Updates
    <3>2. QED
      BY <1>0, <1>6, <1>10, <3>1
  <2>3. QED
    BY <2>1, <2>2
<1>12. Busy(task', t) /\ ~ Carries(task', t)
  BY <1>2, <1>8 DEF Busy, Carries
<1>13. Behind(pkt.seq, m) /\ pkt.ts = m
  BY <1>6 DEF Owes
<1>14. /\ uav'.seq - pkt.seq <= uav'.clock + 1 - m
       /\ \A p \in Flown' : p.ts > m => p.seq - pkt.seq <= p.ts - m
  BY <1>3, <1>6, <1>13, BehindNext
<1>15. Owes(task, t, m)'
  BY <1>5, <1>8, <1>9, <1>10, <1>11, <1>12, <1>13, <1>14 DEF Owes, Behind
<1>16. QED
  BY <1>1, <1>2, <1>6, <1>7, <1>9, <1>12, <1>15, BooksWork

LEMMA BooksCounters ==
  ASSUME LogInv, GapInv, [Next]_vars, NEW m \in Nat, Books(m), ~ overlapped,
         NEW t \in Slots, UpdateCounters(t)
  PROVE  Books(m)'
<1> DEFINE upd == task[t].upd
<1>0. /\ TaskTyped(task) /\ Touched \in Hashes
      /\ Touched.expected \in Nat /\ Counted(Touched) \in Int
  BY HashFacts DEF LogInv, Typed
<1>1. /\ task[t].pc = "stats" /\ GoTo(t, "expect")
      /\ hash' = [WithLosses(upd) EXCEPT !.received = @ + 1, !.recovered = @ + upd.recovered]
      /\ UNCHANGED <<accepted, session, last_ts, resync>>
  BY DEF UpdateCounters, At, stationVars, historyVars
<1>2. "pkt" \in DOMAIN task[t] /\ Busy(task, t) /\ ~ task[t].pkt.fec
  BY <1>0, <1>1 DEF TaskTyped, Busy
<1>3. "upd" \in DOMAIN task[t] /\ upd \in Updates
  BY <1>1 DEF GapInv, TaskFields
<1>4. /\ hash' \in Hashes /\ hash'.expected = Touched.expected
  BY <1>0, <1>1, <1>3, Written DEF WithLosses
<1>5. Touched' = hash'
  BY <1>4 DEF Touched
<1>6. Counted(hash') = Counted(Touched) + upd.lost + upd.undone
  <2> DEFINE g == WithLosses(upd)
  <2>1. /\ g \in Hashes
        /\ g.lost = Touched.lost + upd.lost /\ g.undone = Touched.undone + upd.undone
    <3>1. g \in Hashes
      BY <1>0, <1>3, Written DEF WithLosses
    <3>2. QED
      BY <1>0, <3>1 DEF WithLosses, Hashes
  <2>2. hash' = [g EXCEPT !.received = @ + 1, !.recovered = @ + upd.recovered]
    BY <1>1
  <2> HIDE DEF g
  <2>3. hash'.lost = g.lost /\ hash'.undone = g.undone
    BY <2>1, <2>2 DEF Hashes
  <2>4. /\ Touched.lost \in Int /\ Touched.undone \in Int
        /\ upd.lost \in Int /\ upd.undone \in Int
    BY <1>0, <1>3 DEF Hashes, Updates
  <2> HIDE DEF upd
  <2>5. QED
    BY <2>1, <2>3, <2>4 DEF Counted
<1>7. /\ \A u \in Slots : u # t => task'[u] = task[u]
      /\ task'[t].pc = "expect" /\ task'[t].pkt = task[t].pkt /\ task'[t].upd = upd
  <2>1. "pkt" # "pc" /\ "upd" # "pc"
    OBVIOUS
  <2>2. QED
    BY <1>0, <1>1, <1>2, <1>3, <2>1, GoToMeans
<1>8. m <= uav.clock /\ Owes(task, t, m)
  BY <1>2 DEF Books
<1>9. Counted(Touched') <= Unaccepted(m)
  BY <1>1, <1>5, <1>6, <1>8 DEF Owes
<1>10. Busy(task', t) /\ ~ Carries(task', t)
  BY <1>2, <1>7 DEF Busy, Carries
<1>11. /\ Behind(task[t].pkt.seq, m) /\ task[t].pkt.ts = m /\ task[t].pkt.seq \in Nat
       /\ upd.next >= task[t].pkt.seq + 1
  BY <1>1, <1>2, <1>8, BusyTyped DEF Owes
<1>12. /\ uav'.seq - task[t].pkt.seq <= uav'.clock + 1 - m
       /\ \A p \in Flown' : p.ts > m => p.seq - task[t].pkt.seq <= p.ts - m
  BY <1>8, <1>11, BehindNext
<1>13. Owes(task, t, m)'
  BY <1>7, <1>10, <1>11, <1>12 DEF Owes, Behind
<1>14. QED
  BY <1>1, <1>2, <1>7, <1>9, <1>10, <1>13, BooksWork

\* The expected number has passed the packet: what comes after it is near enough.
LEMMA BooksExpected ==
  ASSUME LogInv, GapInv, [Next]_vars, NEW m \in Nat, Books(m), ~ overlapped,
         NEW t \in Slots, UpdateExpected(t)
  PROVE  Books(m)'
<1> DEFINE upd == task[t].upd
           base == IF upd.first THEN task[t].pkt.seq ELSE Touched.base
<1>0. TaskTyped(task) /\ Touched \in Hashes
  BY HashFacts DEF LogInv, Typed
<1>1. /\ task[t].pc = "expect" /\ GoTo(t, "store")
      /\ hash' = [Touched EXCEPT !.expected = upd.next, !.base = base]
      /\ UNCHANGED <<accepted, session, last_ts, resync>>
  BY DEF UpdateExpected, At, stationVars, historyVars
<1>2. "pkt" \in DOMAIN task[t] /\ Busy(task, t) /\ ~ task[t].pkt.fec
  BY <1>0, <1>1 DEF TaskTyped, Busy
<1>3. /\ upd \in Updates /\ upd.next \in Nat
      /\ task[t].pkt.seq \in Nat /\ base \in Int
  <2>1. upd \in Updates /\ task[t].pkt.seq \in Nat
    BY <1>1, <1>2, BusyTyped DEF GapInv, TaskFields
  <2>2. QED
    BY <1>0, <2>1 DEF Updates, Hashes
<1> HIDE DEF base, upd
<1>4. hash' \in Hashes /\ hash'.expected = upd.next /\ Counted(hash') = Counted(Touched)
  <2> DEFINE g == [Touched EXCEPT !.expected = upd.next, !.base = base]
  <2>1. g.expected = upd.next /\ g.lost = Touched.lost /\ g.undone = Touched.undone
    BY <1>0 DEF Hashes
  <2>2. g \in Hashes
    BY <1>0, <1>3 DEF Hashes
  <2>3. hash' = g
    BY <1>1
  <2> HIDE DEF g
  <2>4. QED
    BY <2>1, <2>2, <2>3 DEF Counted
<1>5. Touched' = hash'
  BY <1>4 DEF Touched
<1>6. /\ \A u \in Slots : u # t => task'[u] = task[u]
      /\ task'[t].pc = "store"
  BY <1>0, <1>1, GoToMeans
<1>7. ~ Busy(task', t)
  BY <1>6 DEF Busy, Carries
<1>8. m <= uav.clock /\ Owes(task, t, m) /\ Counted(Touched) <= Unaccepted(m)
  BY <1>2 DEF Books
<1>9. /\ Behind(task[t].pkt.seq, m) /\ upd.next >= task[t].pkt.seq + 1
  BY <1>1, <1>8 DEF Owes, upd
<1>10. /\ uav'.seq - task[t].pkt.seq <= uav'.clock + 1 - m
       /\ \A p \in Flown' : p.ts > m => p.seq - task[t].pkt.seq <= p.ts - m
  BY <1>3, <1>8, <1>9, BehindNext
<1>11. /\ uav'.seq \in Nat /\ uav'.clock \in Nat
       /\ \A p \in Flown' : p.seq \in Nat /\ p.ts \in Nat
  <2>1. /\ uav.seq \in Nat /\ uav.clock \in Nat
        /\ \A p \in Flown : p.seq \in Nat /\ p.ts \in Nat
    BY FlownTyped
  <2>2. QED
    BY <2>1, Aloft
<1>12. Behind(Touched.expected - 1, m)'
  <2>1. uav'.seq - (upd.next - 1) <= uav'.clock + 1 - m
    BY <1>3, <1>9, <1>10, <1>11
  <2>2. ASSUME NEW p \in Flown', p.ts > m PROVE p.seq - (upd.next - 1) <= p.ts - m
    BY <1>3, <1>9, <1>10, <1>11, <2>2
  <2>3. Touched'.expected = upd.next
    BY <1>4, <1>5
  <2>4. QED
    BY <2>1, <2>2, <2>3 DEF Behind
<1>13. QED
  BY <1>1, <1>2, <1>4, <1>5, <1>6, <1>7, <1>8, <1>12, BooksWork

LEMMA BooksArrive ==
  ASSUME LogInv, GapInv, Steady, [Next]_vars, NEW m \in Nat, Books(m), ~ overlapped',
         NEW t \in Slots, Arrive(t)
  PROVE  \E n \in Nat : Books(n)'
<1>1. PICK pkt : pkt = Head(net)
  OBVIOUS
<1> DEFINE n == pkt.ts
           r == [pc |-> "range", pkt |-> pkt]
           U == Unaccepted(m)
<1>2. /\ TaskTyped(task) /\ net \in Seq(Telemetries \cup Sums) /\ net # <<>>
      /\ task[t].pc = "idle" /\ UNCHANGED <<hash, resync, session>> /\ net' = Tail(net)
  BY DEF LogInv, Typed, Arrive, At
<1>3. Touched' = Touched
  BY <1>2, SameTouched
<1>4. ~ Busy(task, t)
  BY <1>2 DEF Busy, Carries
<1>5. CASE UNCHANGED <<task, last_ts, accepted>>
  <2>1. Books(m)'
    BY <1>2, <1>3, <1>5, BooksKept
  <2>2. QED
    BY <2>1
<1>6. CASE Accept(t, pkt)
  <2>1. task'[t] = r /\ \A u \in Slots : u # t => task'[u] = task[u]
    BY <1>2, <1>6 DEF Accept, TaskTyped
  <2>2. task'[t].pc = "range" /\ task'[t].pkt = pkt
    BY <2>1
  <2>3. CASE pkt.fec /\ UNCHANGED <<last_ts, accepted>>
    <3>1. ~ Busy(task', t)
      BY <2>2, <2>3 DEF Busy, Carries
    <3>2. \A u \in Slots : u # t => (Busy(task', u) <=> Busy(task, u))
      BY <2>1 DEF Busy, Carries
    <3>3. Books(m)'
      BY <1>2, <1>3, <1>4, <2>1, <2>3, <3>1, <3>2, BooksKept
    <3>4. QED
      BY <3>3
  <2>4. CASE /\ ~ pkt.fec /\ last_ts' = n /\ accepted' = accepted \cup {n}
             /\ session # 0 /\ session = pkt.key /\ ~ (n <= last_ts)
             /\ overlapped' = (overlapped \/ InWork)
    <3>1. pkt \in Flown
      BY <1>2, <1>1, <2>4, FlyingTail DEF Flown
    <3>2. /\ uav.seq \in Nat /\ uav.clock \in Nat
          /\ \A p \in Flown : p.seq \in Nat /\ p.ts \in Nat /\ p.ts <= uav.clock
      BY FlownTyped
    <3>3. pkt.seq \in Nat /\ n \in Nat /\ n <= uav.clock /\ last_ts \in Nat /\ n > last_ts
      BY <2>4, <3>1, <3>2 DEF LogInv, Typed
    <3>4. /\ m < n /\ accepted \subseteq 1..m /\ Counted(Touched) <= U
      BY <2>4, <3>1, <3>3 DEF Books
    <3>5. /\ uav'.clock = uav.clock /\ uav'.seq = uav.seq /\ Flown' \subseteq Flown
      <4>1. uav' = uav
        BY <1>6 DEF Accept
      <4>2. Flying(net') \subseteq Flying(net)
        BY <1>2, FlyingTail
      <4>3. QED
        BY <4>1, <4>2 DEF Flown
    <3>6. U \in Nat /\ Unaccepted(n)' = U + (n - 1 - m)
      <4> DEFINE A == accepted
      <4> HIDE DEF n, A
      <4>1. /\ Cardinality((1..m) \ A) \in Nat
            /\ Cardinality((1..n) \ (A \cup {n})) = Cardinality((1..m) \ A) + (n - 1 - m)
        <5>1. A \subseteq 1..m
          BY <3>4 DEF A
        <5>2. QED
          BY <3>3, <3>4, <5>1, Widened
      <4>2. QED
        BY <2>4, <4>1 DEF A, Unaccepted
    <3>7. \A u \in Slots : ~ Busy(task, u)
      <4>1. ~ InWork
        BY <2>4
      <4>2. QED
        BY <4>1, BusyTyped DEF InWork, Working, At
    <3>8. Carries(task', t)
      BY <2>2, <2>4 DEF Carries
    <3>9. \A u \in Slots : Busy(task', u) => u = t
      BY <2>1, <3>7 DEF Busy, Carries
    <3>10. Behind(pkt.seq, n)'
      <4>1. uav'.seq - pkt.seq <= uav'.clock + 1 - n
        BY <3>1, <3>5 DEF Steady
      <4>2. \A p \in Flown' : p.ts > n => p.seq - pkt.seq <= p.ts - n
        BY <3>1, <3>2, <3>3, <3>5 DEF Steady
      <4>3. QED
        BY <4>1, <4>2 DEF Behind
    <3>11. Counted(Touched) \in Int /\ Touched.expected \in Nat
      BY HashFacts
    <3>12. ASSUME Touched.expected # 0, ~ resync
           PROVE  Counted(Touched) + (pkt.seq - Touched.expected) <= Unaccepted(n)'
      <4>1. Behind(Touched.expected - 1, m)
        BY <3>7, <3>12 DEF Books
      <4>2. pkt.seq - (Touched.expected - 1) <= n - m
        BY <3>1, <3>4, <4>1 DEF Behind
      <4> HIDE DEF U, n
      <4>3. QED
        BY <3>3, <3>4, <3>6, <3>11, <4>2
    <3>13. Owes(task, t, n)'
      BY <1>3, <1>2, <2>2, <3>8, <3>10, <3>12 DEF Owes
    <3>14. Books(n)'
      <4>1. n <= uav'.clock /\ accepted' \subseteq 1..n
        <5>1. accepted' = accepted \cup {n} /\ n <= uav'.clock
          BY <2>4, <3>3, <3>5
        <5>2. 1..m \subseteq 1..n /\ n \in 1..n
          BY <3>3, <3>4
        <5>3. QED
          BY <3>4, <5>1, <5>2
      <4>2. session' # 0 => \A p \in Flown' : p.key = session' /\ p.ts > last_ts' => p.ts > n
        BY <2>4
      <4>3. Counted(Touched') <= Unaccepted(n)'
        <5> HIDE DEF U, n
        <5>1. QED
          BY <1>3, <3>3, <3>4, <3>6, <3>11
      <4>4. \A u \in Slots : Busy(task', u) => Owes(task, u, n)'
        BY <3>9, <3>13
      <4>5. Busy(task', t)
        BY <3>8 DEF Busy
      <4>6. QED
        BY <4>1, <4>2, <4>3, <4>4, <4>5 DEF Books
    <3>15. QED
      BY <3>3, <3>14
  <2>5. QED
    <3>1. \/ UNCHANGED <<task, last_ts, accepted>>
          \/ pkt.fec /\ UNCHANGED <<last_ts, accepted>>
          \/ /\ ~ pkt.fec /\ last_ts' = n /\ accepted' = accepted \cup {n}
             /\ session # 0 /\ session = pkt.key /\ ~ (n <= last_ts)
             /\ overlapped' = (overlapped \/ InWork)
      BY <1>1 DEF Arrive
    <3>2. QED
      BY <3>1, <1>5, <2>3, <2>4
<1>7. QED
  <2>1. UNCHANGED <<task, last_ts, accepted>> \/ Accept(t, pkt)
    BY <1>1 DEF Arrive
  <2>2. QED
    BY <2>1, <1>5, <1>6

LEMMA BooksWorld ==
  ASSUME LogInv, GapInv, [Next]_vars, NEW m \in Nat, Books(m), ~ overlapped', ~ disturbed',
         \/ Handshake \/ SendTelemetry \/ CloseSession \/ Forget \/ GksRestart \/ UavRestart
         \/ Move \/ Lose \/ Repeat \/ Delay \/ UNCHANGED vars
  PROVE  Books(m)'
<1>0. /\ uav.key \in Nat /\ uav.clock \in Nat
      /\ \A p \in Flown : p.key \in Nat /\ p.key <= uav.key
  BY FlownTyped
<1>1. CASE CloseSession
  <2>1. /\ hash' = None /\ ~ InWork
        /\ UNCHANGED <<uav, net, session, last_ts, task, accepted>>
    BY <1>1 DEF CloseSession
  <2>2. Touched'.expected = 0 /\ Counted(Touched') = 0
    BY <2>1 DEF Touched, NoSession, Counted
  <2>3. \A u \in Slots : ~ Busy(task', u)
    BY <2>1, BusyTyped DEF InWork, Working, At, Busy, Carries
  <2>4. 0 <= Unaccepted(m) /\ Unaccepted(m)' = Unaccepted(m) /\ Flown' = Flown
    BY <2>1, UnacceptedNumber DEF Unaccepted, Flown
  <2>5. Books(m)'
    BY <2>1, <2>2, <2>3, <2>4 DEF Books
  <2>6. QED
    BY <2>5
<1>2. CASE Forget
  <2>1. /\ session' = 0 /\ hash = None /\ UNCHANGED <<task, hash, accepted>>
    BY <1>2 DEF Forget
  <2>2. Touched' = Touched /\ Touched.expected = 0
    BY <2>1 DEF Touched, NoSession
  <2>3. QED
    BY <2>1, <2>2, BooksKept DEF Busy, Carries
<1>3. CASE Handshake
  <2>1. /\ session' = uav.key + 1 /\ net' = net
        /\ UNCHANGED <<task, hash, accepted, resync>>
    BY <1>3 DEF Handshake, historyVars
  <2>2. \A p \in Flown' : p.key # session'
    BY <1>0, <2>1 DEF Flown
  <2>3. Touched' = Touched
    BY <2>1, SameTouched
  <2>4. QED
    BY <2>1, <2>2, <2>3, BooksKept DEF Busy, Carries
<1>4. CASE SendTelemetry \/ UavRestart \/ Move \/ Lose \/ Repeat \/ Delay \/ UNCHANGED vars
  <2>1. UNCHANGED <<session, last_ts, task, hash, accepted, resync>>
    BY <1>4 DEF SendTelemetry, UavRestart, Move, Lose, Repeat, Delay, vars, stationVars, historyVars
  <2>2. Touched' = Touched
    BY <2>1, SameTouched
  <2>3. QED
    BY <2>1, <2>2, BooksKept DEF Busy, Carries
<1>5. CASE GksRestart
  BY <1>5 DEF GksRestart
<1>6. QED
  BY <1>1, <1>2, <1>3, <1>4, <1>5

LEMMA LossStarts == Init => LossInv
<1> SUFFICES ASSUME Init PROVE LossInv
  OBVIOUS
<1>1. /\ uav.seq = 1 /\ uav.clock = 0 /\ net = <<>> /\ session = 0 /\ accepted = {}
      /\ hash = None /\ task = [t \in Slots |-> Idle]
  BY DEF Init
<1>2. Flown = {}
  BY <1>1 DEF Flown, Flying
<1>3. \A u \in Slots : ~ Busy(task, u)
  BY <1>1 DEF Busy, Carries, Idle
<1>4. Touched.expected = 0 /\ Counted(Touched) = 0
  BY <1>1 DEF Touched, NoSession, Counted
<1>5. 0 \in Nat /\ Unaccepted(0) >= 0
  <2>1. 0 \in Nat
    OBVIOUS
  <2>2. Unaccepted(0) \in Nat
    BY <2>1, UnacceptedNumber
  <2>3. QED
    BY <2>2
<1>6. Books(0)
  BY <1>1, <1>2, <1>3, <1>4, <1>5 DEF Books
<1>7. Steady
  BY <1>1, <1>2 DEF Steady
<1>8. QED
  BY <1>5, <1>6, <1>7 DEF LossInv

LEMMA LossSteps == LogInv /\ GapInv /\ LossInv /\ [Next]_vars => LossInv'
<1> SUFFICES ASSUME LogInv, GapInv, LossInv, [Next]_vars PROVE LossInv'
  OBVIOUS
<1>1. Steady'
  BY SteadyNext DEF LossInv
<1>2. ASSUME ~ overlapped', ~ disturbed' PROVE \E n \in Nat : Books(n)'
  <2>1. ~ overlapped /\ ~ disturbed
    <3>1. ASSUME NEW t \in Slots, TaskStep(t), ~ Arrive(t) PROVE UNCHANGED <<overlapped, disturbed>>
      BY <3>1 DEF TaskStep, EvaluateLinkGate, ReadState, Own, FecStats, FecClear, LogPacket,
           UpdateCounters, UpdateExpected, StoreInWindow, historyVars
    <3>2. ASSUME NEW t \in Slots, Arrive(t) PROVE ~ overlapped /\ ~ disturbed
      <4>1. disturbed' = disturbed
        BY <3>2 DEF Arrive
      <4>2. ~ disturbed
        BY <1>2, <4>1
      <4>3. overlapped' = overlapped \/ overlapped' = (overlapped \/ InWork)
        BY <3>2 DEF Arrive
      <4>4. ASSUME overlapped PROVE FALSE
        BY <1>2, <4>3, <4>4 DEF InWork
      <4>5. QED
        BY <4>2, <4>4
    <3>3. ASSUME NEW t \in Slots, TaskFails(t) PROVE FALSE
      BY <1>2, <3>3 DEF TaskFails
    <3>4. CASE \/ Handshake \/ SendTelemetry \/ UavRestart \/ Move \/ Lose \/ Repeat \/ Delay
               \/ UNCHANGED vars
      BY <1>2, <3>4 DEF Handshake, SendTelemetry, UavRestart, Move, Lose, Repeat, Delay,
           vars, historyVars
    <3>5. CASE CloseSession \/ Forget \/ GksRestart
      <4>1. CASE CloseSession
        <5>1. overlapped' = (overlapped \/ InWork) /\ disturbed' = disturbed
          BY <4>1 DEF CloseSession
        <5>2. QED
          BY <1>2, <5>1 DEF InWork
      <4>2. CASE Forget
        <5>1. disturbed' = (disturbed \/ hash # None) /\ overlapped' = overlapped
          BY <4>2 DEF Forget
        <5>2. QED
          BY <1>2, <5>1
      <4>3. QED
        BY <1>2, <3>5, <4>1, <4>2 DEF GksRestart
    <3>6. QED
      BY <1>2, <3>1, <3>2, <3>3, <3>4, <3>5 DEF Next
  <2>2. PICK m \in Nat : Books(m)
    BY <2>1 DEF LossInv
  <2>3. CASE \E t \in Slots : TaskStep(t) \/ TaskFails(t)
    <3>1. PICK t \in Slots : TaskStep(t) \/ TaskFails(t)
      BY <2>3
    <3>2. CASE Arrive(t)
      BY <1>2, <2>2, <3>2, BooksArrive DEF LossInv
    <3>3. CASE TaskFails(t)
      BY <1>2, <3>3 DEF TaskFails
    <3>4. CASE TaskStep(t) /\ ~ Arrive(t)
      <4>1. Books(m)'
        BY <2>1, <2>2, <3>4, BooksTask, BooksLog, BooksCounters, BooksExpected DEF TaskStep
      <4>2. QED
        BY <4>1
    <3>5. QED
      BY <3>1, <3>2, <3>3, <3>4
  <2>4. CASE ~ \E t \in Slots : TaskStep(t) \/ TaskFails(t)
    <3>1. Books(m)'
      BY <1>2, <2>2, <2>4, BooksWorld DEF Next
    <3>2. QED
      BY <3>1
  <2>5. QED
    BY <2>3, <2>4
<1>3. QED
  BY <1>1, <1>2 DEF LossInv

\* What is counted as lost was never accepted, whatever is lost, repeated or
\* delayed, however often the UAV restarts, leaves and returns, and sessions are
\* closed (server.py:336, 594-604, 623-626).
THEOREM LossesAreReal == Spec => []LossIsReal
<1>1. LogInv /\ GapInv /\ LossInv => LossIsReal
  <2> SUFFICES ASSUME LogInv, GapInv, LossInv, ~ overlapped, ~ disturbed, hash # None
               PROVE  hash.lost + hash.undone <= Cardinality((1..uav.clock) \ accepted)
    BY DEF LossIsReal
  <2>1. PICK m \in Nat : Books(m)
    BY DEF LossInv
  <2>2. Touched = hash /\ Counted(hash) \in Int /\ uav.clock \in Nat
    BY HashFacts, FlownTyped DEF Touched
  <2>3. m <= uav.clock /\ Counted(hash) <= Unaccepted(m)
    BY <2>1, <2>2 DEF Books
  <2>4. /\ Unaccepted(m) \in Nat /\ Unaccepted(uav.clock) \in Nat
        /\ Unaccepted(m) <= Unaccepted(uav.clock)
    BY <2>2, <2>3, Wider DEF Unaccepted
  <2>5. Counted(hash) <= Unaccepted(uav.clock)
    BY <2>2, <2>3, <2>4
  <2>6. QED
    BY <2>5 DEF Counted, Unaccepted
<1>2. LogInv /\ GapInv /\ [Next]_vars => GapInv'
  BY GapTaskSteps, GapWorldStep DEF Next
<1>3. QED
  BY <1>1, <1>2, LogStarts, LogSteps, GapStarts, LossStarts, LossSteps, PTL DEF Spec

-----------------------------------------------------------------------------
-----------------------------------------------------------------------------
(* The types and the limits of what waits. *)

Stored == [seq : Clocks, ts : Clocks]

WindowOK(w) == w # None => w \subseteq Stored /\ IsFiniteSet(w) /\ Cardinality(w) <= 3

\* What every task carries was sent within the bounds.
TasksOK(tk) ==
  \A u \in Slots : /\ tk[u].pc = "idle" => tk[u] = Idle
                   /\ tk[u].pc # "idle" /\ ~ tk[u].pkt.fec => tk[u].pkt.seq \in Clocks

LimitsInv ==
  /\ uav.seq >= 1 /\ uav.seq <= uav.clock + 1 /\ uav.clock <= MaxClock
  /\ Len(uav.fec_buffer) < 3
  /\ Len(net) <= MaxNet
  /\ \A p \in Flown : p.seq \in Clocks
  /\ TasksOK(task)
  /\ last_ts <= MaxClock
  /\ WindowOK(window)
  /\ closing \in BOOLEAN
  /\ events \in 0..MaxEvents

LEMMA Bounds == MaxClock \in Nat /\ MaxNet \in Nat /\ MaxEvents \in Nat /\ Clocks = 1..MaxClock
BY DEF Clocks

\* A buffer of two that gets a third is emptied.
LEMMA BufferShort ==
  ASSUME NEW b \in Seq(Clocks), Len(b) < 3, NEW ts \in Clocks
  PROVE  /\ BufferAfterFec(b) = b
         /\ BufferAfterFec(Append(b, ts)) \in Seq(Clocks) /\ Len(BufferAfterFec(Append(b, ts))) < 3
<1>1. Append(b, ts) \in Seq(Clocks) /\ Len(Append(b, ts)) = Len(b) + 1 /\ Len(b) \in Nat
  OBVIOUS
<1> DEFINE c == Append(b, ts)
<1> HIDE DEF c
<1>2. c \in Seq(Clocks) /\ Len(c) = Len(b) + 1
  BY <1>1 DEF c
<1>3. <<>> \in Seq(Clocks) /\ Len(<<>>) = 0
  OBVIOUS
<1>4. BufferAfterFec(b) = b
  <2>1. Len(b) # 3
    BY <1>1
  <2>2. QED
    BY <2>1 DEF BufferAfterFec
<1>5. CASE Len(c) = 3
  BY <1>2, <1>3, <1>4, <1>5 DEF BufferAfterFec, c
<1>6. CASE Len(c) # 3
  BY <1>1, <1>2, <1>4, <1>6 DEF BufferAfterFec, c
<1>7. QED
  BY <1>5, <1>6

\* The window keeps three: the lowest number leaves when a fourth comes.
LEMMA WindowKept ==
  ASSUME NEW w \in SUBSET Stored, IsFiniteSet(w), Cardinality(w) <= 3, NEW x \in Stored,
         NEW win, win = {y \in w : y.seq # x.seq} \cup {x},
         NEW least, least = {y \in win : \A z \in win : y.seq <= z.seq}
  PROVE  WindowOK(IF Cardinality(win) > 3 THEN win \ least ELSE win)
<1> DEFINE rest == {y \in w : y.seq # x.seq}
<1>1. IsFiniteSet(rest) /\ Cardinality(rest) <= Cardinality(w)
  BY FS_Subset
<1>2. Cardinality(w) \in Nat /\ Cardinality(rest) \in Nat
  BY <1>1, FS_CardinalityType
<1>3. win = rest \cup {x} /\ win \subseteq Stored
  OBVIOUS
<1> HIDE DEF rest
<1>4. IsFiniteSet(win) /\ Cardinality(win) \in Nat /\ Cardinality(win) <= 4
  <2>1. /\ IsFiniteSet(win)
        /\ Cardinality(win) = IF x \in rest THEN Cardinality(rest) ELSE Cardinality(rest) + 1
    BY <1>1, <1>3, FS_AddElement
  <2>2. QED
    BY <1>1, <1>2, <2>1
<1>5. CASE Cardinality(win) > 3
  <2>1. \A y \in win : y.seq \in Nat
    BY <1>3, Bounds DEF Stored
  <2>2. PICK y \in win : \A z \in win : y.seq <= z.seq
    <3> DEFINE S == {y.seq : y \in win}
    <3>1. S \subseteq Nat /\ S # {}
      BY <1>3, <2>1
    <3>2. PICK n \in S : \A k \in S : ~ (<<k, n>> \in OpToRel(<, Nat))
      BY <3>1, WFMin, NatLessThanWellFounded
    <3>3. ASSUME NEW k \in S PROVE n <= k
      <4>1. n \in Nat /\ k \in Nat /\ ~ (k < n)
        BY <3>1, <3>2 DEF OpToRel
      <4>2. QED
        BY <4>1
    <3>4. QED
      BY <3>3
  <2>3. y \in least /\ least \subseteq win
    BY <2>2
  <2>4. IsFiniteSet(win \ {y}) /\ Cardinality(win \ {y}) = Cardinality(win) - 1
    BY <1>4, FS_RemoveElement
  <2>5. win \ least \in SUBSET (win \ {y})
    BY <2>3
  <2>6. IsFiniteSet(win \ least) /\ Cardinality(win \ least) <= Cardinality(win \ {y})
    BY <2>4, <2>5, FS_Subset
  <2>7. Cardinality(win \ least) \in Nat
    BY <2>6, FS_CardinalityType
  <2>8. Cardinality(win \ least) <= 3
    BY <1>4, <2>4, <2>6, <2>7
  <2>9. QED
    BY <1>3, <1>5, <2>6, <2>8 DEF WindowOK
<1>6. CASE ~ (Cardinality(win) > 3)
  BY <1>3, <1>4, <1>6 DEF WindowOK
<1>7. QED
  BY <1>5, <1>6

-----------------------------------------------------------------------------
LEMMA UavLimits ==
  ASSUME LogInv, LimitsInv, [Next]_vars
  PROVE  /\ uav'.seq >= 1 /\ uav'.seq <= uav'.clock + 1 /\ uav'.clock <= MaxClock
         /\ \A p \in Flown' : p.seq \in Clocks
<1>1. uav.seq \in Nat /\ uav.clock \in Nat
  BY FlownTyped
<1>2. CASE SendTelemetry
  <2>1. /\ uav'.clock = uav.clock + 1 /\ uav'.seq = uav.seq + 1 /\ uav.clock < MaxClock
        /\ \A p \in Flown' : p \in Flown \/ p.seq = uav.seq
    BY <1>2, Launch DEF SendTelemetry, Flown
  <2>2. uav.seq \in Clocks
    BY <1>1, <2>1, Bounds DEF LimitsInv
  <2>3. QED
    BY <1>1, <2>1, <2>2, Bounds DEF LimitsInv
<1>3. CASE ~ SendTelemetry
  <2>1. /\ uav'.clock = uav.clock /\ uav'.seq \in {uav.seq, 1}
        /\ Flown' \subseteq Flown
    BY <1>3, Aloft
  <2>2. QED
    BY <1>1, <2>1, Bounds DEF LimitsInv
<1>4. QED
  BY <1>2, <1>3

LEMMA NetLimit ==
  ASSUME LogInv, LimitsInv, [Next]_vars
  PROVE  Len(net') <= MaxNet
<1> DEFINE S == Telemetries \cup Sums
<1>1. net \in Seq(S) /\ Len(net) \in Nat /\ Len(net) <= MaxNet /\ MaxNet \in Nat
  BY Bounds DEF LogInv, Typed, LimitsInv
<1> HIDE DEF S
<1>2. CASE SendTelemetry
  <2>1. PICK x, y : net' = net \o <<x, y>> \/ net' = Append(net, x)
    BY <1>2 DEF SendTelemetry
  <2>2. Len(net) + 1 < MaxNet
    BY <1>2 DEF SendTelemetry
  <2>3. Len(net \o <<x, y>>) = Len(net) + 2 /\ Len(Append(net, x)) = Len(net) + 1
    BY <1>1
  <2>4. QED
    BY <1>1, <2>1, <2>2, <2>3
<1>3. CASE net' = Tail(net) /\ net # <<>>
  <2>1. Len(Tail(net)) = Len(net) - 1
    BY <1>1, <1>3
  <2>2. QED
    BY <1>1, <1>3, <2>1
<1>4. CASE Lose
  <2>1. PICK i \in 1..Len(net) : net' = RemoveAt(net, i)
    BY <1>4 DEF Lose
  <2>2. QED
    BY <1>1, <2>1, FlyingRemove
<1>5. CASE Repeat
  <2>1. PICK x : net' = Append(net, x)
    BY <1>5 DEF Repeat
  <2>2. Len(net) < MaxNet
    BY <1>5 DEF Repeat
  <2>3. Len(Append(net, x)) = Len(net) + 1
    BY <1>1
  <2>4. QED
    BY <1>1, <2>1, <2>2, <2>3
<1>6. CASE Delay
  <2>1. PICK i \in 1..(Len(net) - 1) : net' = Append(RemoveAt(net, i), net[i])
    BY <1>6 DEF Delay
  <2>2. i \in 1..Len(net)
    BY <1>1
  <2>3. RemoveAt(net, i) \in Seq(S) /\ Len(RemoveAt(net, i)) = Len(net) - 1
    BY <1>1, <2>2, FlyingRemove
  <2>4. PICK a \in Seq(S) : a = RemoveAt(net, i)
    BY <2>3
  <2>5. Len(Append(a, net[i])) = Len(a) + 1
    OBVIOUS
  <2>6. QED
    BY <1>1, <2>1, <2>3, <2>4, <2>5
<1>7. CASE net' = net
  BY <1>1, <1>7
<1>8. QED
  <2>1. ASSUME NEW t \in Slots, TaskStep(t) \/ TaskFails(t)
        PROVE  net' = net \/ (net' = Tail(net) /\ net # <<>>)
    BY <2>1 DEF TaskStep, Arrive, EvaluateLinkGate, ReadState, Own, FecStats, FecClear, LogPacket,
         UpdateCounters, UpdateExpected, StoreInWindow, TaskFails
  <2>2. ASSUME Handshake \/ CloseSession \/ Forget \/ GksRestart \/ UavRestart \/ Move
               \/ UNCHANGED vars
        PROVE  net' = net
    BY <2>2 DEF Handshake, CloseSession, Forget, GksRestart, UavRestart, Move, vars
  <2>3. QED
    BY <1>2, <1>3, <1>4, <1>5, <1>6, <1>7, <2>1, <2>2 DEF Next

LEMMA BufferLimit ==
  ASSUME LogInv, LimitsInv, [Next]_vars
  PROVE  Len(uav'.fec_buffer) < 3
<1>0. uav \in Uavs /\ uav.fec_buffer \in Seq(Clocks) /\ Len(uav.fec_buffer) < 3
  BY UavTyped DEF LogInv, Typed, LimitsInv
<1>1. CASE SendTelemetry
  <2> DEFINE ts == uav.clock + 1
             buf == IF Priority(uav.seq) THEN Append(uav.fec_buffer, ts) ELSE uav.fec_buffer
             b == BufferAfterFec(buf)
             n == uav.seq + 1
  <2>1. uav' = [uav EXCEPT !.seq = n, !.clock = ts, !.fec_buffer = b] /\ ts \in Clocks
    BY <1>1, Launch DEF SendTelemetry
  <2>2. Len(b) < 3
    BY <1>0, <2>1, BufferShort
  <2> HIDE DEF b, ts, n
  <2>3. uav'.fec_buffer = b
    BY <1>0, <2>1 DEF Uavs
  <2>4. QED
    BY <2>2, <2>3
<1>2. CASE UavRestart
  <2>1. uav'.fec_buffer = <<>>
    BY <1>0, <1>2 DEF UavRestart, Uavs
  <2>2. QED
    BY <2>1
<1>3. CASE \/ uav' = uav \/ uav' = [uav EXCEPT !.secure = FALSE]
           \/ uav' = [uav EXCEPT !.near = ~ @]
           \/ uav' = [uav EXCEPT !.secure = TRUE, !.key = @ + 1]
  <2>1. uav'.fec_buffer = uav.fec_buffer
    BY <1>0, <1>3 DEF Uavs
  <2>2. QED
    BY <1>0, <2>1
<1>4. QED
  <2>1. ASSUME NEW t \in Slots, TaskStep(t) \/ TaskFails(t)
        PROVE  uav' = uav \/ uav' = [uav EXCEPT !.secure = FALSE]
    <3>1. CASE Arrive(t)
      BY <3>1 DEF Arrive, Accept
    <3>2. CASE ~ Arrive(t)
      BY <2>1, <3>2 DEF TaskStep, EvaluateLinkGate, ReadState, Own, FecStats, FecClear, LogPacket,
         UpdateCounters, UpdateExpected, StoreInWindow, TaskFails
    <3>3. QED
      BY <3>1, <3>2
  <2>2. ASSUME CloseSession \/ Forget \/ GksRestart \/ Lose \/ Repeat \/ Delay \/ UNCHANGED vars
        PROVE  uav' = uav
    BY <2>2 DEF CloseSession, Forget, GksRestart, Lose, Repeat, Delay, vars
  <2>3. QED
    BY <1>1, <1>2, <1>3, <2>1, <2>2 DEF Next, Handshake, Move

LEMMA TaskLimits ==
  ASSUME LogInv, LimitsInv, [Next]_vars
  PROVE  TasksOK(task')
<1>0. TaskTyped(task) /\ TasksOK(task) /\ net \in Seq(Telemetries \cup Sums)
  BY DEF LogInv, Typed, LimitsInv
<1>1. CASE task' = task
  BY <1>0, <1>1 DEF TasksOK
<1>2. CASE GksRestart
  BY <1>2 DEF GksRestart, TasksOK, Idle
<1>3. ASSUME NEW t \in Slots, End(t)
      PROVE  TasksOK(task')
  <2>1. \A u \in Slots : u # t => task'[u] = task[u]
    BY <1>0, <1>3, EndMeans
  <2>2. task'[t] = Idle /\ Idle.pc = "idle"
    BY <1>0, <1>3 DEF End, TaskTyped, Idle
  <2>3. QED
    BY <1>0, <2>1, <2>2 DEF TasksOK
<1>4. ASSUME NEW t \in Slots, NEW r, task' = [task EXCEPT ![t] = r], r.pc # "idle",
             ~ r.pkt.fec => r.pkt.seq \in Clocks
      PROVE  TasksOK(task')
  <2>1. \A u \in Slots : u # t => task'[u] = task[u]
    BY <1>0, <1>4 DEF TaskTyped
  <2>2. task'[t] = r
    BY <1>0, <1>4 DEF TaskTyped
  <2>3. QED
    BY <1>0, <1>4, <2>1, <2>2 DEF TasksOK
<1>5. ASSUME NEW t \in Slots, NEW pc, GoTo(t, pc), pc # "idle", task[t].pc # "idle"
      PROVE  TasksOK(task')
  <2>1. /\ \A u \in Slots : u # t => task'[u] = task[u]
        /\ task'[t].pc = pc /\ task'[t].pkt = task[t].pkt
    BY <1>0, <1>5, GoToMeans DEF TaskTyped
  <2>2. QED
    BY <1>0, <1>5, <2>1 DEF TasksOK
<1>6. ASSUME NEW t \in Slots, TaskStep(t) \/ TaskFails(t)
      PROVE  TasksOK(task')
  <2>1. CASE Arrive(t)
    <3>1. CASE task' = task
      BY <1>1, <3>1
    <3>2. CASE Accept(t, Head(net))
      <4> DEFINE p == Head(net)
      <4>1. p \in Flying(net)
        BY <1>0, <2>1, FlyingTail DEF Arrive
      <4>2. ~ p.fec => p.seq \in Clocks
        BY <4>1 DEF LimitsInv, Flown
      <4> DEFINE r == [pc |-> "range", pkt |-> p]
      <4>3. r.pc # "idle" /\ r.pkt = p /\ task' = [task EXCEPT ![t] = r]
        BY <3>2 DEF Accept
      <4> HIDE DEF r, p
      <4>4. QED
        BY <4>2, <4>3, <1>4
    <3>3. QED
      BY <2>1, <3>1, <3>2 DEF Arrive
  <2>2. CASE EvaluateLinkGate(t)
    BY <1>3, <1>5, <2>2 DEF EvaluateLinkGate, At
  <2>3. CASE ReadState(t)
    <3> DEFINE r == [pc |-> "own", pkt |-> task[t].pkt,
                     expected |-> hash'.expected, lost |-> hash'.lost]
    <3>1. task' = [task EXCEPT ![t] = r] /\ task[t].pc = "state"
      BY <2>3 DEF ReadState, At
    <3>2. r.pc = "own" /\ r.pkt = task[t].pkt
      OBVIOUS
    <3> HIDE DEF r
    <3>3. QED
      BY <1>0, <1>4, <3>1, <3>2 DEF TasksOK
  <2>4. CASE LogPacket(t)
    <3> DEFINE r == [pc |-> "stats", pkt |-> task[t].pkt,
              upd |-> CountLosses(task[t].expected, task[t].pkt.seq, resync, task[t].lost)]
    <3>1. task' = [task EXCEPT ![t] = r] /\ task[t].pc = "log"
      BY <2>4 DEF LogPacket, At
    <3>2. r.pc = "stats" /\ r.pkt = task[t].pkt
      OBVIOUS
    <3> HIDE DEF r
    <3>3. QED
      BY <1>0, <1>4, <3>1, <3>2 DEF TasksOK
  <2>5. CASE Own(t) \/ FecStats(t) \/ FecClear(t) \/ UpdateCounters(t) \/ UpdateExpected(t)
             \/ StoreInWindow(t) \/ TaskFails(t)
    <3>1. \/ End(t)
          \/ /\ task[t].pc # "idle"
             /\ GoTo(t, "log") \/ GoTo(t, "fecstats") \/ GoTo(t, "fecclear") \/ GoTo(t, "expect")
                \/ GoTo(t, "store")
      BY <2>5 DEF Own, FecStats, FecClear, UpdateCounters, UpdateExpected, StoreInWindow,
                  TaskFails, At
    <3>2. QED
      BY <1>3, <1>5, <3>1
  <2>6. QED
    BY <1>6, <2>1, <2>2, <2>3, <2>4, <2>5 DEF TaskStep
<1>7. QED
  <2>1. ASSUME Handshake \/ SendTelemetry \/ CloseSession \/ Forget \/ UavRestart \/ Move
               \/ Lose \/ Repeat \/ Delay \/ UNCHANGED vars
        PROVE  task' = task
    BY <2>1 DEF Handshake, SendTelemetry, CloseSession, Forget, UavRestart, Move, Lose, Repeat,
                Delay, vars
  <2>2. QED
    BY <1>1, <1>2, <1>6, <2>1 DEF Next

LEMMA WindowLimit ==
  ASSUME LogInv, LimitsInv, [Next]_vars
  PROVE  WindowOK(window')
<1>1. WindowOK(window) /\ WindowOK(None) /\ WindowOK({})
  BY FS_EmptySet DEF LimitsInv, WindowOK
<1>2. CASE window' \in {window, None, {}}
  BY <1>1, <1>2
<1>3. ASSUME NEW t \in Slots, StoreInWindow(t), window' # window
      PROVE  WindowOK(window')
  <2> DEFINE pkt == task[t].pkt
             x == [seq |-> pkt.seq, ts |-> pkt.ts]
             win == {y \in window : y.seq # pkt.seq} \cup {x}
             least == {y \in win : \A z \in win : y.seq <= z.seq}
  <2>1. window # None /\ window' = IF Cardinality(win) > 3 THEN win \ least ELSE win
    BY <1>3 DEF StoreInWindow
  <2>2. task[t].pc = "store" /\ ~ pkt.fec /\ pkt \in Telemetries \cup Sums
    BY <1>3 DEF StoreInWindow, At, LogInv, Typed, TaskTyped
  <2>3. pkt.seq \in Clocks /\ pkt.ts \in Clocks
    BY <2>2, Kinds DEF LimitsInv, TasksOK
  <2>4. x \in Stored /\ x.seq = pkt.seq
    BY <2>3 DEF Stored
  <2>5. window \in SUBSET Stored /\ IsFiniteSet(window) /\ Cardinality(window) <= 3
    BY <1>1, <2>1 DEF WindowOK
  <2> HIDE DEF x, pkt
  <2>6. win = {y \in window : y.seq # x.seq} \cup {x}
    BY <2>4
  <2>7. PICK w : w = win
    OBVIOUS
  <2>8. PICK l : l = least
    OBVIOUS
  <2>9. w = {y \in window : y.seq # x.seq} \cup {x} /\ l = {y \in w : \A z \in w : y.seq <= z.seq}
    BY <2>6, <2>7, <2>8
  <2>10. WindowOK(IF Cardinality(w) > 3 THEN w \ l ELSE w)
    BY <2>4, <2>5, <2>9, WindowKept
  <2>11. QED
    BY <2>1, <2>7, <2>8, <2>10
<1>4. QED
  <2>1. ASSUME NEW t \in Slots, TaskStep(t) \/ TaskFails(t), ~ StoreInWindow(t)
        PROVE  window' \in {window, None, {}}
    BY <2>1 DEF TaskStep, Arrive, EvaluateLinkGate, ReadState, Own, FecStats, FecClear, LogPacket,
         UpdateCounters, UpdateExpected, TaskFails, stationVars
  <2>2. ASSUME Handshake \/ SendTelemetry \/ CloseSession \/ Forget \/ GksRestart \/ UavRestart
               \/ Move \/ Lose \/ Repeat \/ Delay \/ UNCHANGED vars
        PROVE  window' \in {window, None, {}}
    BY <2>2 DEF Handshake, SendTelemetry, CloseSession, Forget, GksRestart, UavRestart, Move,
                Lose, Repeat, Delay, vars, stationVars
  <2>3. QED
    BY <1>2, <1>3, <2>1, <2>2 DEF Next

LEMMA OtherLimits ==
  ASSUME LogInv, LimitsInv, [Next]_vars
  PROVE  last_ts' <= MaxClock /\ closing' \in BOOLEAN /\ events' \in 0..MaxEvents
<1>0. last_ts \in Nat /\ last_ts <= MaxClock /\ closing \in BOOLEAN /\ events \in 0..MaxEvents
  BY DEF LogInv, Typed, LimitsInv
<1>1. last_ts' <= MaxClock
  <2>1. CASE last_ts' = last_ts \/ last_ts' = 0
    BY <1>0, <2>1, Bounds
  <2>2. ASSUME NEW t \in Slots, Arrive(t), last_ts' # last_ts
        PROVE  last_ts' <= MaxClock
    <3>1. Head(net) \in Flying(net) /\ Head(net) \in Telemetries \cup Sums
      BY <2>2, FlyingTail, FlyingTyped DEF Arrive, LogInv, Typed
    <3>2. ~ Head(net).fec /\ last_ts' = Head(net).ts
      BY <2>2 DEF Arrive
    <3>3. last_ts' \in Clocks
      BY <3>1, <3>2, Kinds
    <3>4. QED
      BY <3>3, Bounds
  <2>3. ASSUME NEW t \in Slots, TaskStep(t) \/ TaskFails(t), ~ Arrive(t)
        PROVE  last_ts' = last_ts
    BY <2>3 DEF TaskStep, EvaluateLinkGate, ReadState, Own, FecStats, FecClear, LogPacket,
         UpdateCounters, UpdateExpected, StoreInWindow, TaskFails, stationVars
  <2>4. ASSUME Handshake \/ SendTelemetry \/ CloseSession \/ Forget \/ GksRestart \/ UavRestart
               \/ Move \/ Lose \/ Repeat \/ Delay \/ UNCHANGED vars
        PROVE  last_ts' = last_ts \/ last_ts' = 0
    BY <2>4 DEF Handshake, SendTelemetry, CloseSession, Forget, GksRestart, UavRestart, Move,
                Lose, Repeat, Delay, vars, stationVars
  <2>5. QED
    BY <2>1, <2>2, <2>3, <2>4 DEF Next
<1>2. closing' \in {closing, TRUE, FALSE} /\ (events' = events \/ Event)
  <2>1. ASSUME NEW t \in Slots, TaskStep(t) \/ TaskFails(t)
        PROVE  closing' = closing /\ (events' = events \/ Event)
    BY <2>1 DEF TaskStep, Arrive, EvaluateLinkGate, ReadState, Own, FecStats, FecClear, LogPacket,
         UpdateCounters, UpdateExpected, StoreInWindow, TaskFails, stationVars
  <2>2. ASSUME Handshake \/ SendTelemetry \/ CloseSession \/ Forget \/ GksRestart \/ UavRestart
               \/ Move \/ Lose \/ Repeat \/ Delay \/ UNCHANGED vars
        PROVE  closing' \in {closing, TRUE, FALSE} /\ (events' = events \/ Event)
    BY <2>2 DEF Handshake, SendTelemetry, CloseSession, Forget, GksRestart, UavRestart, Move,
                Lose, Repeat, Delay, vars, stationVars
  <2>3. QED
    BY <2>1, <2>2 DEF Next
<1>3. Event => events' \in 0..MaxEvents
  BY <1>0, Bounds DEF Event
<1>4. QED
  BY <1>0, <1>1, <1>2, <1>3

LEMMA LimitsStart == Init => LimitsInv
<1> SUFFICES ASSUME Init PROVE LimitsInv
  OBVIOUS
<1>1. uav.seq = 1 /\ uav.clock = 0 /\ Len(uav.fec_buffer) = 0 /\ Len(net) = 0 /\ Flown = {}
  BY DEF Init, Flown, Flying
<1>2. TasksOK(task)
  BY DEF Init, TasksOK, Idle
<1>3. WindowOK(window) /\ closing \in BOOLEAN /\ last_ts = 0 /\ events = 0
  BY DEF Init, WindowOK
<1>4. QED
  BY <1>1, <1>2, <1>3, Bounds DEF LimitsInv

\* Every variable keeps its type and its limit: the FEC buffer of the UAV
\* never holds three packets between two ticks, and the window of the station three
\* at most (TelemetrySensor.cpp create_telemetry_tick, server.py:679-690).
THEOREM IntakeTypeCorrect == Spec => []TypeOK
<1>1. LogInv /\ GapInv /\ LimitsInv => TypeOK
  <2> SUFFICES ASSUME LogInv, GapInv, LimitsInv PROVE TypeOK
    OBVIOUS
  <2>1. /\ {uav.seq, uav.clock, uav.key} \subseteq Nat /\ {uav.secure, uav.near} \subseteq BOOLEAN
        /\ uav.fec_buffer \in Seq(Clocks)
        /\ net \in Seq(Telemetries \cup Sums)
        /\ TaskTyped(task)
        /\ session \in {0, uav.key} /\ last_ts \in Nat
    BY UavTyped DEF LogInv, Typed
  <2>2. uav.seq \in 1..(MaxClock + 1) /\ uav.clock \in 0..MaxClock /\ last_ts \in 0..MaxClock
    BY <2>1, Bounds DEF LimitsInv
  <2>3. ToSet(uav.fec_buffer) \subseteq Clocks
    BY <2>1 DEF ToSet
  <2>4. \A p \in Telemetries \cup Sums : (~ p.fec => p.seq \in Clocks) => p \in Packets
    <3>1. \A p \in Sums : p \in Packets
      BY DEF Sums, Packets
    <3>2. \A p \in Telemetries : ~ p.fec /\ (p.seq \in Clocks => p \in Packets)
      BY DEF Telemetries, Packets
    <3>3. QED
      BY <3>1, <3>2
  <2>5. \A i \in 1..Len(net) : net[i] \in Packets
    <3> SUFFICES ASSUME NEW i \in 1..Len(net) PROVE net[i] \in Packets
      OBVIOUS
    <3>1. net[i] \in Telemetries \cup Sums /\ net[i] \in Flying(net)
      BY <2>1 DEF Flying
    <3>2. ~ net[i].fec => net[i].seq \in Clocks
      BY <3>1 DEF LimitsInv, Flown
    <3>3. QED
      BY <2>4, <3>1, <3>2
  <2>6. \A t \in Slots : task[t] # Idle => task[t].pkt \in Packets
    BY <2>1, <2>4 DEF TaskTyped, LimitsInv, TasksOK
  <2>7. window # None => window \subseteq [seq : Clocks, ts : Clocks] /\ Cardinality(window) <= 3
    BY DEF LimitsInv, WindowOK, Stored
  <2>8. hash # None => hash \in Hashes
    BY DEF GapInv
  <2>9. session \in Nat /\ resync \in BOOLEAN
    BY <2>1 DEF GapInv
  <2>10. QED
    BY <2>1, <2>2, <2>3, <2>5, <2>6, <2>7, <2>8, <2>9 DEF TypeOK, LimitsInv
<1>2. LogInv /\ LimitsInv /\ [Next]_vars => LimitsInv'
  BY UavLimits, NetLimit, BufferLimit, TaskLimits, WindowLimit, OtherLimits DEF LimitsInv
<1>3. LogInv /\ GapInv /\ [Next]_vars => GapInv'
  BY GapTaskSteps, GapWorldStep DEF Next
<1>4. QED
  BY <1>1, <1>2, <1>3, LogStarts, LogSteps, GapStarts, LimitsStart, PTL DEF Spec
=============================================================================
