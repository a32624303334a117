-------------------------- MODULE FleetStoreProofs --------------------------
(***************************************************************************)
(* The fleet store: what the pages show as connected was heard recently,   *)
(* the tracks follow the messages, the samples are percentages, and the    *)
(* store implements FleetView, for every set of drones, every interval and *)
(* every lateness of the timers.                                           *)
(***************************************************************************)
EXTENDS FiniteSetsExt, FleetStore, FiniteSetTheorems, TLAPS

LEMMA Parameters ==
    /\ FlushInterval \in Nat /\ WatchInterval \in Nat /\ HistoryInterval \in Nat
    /\ WatchdogStale \in Nat /\ Late \in Nat /\ MaxAge \in Nat
    /\ MaxPathPoints \in Nat /\ MaxPathPoints > 0
    /\ Losses \subseteq 0..100
    /\ MaxAge = WatchdogStale + WatchInterval + FlushInterval + 2 * Late + 1
BY FleetAssumption DEF MaxAge

DroneRecords ==
    [seq : Nat, loss : 0..100, isStale : BOOLEAN, age : Nat, heard : Nat, path : Seq(Nat)]
UpdateRecords == [seq : Nat, loss : 0..100, age : Nat]

\* All but the samples of the history, whose range rests on a sum over the drones
\* (SuccessRateBounds).
Typed ==
    /\ drones \in [Drones -> DroneRecords]
    /\ pendingUpdates \in [Drones -> UpdateRecords]
    /\ due \in [flush : -Late..FlushInterval, watch : -Late..WatchInterval,
                history : -Late..HistoryInterval]
    /\ arrived \in [Drones -> Nat]

\* What waits is the newest message, and newer than what is shown.
Ordered ==
    \A d \in Drones :
        /\ pendingUpdates[d].seq # 0 =>
             pendingUpdates[d].seq = arrived[d] /\ pendingUpdates[d].seq > drones[d].seq
        /\ drones[d].seq <= arrived[d]

\* Age and timer add up: what waits entered since the last flush, a live drone was
\* young enough at the last round of the watchdog, and its message waited for one
\* flush before its clock started.
Clocked ==
    \A d \in Drones :
        /\ pendingUpdates[d].seq # 0 => pendingUpdates[d].age + due.flush <= FlushInterval
        /\ Live(d) =>
             /\ drones[d].age + due.watch <= WatchdogStale + WatchInterval
             /\ drones[d].heard <= drones[d].age + FlushInterval + Late

Inv == Typed /\ Ordered /\ Clocked

LEMMA InitInv == Init => Inv
<1> SUFFICES ASSUME Init PROVE Inv
  OBVIOUS
<1>1. NotListed \in DroneRecords /\ NoUpdate \in UpdateRecords
  BY DEF NotListed, NoUpdate, DroneRecords, UpdateRecords
<1>2. Typed
  BY <1>1, Parameters DEF Init, Typed
<1>3. Ordered /\ Clocked
  BY DEF Init, Ordered, Clocked, Live, Listed, NotListed, NoUpdate
<1>4. QED
  BY <1>2, <1>3 DEF Inv

-----------------------------------------------------------------------------
(* The messages                                                            *)

LEMMA HandleTelemetryInv ==
    ASSUME Inv, NEW d \in Drones, HandleTelemetry(d)
    PROVE  Inv'
<1>1. PICK l \in Losses :
        pendingUpdates' = [pendingUpdates EXCEPT ![d] = [seq |-> arrived[d] + 1, loss |-> l, age |-> 0]]
  BY DEF HandleTelemetry
<1>2. arrived' = [arrived EXCEPT ![d] = @ + 1] /\ UNCHANGED <<drones, due>>
  BY DEF HandleTelemetry
<1>3. [seq |-> arrived[d] + 1, loss |-> l, age |-> 0] \in UpdateRecords
  BY Parameters DEF Inv, Typed, UpdateRecords
<1>4. Typed'
  BY <1>1, <1>2, <1>3 DEF Inv, Typed
<1>5. Ordered'
  <2> SUFFICES ASSUME NEW e \in Drones
               PROVE  /\ pendingUpdates'[e].seq # 0 =>
                           /\ pendingUpdates'[e].seq = arrived'[e]
                           /\ pendingUpdates'[e].seq > drones'[e].seq
                      /\ drones'[e].seq <= arrived'[e]
    BY DEF Ordered
  <2>1. arrived[e] \in Nat /\ drones[e].seq \in Nat /\ drones[e].seq <= arrived[e]
    BY DEF Inv, Typed, Ordered, DroneRecords
  <2>2. CASE e = d
    <3>1. arrived'[e] = arrived[e] + 1 /\ pendingUpdates'[e].seq = arrived[e] + 1 /\ drones' = drones
      BY <1>1, <1>2, <2>2 DEF Inv, Typed
    <3>2. QED
      BY <2>1, <3>1
  <2>3. CASE e # d
    <3>1. arrived'[e] = arrived[e] /\ pendingUpdates'[e] = pendingUpdates[e] /\ drones' = drones
      BY <1>1, <1>2, <2>3 DEF Inv, Typed
    <3>2. QED
      BY <2>1, <3>1 DEF Inv, Ordered
  <2>4. QED
    BY <2>2, <2>3
<1>6. Clocked'
  BY <1>1, <1>2, Parameters DEF Inv, Typed, Clocked, Live, Listed
<1>7. QED
  BY <1>4, <1>5, <1>6 DEF Inv

-----------------------------------------------------------------------------
(* The timers                                                              *)

\* A track stays a sequence of message numbers.
LEMMA LastPointsSeq ==
    ASSUME NEW S, NEW s \in Seq(S), NEW n \in Nat
    PROVE  LastPoints(s, n) \in Seq(S)
BY DEF LastPoints

LEMMA UpdatedTyped ==
    ASSUME NEW old \in DroneRecords, NEW update \in UpdateRecords
    PROVE  Updated(old, update) \in DroneRecords
<1>1. old.path \in Seq(Nat) /\ update.seq \in Nat
  BY DEF DroneRecords, UpdateRecords
<1>2. LastPoints(Append(old.path, update.seq), MaxPathPoints) \in Seq(Nat)
  <2>1. Append(old.path, update.seq) \in Seq(Nat)
    BY <1>1
  <2>2. QED
    BY <2>1, LastPointsSeq, Parameters
<1>3. QED
  BY <1>2 DEF Updated, DroneRecords, UpdateRecords

LEMMA FlushInv ==
    ASSUME Inv, FlushTelemetryUpdates
    PROVE  Inv'
<1>1. NoUpdate \in UpdateRecords
  BY DEF NoUpdate, UpdateRecords
<1>2. due' = [due EXCEPT !.flush = FlushInterval] /\ arrived' = arrived
  BY DEF FlushTelemetryUpdates
<1>3. \A d \in Drones :
        /\ drones'[d] = IF pendingUpdates[d].seq = 0 THEN drones[d]
                         ELSE Updated(drones[d], pendingUpdates[d])
        /\ pendingUpdates'[d] = NoUpdate
  BY DEF FlushTelemetryUpdates
<1>4. \A d \in Drones : drones'[d] \in DroneRecords
  BY <1>3, UpdatedTyped DEF Inv, Typed
<1>5. Typed'
  <2>1. drones' \in [Drones -> DroneRecords]
    BY <1>4 DEF FlushTelemetryUpdates
  <2>2. pendingUpdates' \in [Drones -> UpdateRecords]
    BY <1>1 DEF FlushTelemetryUpdates
  <2>3. due' \in [flush : -Late..FlushInterval, watch : -Late..WatchInterval,
                  history : -Late..HistoryInterval]
    BY <1>2, Parameters DEF Inv, Typed
  <2>4. QED
    BY <1>2, <2>1, <2>2, <2>3 DEF Inv, Typed
<1>6. ASSUME NEW d \in Drones
      PROVE  /\ pendingUpdates'[d].seq = 0
             /\ drones'[d].seq <= arrived'[d]
             /\ Live(d)' =>
                  /\ drones'[d].age + due'.watch <= WatchdogStale + WatchInterval
                  /\ drones'[d].heard <= drones'[d].age + FlushInterval + Late
  <2>1. pendingUpdates'[d].seq = 0
    BY <1>3 DEF NoUpdate
  <2>2. CASE pendingUpdates[d].seq = 0
    <3>1. drones'[d] = drones[d] /\ due'.watch = due.watch
      BY <1>2, <1>3, <2>2 DEF Inv, Typed
    <3>2. QED
      BY <1>2, <2>1, <3>1 DEF Inv, Ordered, Clocked, Live, Listed
  <2>3. CASE pendingUpdates[d].seq # 0
    <3>1. /\ drones'[d].seq = pendingUpdates[d].seq /\ drones'[d].age = 0
          /\ drones'[d].heard = pendingUpdates[d].age
          /\ due'.watch = due.watch
      <4>1. drones'[d] = Updated(drones[d], pendingUpdates[d])
        BY <1>3, <2>3
      <4>2. due'.watch = due.watch
        BY <1>2 DEF Inv, Typed
      <4>3. QED
        BY <4>1, <4>2 DEF Updated
    <3>2. /\ pendingUpdates[d].seq = arrived[d] /\ arrived[d] \in Nat
          /\ pendingUpdates[d].age + due.flush <= FlushInterval
          /\ pendingUpdates[d].age \in Nat
      BY <2>3 DEF Inv, Ordered, Clocked, Typed, UpdateRecords
    <3>3. due.flush \in -Late..FlushInterval /\ due.watch \in -Late..WatchInterval
      BY DEF Inv, Typed
    <3>4. QED
      BY <1>2, <2>1, <3>1, <3>2, <3>3, Parameters
  <2>4. QED
    BY <2>2, <2>3
<1>7. QED
  BY <1>5, <1>6 DEF Inv, Ordered, Clocked

LEMMA MarkStaleInv ==
    ASSUME Inv, MarkStaleDrones
    PROVE  Inv'
<1>1. due' = [due EXCEPT !.watch = WatchInterval] /\ due.watch <= 0
      /\ UNCHANGED <<pendingUpdates, arrived>>
  BY DEF MarkStaleDrones
<1>2. \A d \in Drones :
        drones'[d] = IF Expired(d) THEN GivenUp(drones[d]) ELSE drones[d]
  BY DEF MarkStaleDrones
<1>3. \A r \in DroneRecords : GivenUp(r) \in DroneRecords /\ GivenUp(r).seq = r.seq
                             /\ GivenUp(r).isStale = TRUE
  BY DEF GivenUp, DroneRecords
<1>4. \A d \in Drones : drones[d] \in DroneRecords
  BY DEF Inv, Typed
<1>5. Typed'
  <2>1. \A d \in Drones : drones'[d] \in DroneRecords
    BY <1>2, <1>3, <1>4
  <2>2. drones' \in [Drones -> DroneRecords]
    BY <2>1 DEF MarkStaleDrones
  <2>3. due' \in [flush : -Late..FlushInterval, watch : -Late..WatchInterval,
                  history : -Late..HistoryInterval]
    BY <1>1, Parameters DEF Inv, Typed
  <2>4. QED
    BY <1>1, <2>2, <2>3 DEF Inv, Typed
<1>6. Ordered'
  <2>1. \A d \in Drones : drones'[d].seq = drones[d].seq
    BY <1>2, <1>3, <1>4
  <2>2. QED
    BY <1>1, <2>1 DEF Inv, Ordered
<1>7. Clocked'
  <2> SUFFICES ASSUME NEW d \in Drones
               PROVE  /\ pendingUpdates'[d].seq # 0 => pendingUpdates'[d].age + due'.flush <= FlushInterval
                      /\ Live(d)' =>
                           /\ drones'[d].age + due'.watch <= WatchdogStale + WatchInterval
                           /\ drones'[d].heard <= drones'[d].age + FlushInterval + Late
    BY DEF Clocked
  <2>1. due'.flush = due.flush /\ due'.watch = WatchInterval
    BY <1>1 DEF Inv, Typed
  <2>2. CASE Expired(d)
    <3>1. ~Live(d)'
      BY <1>2, <1>3, <1>4, <2>2 DEF Live
    <3>2. QED
      BY <1>1, <2>1, <3>1 DEF Inv, Clocked
  <2>3. CASE ~Expired(d)
    <3>1. drones'[d] = drones[d] /\ (Live(d)' => Live(d))
      BY <1>2, <2>3 DEF Live, Listed
    <3>2. Live(d) => ~(drones[d].age > WatchdogStale)
      BY <2>3 DEF Expired
    <3>3. drones[d].age \in Nat
      BY <1>4 DEF DroneRecords
    <3>4. Live(d) => drones[d].age + WatchInterval <= WatchdogStale + WatchInterval
      BY <3>2, <3>3, Parameters
    <3>5. QED
      BY <1>1, <2>1, <3>1, <3>4 DEF Inv, Clocked
  <2>4. QED
    BY <2>2, <2>3
<1>8. QED
  BY <1>5, <1>6, <1>7 DEF Inv

LEMMA HistoryInv ==
    ASSUME Inv, AppendNetworkHistorySample
    PROVE  Inv'
<1>1. due' = [due EXCEPT !.history = HistoryInterval]
      /\ UNCHANGED <<drones, pendingUpdates, arrived>>
  BY DEF AppendNetworkHistorySample
<1>2. due' \in [flush : -Late..FlushInterval, watch : -Late..WatchInterval,
                history : -Late..HistoryInterval]
      /\ due'.flush = due.flush /\ due'.watch = due.watch
  BY <1>1, Parameters DEF Inv, Typed
<1>3. QED
  BY <1>1, <1>2 DEF Inv, Typed, Ordered, Clocked, Live, Listed

LEMMA OlderBounds ==
    ASSUME NEW n \in Nat
    PROVE  Older(n) \in Nat /\ Older(n) <= n + 1 /\ (n < MaxAge => Older(n) = n + 1)
BY Parameters DEF Older

\* The clocks advance together with the timers.
LEMMA TickInv ==
    ASSUME Inv, Tick
    PROVE  Inv'
<1>1. /\ \A d \in Drones : drones'[d] =
             IF Live(d) THEN [drones[d] EXCEPT !.age = Older(@), !.heard = Older(@)] ELSE drones[d]
      /\ \A d \in Drones : pendingUpdates'[d] =
             IF pendingUpdates[d].seq = 0 THEN pendingUpdates[d]
             ELSE [pendingUpdates[d] EXCEPT !.age = Older(@)]
      /\ arrived' = arrived
  BY DEF Tick
<1>2. \A d \in Drones : drones[d] \in DroneRecords /\ pendingUpdates[d] \in UpdateRecords
  BY DEF Inv, Typed
<1>3. \A r \in DroneRecords : [r EXCEPT !.age = Older(@), !.heard = Older(@)] \in DroneRecords
  BY OlderBounds DEF DroneRecords
<1>4. \A r \in UpdateRecords : [r EXCEPT !.age = Older(@)] \in UpdateRecords
  BY OlderBounds DEF UpdateRecords
<1>5. /\ due \in [flush : -Late..FlushInterval, watch : -Late..WatchInterval,
                   history : -Late..HistoryInterval]
      /\ DOMAIN due = {"flush", "watch", "history"}
  BY DEF Inv, Typed
<1>6. /\ due' = [t \in {"flush", "watch", "history"} |-> due[t] - 1]
      /\ due.flush > -Late /\ due.watch > -Late /\ due.history > -Late
  BY <1>5 DEF Tick
<1>7. /\ due'.flush = due.flush - 1 /\ due'.watch = due.watch - 1 /\ due'.history = due.history - 1
      /\ due' = [flush |-> due.flush - 1, watch |-> due.watch - 1, history |-> due.history - 1]
  BY <1>6
<1>8. Typed'
  <2>1. drones' \in [Drones -> DroneRecords] /\ pendingUpdates' \in [Drones -> UpdateRecords]
    <3>1. \A d \in Drones : drones'[d] \in DroneRecords /\ pendingUpdates'[d] \in UpdateRecords
      BY <1>1, <1>2, <1>3, <1>4
    <3>2. QED
      BY <3>1 DEF Tick
  <2>2. /\ due.flush - 1 \in -Late..FlushInterval /\ due.watch - 1 \in -Late..WatchInterval
        /\ due.history - 1 \in -Late..HistoryInterval
    BY <1>5, <1>6, Parameters
  <2>3. QED
    BY <1>1, <1>7, <2>1, <2>2 DEF Inv, Typed
<1>9. Ordered'
  <2>1. \A d \in Drones : drones'[d].seq = drones[d].seq /\ pendingUpdates'[d].seq = pendingUpdates[d].seq
    BY <1>1, <1>2 DEF DroneRecords, UpdateRecords
  <2>2. QED
    BY <1>1, <2>1 DEF Inv, Ordered
<1>10. Clocked'
  <2> SUFFICES ASSUME NEW d \in Drones
               PROVE  /\ pendingUpdates'[d].seq # 0 => pendingUpdates'[d].age + due'.flush <= FlushInterval
                      /\ Live(d)' =>
                           /\ drones'[d].age + due'.watch <= WatchdogStale + WatchInterval
                           /\ drones'[d].heard <= drones'[d].age + FlushInterval + Late
    BY DEF Clocked
  <2>1. /\ due.flush \in -Late..FlushInterval /\ due.watch \in -Late..WatchInterval
        /\ drones[d].age \in Nat /\ drones[d].heard \in Nat /\ pendingUpdates[d].age \in Nat
    BY <1>2, <1>5 DEF DroneRecords, UpdateRecords
  <2>2. pendingUpdates'[d].seq # 0 => pendingUpdates'[d].age + due'.flush <= FlushInterval
    <3> SUFFICES ASSUME pendingUpdates'[d].seq # 0
                 PROVE  pendingUpdates'[d].age + due'.flush <= FlushInterval
      OBVIOUS
    <3>1. pendingUpdates[d].seq # 0 /\ pendingUpdates'[d].age = Older(pendingUpdates[d].age)
      BY <1>1, <1>2 DEF UpdateRecords
    <3>2. pendingUpdates[d].age + due.flush <= FlushInterval
      BY <3>1 DEF Inv, Clocked
    <3>3. QED
      BY <1>7, <2>1, <3>1, <3>2, OlderBounds, Parameters
  <2>3. Live(d)' => /\ drones'[d].age + due'.watch <= WatchdogStale + WatchInterval
                    /\ drones'[d].heard <= drones'[d].age + FlushInterval + Late
    <3> SUFFICES ASSUME Live(d)'
                 PROVE  /\ drones'[d].age + due'.watch <= WatchdogStale + WatchInterval
                        /\ drones'[d].heard <= drones'[d].age + FlushInterval + Late
      OBVIOUS
    <3>1. Live(d)
      BY <1>1, <1>2 DEF Live, Listed, DroneRecords
    <3>2. drones'[d].age = Older(drones[d].age) /\ drones'[d].heard = Older(drones[d].heard)
      BY <1>1, <1>2, <3>1 DEF DroneRecords
    <3>3. /\ drones[d].age + due.watch <= WatchdogStale + WatchInterval
          /\ drones[d].heard <= drones[d].age + FlushInterval + Late
      BY <3>1 DEF Inv, Clocked
    <3>4. drones[d].age < MaxAge
      BY <2>1, <3>3, Parameters
    <3>5. Older(drones[d].age) = drones[d].age + 1 /\ Older(drones[d].heard) <= drones[d].heard + 1
          /\ Older(drones[d].heard) \in Nat
      BY <2>1, <3>4, OlderBounds
    <3>6. QED
      BY <1>7, <2>1, <3>2, <3>3, <3>5, Parameters
  <2>4. QED
    BY <2>2, <2>3
<1>11. QED
  BY <1>8, <1>9, <1>10 DEF Inv

LEMMA NextInv == Inv /\ [Next]_vars => Inv'
<1> SUFFICES ASSUME Inv, [Next]_vars PROVE Inv'
  OBVIOUS
<1>1. CASE \E d \in Drones : HandleTelemetry(d)
  BY <1>1, HandleTelemetryInv
<1>2. CASE FlushTelemetryUpdates
  BY <1>2, FlushInv
<1>3. CASE MarkStaleDrones
  BY <1>3, MarkStaleInv
<1>4. CASE AppendNetworkHistorySample
  BY <1>4, HistoryInv
<1>5. CASE Tick
  BY <1>5, TickInv
<1>6. CASE UNCHANGED vars
  BY <1>6 DEF vars, Inv, Typed, Ordered, Clocked, Live, Listed
<1>7. QED
  BY <1>1, <1>2, <1>3, <1>4, <1>5, <1>6 DEF Next

LEMMA SpecInv == Spec => []Inv
BY InitInv, NextInv, PTL DEF Spec

\* A drone the pages show as connected was heard recently, for every interval of
\* the three timers and every lateness of theirs.
THEOREM ShownLiveIsRecent == Spec => []LiveIsRecent
<1>1. Inv => LiveIsRecent
  <2> SUFFICES ASSUME Inv, NEW d \in Drones, Live(d)
               PROVE  drones[d].heard <= WatchdogStale + WatchInterval + FlushInterval + 2 * Late
    BY DEF LiveIsRecent
  <2>1. /\ drones[d].age + due.watch <= WatchdogStale + WatchInterval
        /\ drones[d].heard <= drones[d].age + FlushInterval + Late
    BY DEF Inv, Clocked
  <2>2. drones[d].age \in Nat /\ drones[d].heard \in Nat /\ due.watch \in -Late..WatchInterval
    BY DEF Inv, Typed, DroneRecords
  <2>3. QED
    BY <2>1, <2>2, Parameters
<1>2. QED
  BY <1>1, SpecInv, PTL

-----------------------------------------------------------------------------
(* The tracks                                                              *)

Increasing(s) == \A i, j \in 1..Len(s) : i < j => s[i] < s[j]

Tracked ==
    \A d \in Drones :
        LET path == drones[d].path
        IN  /\ Listed(d) => path # <<>> /\ path[Len(path)] = drones[d].seq
            /\ ~Listed(d) => path = <<>>
            /\ Increasing(path)
            /\ Len(path) <= MaxPathPoints

\* The last points of a track are its end, in order.
LEMMA LastPointsEnd ==
    ASSUME NEW s \in Seq(Nat), NEW n \in Nat \ {0}, s # <<>>, Increasing(s)
    PROVE  LET t == LastPoints(s, n)
           IN  /\ t # <<>> /\ t[Len(t)] = s[Len(s)]
               /\ Increasing(t)
               /\ Len(t) <= n
<1> DEFINE k == IF Len(s) > n THEN Len(s) - n + 1 ELSE 1
           t == LastPoints(s, n)
<1>1. Len(s) \in Nat /\ Len(s) > 0
  OBVIOUS
<1>2. k \in 1..Len(s) /\ Len(s) - k + 1 <= n
  BY <1>1
<1>3. t = SubSeq(s, k, Len(s))
  BY DEF LastPoints
<1> HIDE DEF k, t
<1>4. Len(t) = Len(s) - k + 1 /\ \A i \in 1..Len(t) : t[i] = s[k + i - 1]
  <2>1. Len(t) = Len(s) - k + 1
    BY <1>1, <1>2, <1>3
  <2>2. \A i \in 1..Len(s) - k + 1 : SubSeq(s, k, Len(s))[i] = s[k + i - 1]
    BY <1>1, <1>2
  <2>3. QED
    BY <1>3, <2>1, <2>2
<1>5. Len(t) > 0 /\ Len(t) \in Nat /\ t[Len(t)] = s[Len(s)]
  <2>1. Len(t) \in 1..Len(t) /\ k + Len(t) - 1 = Len(s)
    BY <1>1, <1>2, <1>4
  <2>2. t[Len(t)] = s[k + Len(t) - 1]
    BY <1>4, <2>1
  <2>3. QED
    BY <1>1, <2>1, <2>2
<1>6. Increasing(t)
  <2> SUFFICES ASSUME NEW i \in 1..Len(t), NEW j \in 1..Len(t), i < j PROVE t[i] < t[j]
    BY DEF Increasing
  <2>1. k + i - 1 \in 1..Len(s) /\ k + j - 1 \in 1..Len(s) /\ k + i - 1 < k + j - 1
    BY <1>1, <1>2, <1>4
  <2>2. s[k + i - 1] < s[k + j - 1]
    BY <2>1 DEF Increasing
  <2>3. QED
    BY <1>4, <2>2
<1>7. Len(t) <= n /\ t # <<>>
  BY <1>2, <1>4, <1>5
<1>8. QED
  BY <1>5, <1>6, <1>7 DEF t

\* A newer message extends a track.
LEMMA Extended ==
    ASSUME NEW path \in Seq(Nat), NEW seq \in Nat, NEW n \in Nat, n > seq,
           Increasing(path), path # <<>> => path[Len(path)] = seq
    PROVE  Increasing(Append(path, n))
<1> DEFINE longer == Append(path, n)
<1>1. Len(path) \in Nat /\ Len(longer) = Len(path) + 1 /\ longer[Len(path) + 1] = n
  OBVIOUS
<1>2. \A i \in 1..Len(path) : longer[i] = path[i] /\ path[i] \in Nat
  OBVIOUS
<1>3. \A i \in 1..Len(path) : path[i] <= seq
  <2> SUFFICES ASSUME NEW i \in 1..Len(path) PROVE path[i] <= seq
    OBVIOUS
  <2>1. path[Len(path)] = seq /\ Len(path) \in 1..Len(path)
    OBVIOUS
  <2>2. i < Len(path) => path[i] < path[Len(path)]
    BY <2>1 DEF Increasing
  <2>3. QED
    BY <1>2, <2>1, <2>2
<1> HIDE DEF longer
<1>4. SUFFICES ASSUME NEW i \in 1..Len(longer), NEW j \in 1..Len(longer), i < j
               PROVE  longer[i] < longer[j]
  BY DEF Increasing, longer
<1>5. CASE j <= Len(path)
  <2>1. i \in 1..Len(path) /\ j \in 1..Len(path)
    BY <1>1, <1>4, <1>5
  <2>2. QED
    BY <1>2, <1>4, <2>1 DEF Increasing
<1>6. CASE j = Len(path) + 1
  <2>1. i \in 1..Len(path)
    BY <1>1, <1>4, <1>6
  <2>2. QED
    BY <1>1, <1>2, <1>3, <1>6, <2>1
<1>7. QED
  BY <1>1, <1>4, <1>5, <1>6

LEMMA InitTracked == Init => Tracked
<1> SUFFICES ASSUME Init, NEW d \in Drones
             PROVE  drones[d].path = <<>> /\ drones[d].seq = 0
  BY Parameters DEF Tracked, Listed, Increasing
<1>1. QED
  BY DEF Init, NotListed

LEMMA FlushTracked ==
    ASSUME Inv, Tracked, FlushTelemetryUpdates
    PROVE  Tracked'
<1> SUFFICES ASSUME NEW d \in Drones
             PROVE  LET path == drones'[d].path
                    IN  /\ Listed(d)' => path # <<>> /\ path[Len(path)] = drones'[d].seq
                        /\ ~Listed(d)' => path = <<>>
                        /\ Increasing(path)
                        /\ Len(path) <= MaxPathPoints
  BY DEF Tracked, Increasing
<1> DEFINE old == drones[d]
           new == pendingUpdates[d]
<1>1. drones'[d] = IF new.seq = 0 THEN old ELSE Updated(old, new)
  BY DEF FlushTelemetryUpdates
<1>2. old \in DroneRecords /\ new \in UpdateRecords
  BY DEF Inv, Typed
<1>3. old.seq \in Nat /\ old.path \in Seq(Nat) /\ new.seq \in Nat
  BY <1>2 DEF DroneRecords, UpdateRecords
<1>4. /\ Increasing(old.path) /\ Len(old.path) <= MaxPathPoints
      /\ old.seq > 0 => old.path # <<>> /\ old.path[Len(old.path)] = old.seq
      /\ ~(old.seq > 0) => old.path = <<>>
  BY DEF Tracked, Listed
<1>5. CASE new.seq = 0
  BY <1>1, <1>4, <1>5 DEF Listed
<1>6. CASE new.seq # 0
  <2> DEFINE longer == Append(old.path, new.seq)
  <2>1. new.seq > old.seq
    BY <1>6 DEF Inv, Ordered
  <2>2. old.path # <<>> => old.path[Len(old.path)] = old.seq
    BY <1>3, <1>4
  <2>3. Increasing(longer)
    BY <1>3, <1>4, <2>1, <2>2, Extended
  <2>4. longer \in Seq(Nat) /\ longer # <<>> /\ longer[Len(longer)] = new.seq
    BY <1>3
  <2>5. drones'[d].path = LastPoints(longer, MaxPathPoints) /\ drones'[d].seq = new.seq
    BY <1>1, <1>6 DEF Updated
  <2> HIDE DEF longer
  <2>6. MaxPathPoints \in Nat \ {0}
    BY Parameters
  <2>7. LET t == LastPoints(longer, MaxPathPoints)
        IN  /\ t # <<>> /\ t[Len(t)] = longer[Len(longer)]
            /\ Increasing(t)
            /\ Len(t) <= MaxPathPoints
    BY <2>3, <2>4, <2>6, LastPointsEnd
  <2>8. Listed(d)'
    BY <1>3, <1>6, <2>5 DEF Listed
  <2>9. QED
    BY <2>4, <2>5, <2>7, <2>8
<1>7. QED
  BY <1>5, <1>6

\* Only a flush changes what is listed and its track.
LEMMA SameTracks ==
    ASSUME Tracked,
           \A d \in Drones : drones'[d].seq = drones[d].seq /\ drones'[d].path = drones[d].path
    PROVE  Tracked'
BY DEF Tracked, Listed, Increasing

LEMMA MarkStaleKeeps ==
    ASSUME Inv, MarkStaleDrones
    PROVE  \A d \in Drones : /\ drones'[d].seq = drones[d].seq
                             /\ drones'[d].path = drones[d].path
                             /\ Live(d)' <=> Live(d) /\ ~Expired(d)
<1> SUFFICES ASSUME NEW d \in Drones
             PROVE  /\ drones'[d].seq = drones[d].seq
                    /\ drones'[d].path = drones[d].path
                    /\ Live(d)' <=> Live(d) /\ ~Expired(d)
  OBVIOUS
<1>1. drones'[d] = IF Expired(d) THEN GivenUp(drones[d]) ELSE drones[d]
  BY DEF MarkStaleDrones
<1>2. CASE Expired(d)
  <2>1. /\ drones'[d].seq = drones[d].seq /\ drones'[d].path = drones[d].path
        /\ drones'[d].isStale = TRUE
    BY <1>1, <1>2 DEF GivenUp
  <2>2. QED
    BY <1>2, <2>1 DEF Live
<1>3. CASE ~Expired(d)
  BY <1>1, <1>3 DEF Live, Listed
<1>4. QED
  BY <1>2, <1>3

LEMMA TickKeeps ==
    ASSUME Inv, Tick
    PROVE  \A d \in Drones : /\ drones'[d].seq = drones[d].seq
                             /\ drones'[d].path = drones[d].path
                             /\ Live(d)' <=> Live(d)
<1> SUFFICES ASSUME NEW d \in Drones
             PROVE  /\ drones'[d].seq = drones[d].seq
                    /\ drones'[d].path = drones[d].path
                    /\ Live(d)' <=> Live(d)
  OBVIOUS
<1>1. drones'[d] = IF Live(d) THEN [drones[d] EXCEPT !.age = Older(@), !.heard = Older(@)]
                   ELSE drones[d]
  BY DEF Tick
<1>2. drones[d] \in DroneRecords
  BY DEF Inv, Typed
<1>3. /\ drones'[d].seq = drones[d].seq /\ drones'[d].path = drones[d].path
      /\ drones'[d].isStale = drones[d].isStale
  BY <1>1, <1>2 DEF DroneRecords
<1>4. QED
  BY <1>3 DEF Live, Listed

LEMMA NextTracked == Inv /\ Tracked /\ [Next]_vars => Tracked'
<1> SUFFICES ASSUME Inv, Tracked, [Next]_vars PROVE Tracked'
  OBVIOUS
<1>1. CASE \E d \in Drones : HandleTelemetry(d)
  BY <1>1, SameTracks DEF HandleTelemetry
<1>2. CASE FlushTelemetryUpdates
  BY <1>2, FlushTracked
<1>3. CASE MarkStaleDrones
  BY <1>3, MarkStaleKeeps, SameTracks
<1>4. CASE AppendNetworkHistorySample
  BY <1>4, SameTracks DEF AppendNetworkHistorySample
<1>5. CASE Tick
  BY <1>5, TickKeeps, SameTracks
<1>6. CASE UNCHANGED vars
  BY <1>6, SameTracks DEF vars
<1>7. QED
  BY <1>1, <1>2, <1>3, <1>4, <1>5, <1>6 DEF Next

\* A track is made of messages in order of arrival and ends at the shown one.
THEOREM TracksFollow == Spec => []PathFollows
<1>1. Tracked => PathFollows
  BY DEF Tracked, PathFollows, Increasing
<1>2. Spec => []Tracked
  BY InitTracked, NextTracked, SpecInv, PTL DEF Spec
<1>3. QED
  BY <1>1, <1>2, PTL

-----------------------------------------------------------------------------
(* The samples: the sum of the losses, one drone at a time.                *)

OneOf(D) == CHOOSE d \in D : TRUE
Summed(sum, D) == IF D = {} THEN 0 ELSE drones[OneOf(D)].loss + sum[D \ {OneOf(D)}]

\* The function of the sets of drones that MapThenSumSet evaluates.
LossSum(D) == CHOOSE sum : sum = [E \in SUBSET D |-> Summed(sum, E)]

AtMost(D, n) == {E \in SUBSET D : Cardinality(E) <= n}

\* Recursion and induction over the sets of at most n drones.
SumsUpTo(D, n) == \E sum : sum = [E \in AtMost(D, n) |-> Summed(sum, E)]
BoundedUpTo(sum, D, n) == \A E \in AtMost(D, n) : sum[E] \in 0..(100 * Cardinality(E))

\* A set that is not empty is one drone and a smaller set.
LEMMA OneFewer ==
    ASSUME NEW D, IsFiniteSet(D), NEW n \in Nat, NEW E \in AtMost(D, n)
    PROVE  /\ E \in SUBSET D /\ Cardinality(E) \in Nat
           /\ E # {} => /\ OneOf(E) \in E /\ n # 0
                        /\ E \ {OneOf(E)} \in AtMost(D, n - 1)
                        /\ Cardinality(E \ {OneOf(E)}) = Cardinality(E) - 1
<1>1. E \in SUBSET D /\ IsFiniteSet(E) /\ Cardinality(E) \in Nat /\ Cardinality(E) <= n
  BY FS_Subset, FS_CardinalityType DEF AtMost
<1>2. ASSUME E # {}
      PROVE  /\ OneOf(E) \in E /\ Cardinality(E) # 0
             /\ Cardinality(E \ {OneOf(E)}) = Cardinality(E) - 1
  <2>1. OneOf(E) \in E
    BY <1>2 DEF OneOf
  <2>2. QED
    BY <1>1, <1>2, <2>1, FS_RemoveElement, FS_EmptySet
<1>3. QED
  BY <1>1, <1>2 DEF AtMost

\* The recursion has a solution: a least n without one would have one for n - 1.
LEMMA SumsExist ==
    ASSUME NEW D, IsFiniteSet(D)
    PROVE  \A n \in Nat : SumsUpTo(D, n)
<1>1. ASSUME NEW n \in Nat, n = 0 \/ SumsUpTo(D, n - 1)
      PROVE  SumsUpTo(D, n)
  <2>1. PICK low : n # 0 => low = [E \in AtMost(D, n - 1) |-> Summed(low, E)]
    BY <1>1 DEF SumsUpTo
  <2> DEFINE sum == [E \in AtMost(D, n) |-> Summed(low, E)]
  <2>2. ASSUME n # 0
        PROVE  \A E \in AtMost(D, n - 1) : sum[E] = low[E]
    <3>1. AtMost(D, n - 1) \subseteq AtMost(D, n)
      BY <2>2, FS_Subset, FS_CardinalityType DEF AtMost
    <3>2. QED
      BY <2>1, <2>2, <3>1
  <2>3. ASSUME NEW E \in AtMost(D, n)
        PROVE  Summed(low, E) = Summed(sum, E)
    <3>1. CASE E = {}
      BY <3>1 DEF Summed
    <3>2. CASE E # {}
      <4>1. sum[E \ {OneOf(E)}] = low[E \ {OneOf(E)}]
        BY <3>2, <2>2, OneFewer
      <4> HIDE DEF sum
      <4>2. QED
        BY <3>2, <4>1 DEF Summed
    <3>3. QED
      BY <3>1, <3>2
  <2>4. sum = [E \in AtMost(D, n) |-> Summed(sum, E)]
    BY <2>3
  <2>5. QED
    BY <2>4 DEF SumsUpTo
<1> DEFINE Fails == {n \in Nat : ~ SumsUpTo(D, n)}
<1>2. ASSUME Fails # {} PROVE FALSE
  <2>1. PICK n \in Fails : \A m \in Fails : ~ (<<m, n>> \in OpToRel(<, Nat))
    BY <1>2, WFMin, NatLessThanWellFounded
  <2>2. \A m \in Fails : ~ (m < n)
    BY <2>1 DEF OpToRel
  <2>3. n = 0 \/ (n - 1 \in Nat /\ n - 1 \notin Fails)
    BY <2>2
  <2>4. QED
    BY <1>1, <2>3
<1>3. QED
  BY <1>2

\* Every drone adds between 0 and 100.
LEMMA LossSumBounds ==
    ASSUME NEW D, IsFiniteSet(D),
           \A d \in D : drones[d].loss \in 0..100
    PROVE  LossSum(D)[D] \in 0..(100 * Cardinality(D))
<1> DEFINE sum == LossSum(D)
<1>1. Cardinality(D) \in Nat /\ AtMost(D, Cardinality(D)) = SUBSET D
  BY FS_Subset, FS_CardinalityType DEF AtMost
<1>2. sum = [E \in SUBSET D |-> Summed(sum, E)]
  BY <1>1, SumsExist DEF LossSum, SumsUpTo
<1> HIDE DEF sum
<1>3. ASSUME NEW n \in Nat, n = 0 \/ BoundedUpTo(sum, D, n - 1)
      PROVE  BoundedUpTo(sum, D, n)
  <2> SUFFICES ASSUME NEW E \in AtMost(D, n)
               PROVE  sum[E] \in 0..(100 * Cardinality(E))
    BY DEF BoundedUpTo
  <2>1. sum[E] = Summed(sum, E) /\ Cardinality(E) \in Nat
    BY <1>2, OneFewer
  <2>2. CASE E = {}
    BY <2>1, <2>2 DEF Summed
  <2>3. CASE E # {}
    <3> DEFINE rest == E \ {OneOf(E)}
    <3>1. /\ drones[OneOf(E)].loss \in 0..100
          /\ rest \in AtMost(D, n - 1) /\ Cardinality(rest) = Cardinality(E) - 1 /\ n # 0
      BY <2>3, OneFewer
    <3>2. sum[rest] \in 0..(100 * (Cardinality(E) - 1))
      BY <1>3, <3>1 DEF BoundedUpTo
    <3>3. sum[E] = drones[OneOf(E)].loss + sum[rest]
      BY <2>1, <2>3 DEF Summed
    <3> HIDE DEF rest
    <3>4. QED
      BY <2>1, <3>1, <3>2, <3>3
  <2>4. QED
    BY <2>2, <2>3
<1> DEFINE Fails == {n \in Nat : ~ BoundedUpTo(sum, D, n)}
<1>4. ASSUME Fails # {} PROVE FALSE
  <2>1. PICK n \in Fails : \A m \in Fails : ~ (<<m, n>> \in OpToRel(<, Nat))
    BY <1>4, WFMin, NatLessThanWellFounded
  <2>2. \A m \in Fails : ~ (m < n)
    BY <2>1 DEF OpToRel
  <2>3. n = 0 \/ (n - 1 \in Nat /\ n - 1 \notin Fails)
    BY <2>2
  <2>4. QED
    BY <1>3, <2>3
<1>5. BoundedUpTo(sum, D, Cardinality(D))
  BY <1>1, <1>4
<1>6. QED
  BY <1>1, <1>5 DEF BoundedUpTo, sum

\* The rate as the code computes it, with the library's sum written out.
LEMMA SuccessRateUnfolded ==
    SuccessRate =
      LET L == {d \in Drones : Listed(d)}
          iter[s \in SUBSET L] ==
            IF s = {} THEN 0
            ELSE LET x == CHOOSE x \in s : TRUE
                 IN  drones[x].loss + iter[s \ {x}]
      IN  100 - iter[L] \div Cardinality(L)
BY DEF SuccessRate, MapThenSumSet, MapThenFoldSet

\* An average of percentages is one.
LEMMA SuccessRateBounds ==
    ASSUME Inv, \E d \in Drones : Listed(d)
    PROVE  SuccessRate \in 0..100
<1> DEFINE L == {d \in Drones : Listed(d)}
           total == LossSum(L)[L]
<1>1. IsFiniteSet(L) /\ Cardinality(L) \in Nat /\ Cardinality(L) > 0
  <2>1. IsFiniteSet(L)
    BY FleetAssumption, FS_Subset
  <2>2. L # {}
    OBVIOUS
  <2> HIDE DEF L
  <2>3. QED
    BY <2>1, <2>2, FS_CardinalityType, FS_EmptySet
<1>2. SuccessRate = 100 - total \div Cardinality(L)
  BY SuccessRateUnfolded, Zenon DEF LossSum, Summed, OneOf
<1>3. \A d \in L : drones[d].loss \in 0..100
  BY DEF Inv, Typed, DroneRecords
<1> HIDE DEF L, total
<1>4. total \in 0..(100 * Cardinality(L))
  BY <1>1, <1>3, LossSumBounds DEF total
<1>5. total \div Cardinality(L) \in 0..100
  BY <1>1, <1>4
<1>6. QED
  BY <1>2, <1>5

Samples == networkHistory \in Seq(0..100)

LEMMA NextSamples == Inv /\ Samples /\ [Next]_vars => Samples'
<1> SUFFICES ASSUME Inv, networkHistory \in Seq(0..100), [Next]_vars
             PROVE  networkHistory' \in Seq(0..100)
  BY DEF Samples
<1>1. CASE UNCHANGED networkHistory
  BY <1>1
<1>2. CASE AppendNetworkHistorySample
  <2>1. CASE ~ \E d \in Drones : Listed(d)
    BY <1>2, <2>1 DEF AppendNetworkHistorySample
  <2>2. CASE \E d \in Drones : Listed(d)
    <3> DEFINE more == Append(networkHistory, SuccessRate)
    <3>1. more \in Seq(0..100) /\ Len(more) \in Nat
      BY <2>2, SuccessRateBounds
    <3>2. networkHistory' = LastPoints(more, MaxHistoryPoints)
      BY <1>2, <2>2 DEF AppendNetworkHistorySample
    <3>3. MaxHistoryPoints \in Nat
      BY FleetAssumption
    <3> HIDE DEF more
    <3>4. QED
      BY <3>1, <3>2, <3>3, LastPointsSeq
  <2>3. QED
    BY <2>1, <2>2
<1>3. QED
  BY <1>1, <1>2 DEF Next, HandleTelemetry, FlushTelemetryUpdates, MarkStaleDrones, Tick, vars

\* The store keeps what it shows well formed, and every sample of the network's
\* quality is a percentage, whatever drones come, go silent and are given up
\* (fleetTelemetryStore.js:113-140).
THEOREM FleetTypeCorrect == Spec => []TypeOK
<1>1. Init => Samples
  BY DEF Init, Samples
<1>2. Spec => []Samples
  BY <1>1, NextSamples, SpecInv, PTL DEF Spec
<1>3. Inv /\ Samples => TypeOK
  BY DEF Inv, Samples, Typed, TypeOK, DroneRecords, UpdateRecords
<1>4. QED
  BY <1>2, <1>3, SpecInv, PTL

-----------------------------------------------------------------------------
(* The store implements the picture it promises                            *)

LEMMA ViewInit == Init => View!Init
<1> SUFFICES ASSUME Init PROVE View!Init
  OBVIOUS
<1>1. \A d \in Drones : drones[d].seq = 0 /\ Live(d) = FALSE
  BY DEF Init, NotListed, Live, Listed
<1>2. QED
  BY <1>1 DEF Init, View!Init

Waiting == {d \in Drones : pendingUpdates[d].seq # 0}

LEMMA ViewFlush ==
    ASSUME Inv, FlushTelemetryUpdates
    PROVE  View!Show(Waiting)
<1>1. ASSUME NEW d \in Waiting PROVE drones[d].seq < arrived[d]
  BY DEF Waiting, Inv, Ordered, Typed, DroneRecords
<1>2. ASSUME NEW d \in Drones
      PROVE  /\ drones'[d].seq = IF d \in Waiting THEN arrived[d] ELSE drones[d].seq
             /\ Live(d)' <=> d \in Waiting \/ Live(d)
  <2>1. drones'[d] = IF pendingUpdates[d].seq = 0 THEN drones[d]
                     ELSE Updated(drones[d], pendingUpdates[d])
    BY DEF FlushTelemetryUpdates
  <2>2. CASE d \notin Waiting
    BY <2>1, <2>2 DEF Waiting, Live, Listed
  <2>3. CASE d \in Waiting
    <3>1. /\ drones'[d].seq = pendingUpdates[d].seq /\ drones'[d].isStale = FALSE
      BY <2>1, <2>3 DEF Waiting, Updated
    <3>2. /\ pendingUpdates[d].seq = arrived[d] /\ arrived[d] \in Nat /\ arrived[d] > 0
      BY <2>3 DEF Waiting, Inv, Ordered, Typed, UpdateRecords
    <3>3. Live(d)'
      BY <3>1, <3>2 DEF Live, Listed
    <3>4. QED
      BY <2>3, <3>1, <3>2, <3>3
  <2>4. QED
    BY <2>2, <2>3
<1>3. arrived' = arrived
  BY DEF FlushTelemetryUpdates
<1>4. [d \in Drones |-> Live(d)]' = [d \in Drones |-> d \in Waiting \/ [e \in Drones |-> Live(e)][d]]
  BY <1>2 DEF Live
<1>5. [d \in Drones |-> drones[d].seq]' =
        [d \in Drones |-> IF d \in Waiting THEN arrived[d] ELSE [e \in Drones |-> drones[e].seq][d]]
  BY <1>2
<1>6. \A d \in Waiting : d \in Drones
  BY DEF Waiting
<1>7. QED
  BY <1>1, <1>3, <1>4, <1>5, <1>6 DEF View!Show

LEMMA ViewMarkStale ==
    ASSUME Inv, MarkStaleDrones
    PROVE  \E D \in SUBSET Drones : View!Lose(D)
<1> DEFINE D == {d \in Drones : Expired(d)}
<1>1. \A d \in D : Live(d)
  BY DEF Expired
<1>2. [d \in Drones |-> drones[d].seq]' = [d \in Drones |-> drones[d].seq]
  BY MarkStaleKeeps
<1>3. [d \in Drones |-> Live(d)]' = [d \in Drones |-> [e \in Drones |-> Live(e)][d] /\ d \notin D]
  BY MarkStaleKeeps DEF Live
<1>4. arrived' = arrived
  BY DEF MarkStaleDrones
<1>5. View!Lose(D)
  BY <1>1, <1>2, <1>3, <1>4 DEF View!Lose
<1>6. QED
  BY <1>5

LEMMA ViewTick == ASSUME Inv, Tick PROVE UNCHANGED View!vars
<1>1. [d \in Drones |-> drones[d].seq]' = [d \in Drones |-> drones[d].seq]
  BY TickKeeps
<1>2. [d \in Drones |-> Live(d)]' = [d \in Drones |-> Live(d)]
  BY TickKeeps DEF Live
<1>3. arrived' = arrived
  BY DEF Tick
<1>4. QED
  BY <1>1, <1>2, <1>3 DEF View!vars

LEMMA ViewNext == Inv /\ [Next]_vars => [View!Next]_(View!vars)
<1> SUFFICES ASSUME Inv, [Next]_vars PROVE [View!Next]_(View!vars)
  OBVIOUS
<1>1. CASE \E d \in Drones : HandleTelemetry(d)
  <2>1. PICK d \in Drones : HandleTelemetry(d)
    BY <1>1
  <2>2. View!Arrive(d)
    BY <2>1 DEF HandleTelemetry, View!Arrive, Live, Listed
  <2>3. QED
    BY <2>2 DEF View!Next
<1>2. CASE FlushTelemetryUpdates
  <2>1. View!Show(Waiting) /\ Waiting \in SUBSET Drones
    BY <1>2, ViewFlush DEF Waiting
  <2>2. QED
    BY <2>1 DEF View!Next, View!Show
<1>3. CASE MarkStaleDrones
  BY <1>3, ViewMarkStale DEF View!Next
<1>4. CASE AppendNetworkHistorySample
  BY <1>4 DEF AppendNetworkHistorySample, View!vars, Live, Listed
<1>5. CASE Tick
  BY <1>5, ViewTick
<1>6. CASE UNCHANGED vars
  BY <1>6 DEF vars, View!vars, Live, Listed
<1>7. QED
  BY <1>1, <1>2, <1>3, <1>4, <1>5, <1>6 DEF Next

\* The buffered store implements the picture FleetView promises.
THEOREM StoreImplementsView == Spec => ImplementsFleetView
<1>1. Spec => View!Init /\ [][View!Next]_(View!vars)
  BY ViewInit, ViewNext, SpecInv, PTL DEF Spec
<1>2. QED
  BY <1>1 DEF ImplementsFleetView, View!Spec
=============================================================================
