----------------------------- MODULE FleetStore -----------------------------
(***************************************************************************)
(* The fleet store of the operator's browser: telemetry messages wait in   *)
(* pendingUpdates and enter the picture on the next flush, a watchdog      *)
(* gives up drones whose last flush is too long ago, and the quality of    *)
(* the network is sampled.  The three timers are setInterval timers: they  *)
(* never fire early, and fire up to Late units late.                       *)
(*                                                                         *)
(* A message is its number in order of arrival and the packet loss it      *)
(* reports.  Ping is treated by the code as loss is and is left out, as    *)
(* are position (a path holds message numbers), station, altitude, speed,  *)
(* battery and mode, which are copied.  Messages that do not parse or have *)
(* no id change nothing.                                                   *)
(***************************************************************************)
EXTENDS Integers, Sequences, FiniteSets

LOCAL INSTANCE FiniteSetsExt

CONSTANTS
    Drones,
    Losses,           \* percentages of lost packets a message may report
    FlushInterval, WatchInterval, HistoryInterval,
    WatchdogStale,    \* WATCHDOG_STALE_MS
    Late,             \* how late a timer may fire
    MaxPathPoints, MaxHistoryPoints,
    MaxArrivals       \* bound: messages of all drones together

ASSUME FleetAssumption ==
    /\ {FlushInterval, WatchInterval, HistoryInterval} \subseteq Nat \ {0}
    /\ {MaxPathPoints, MaxHistoryPoints} \subseteq Nat \ {0}
    /\ {WatchdogStale, Late, MaxArrivals} \subseteq Nat
    /\ Losses \subseteq 0..100
    /\ IsFiniteSet(Drones)

VARIABLES
    drones,           \* what is shown of a drone; seq = 0: not in the list
    pendingUpdates,   \* the newest message not yet flushed; seq = 0: none
    networkHistory,   \* samples of the network's quality
    due,              \* time until each timer is due, negative when late
    arrived           \* history: messages received of each drone

vars == <<drones, pendingUpdates, networkHistory, due, arrived>>

NoUpdate == [seq |-> 0, loss |-> 0, age |-> 0]

\* age is the code's now - lastUpdate; heard is history: the time since the
\* message that is shown arrived.
NotListed == [seq |-> 0, loss |-> 0, isStale |-> TRUE, age |-> 0, heard |-> 0, path |-> <<>>]

\* No live drone is older than MaxAge - 1 (LiveIsRecent); ages from MaxAge on are
\* not told apart.
MaxAge == WatchdogStale + WatchInterval + FlushInterval + 2 * Late + 1
Older(age) == IF age < MaxAge THEN age + 1 ELSE age

Listed(d) == drones[d].seq > 0
Live(d) == Listed(d) /\ ~drones[d].isStale

Init ==
    /\ drones = [d \in Drones |-> NotListed]
    /\ pendingUpdates = [d \in Drones |-> NoUpdate]
    /\ networkHistory = <<>>
    /\ due = [flush |-> FlushInterval, watch |-> WatchInterval, history |-> HistoryInterval]
    /\ arrived = [d \in Drones |-> 0]

\* A defect for the mutation check: the oldest points are kept.
FirstPoints(s, n) == SubSeq(s, 1, IF Len(s) > n THEN n ELSE Len(s))

LastPoints(s, n) == SubSeq(s, IF Len(s) > n THEN Len(s) - n + 1 ELSE 1, Len(s))

-----------------------------------------------------------------------------
(* Messages and timers                                                     *)

\* A defect for the mutation check: a message that finds another waiting is dropped.
HandleTelemetryKeepingOldest(d) ==
    /\ MapThenSumSet(LAMBDA e : arrived[e], Drones) < MaxArrivals
    /\ arrived' = [arrived EXCEPT ![d] = @ + 1]
    /\ \E l \in Losses :
         pendingUpdates' = [pendingUpdates EXCEPT
             ![d] = IF @.seq > 0 THEN @ ELSE [seq |-> arrived[d] + 1, loss |-> l, age |-> 0]]
    /\ UNCHANGED <<drones, networkHistory, due>>

\* handleTelemetry: the newest message replaces the one that waits.
HandleTelemetry(d) ==
    /\ MapThenSumSet(LAMBDA e : arrived[e], Drones) < MaxArrivals
    /\ arrived' = [arrived EXCEPT ![d] = @ + 1]
    /\ \E l \in Losses :
         pendingUpdates' = [pendingUpdates EXCEPT
             ![d] = [seq |-> arrived[d] + 1, loss |-> l, age |-> 0]]
    /\ UNCHANGED <<drones, networkHistory, due>>

\* One drone of a flush, known before or not.
Updated(old, update) ==
    [seq |-> update.seq, loss |-> update.loss, isStale |-> FALSE,
     age |-> 0, heard |-> update.age,
     path |-> LastPoints(Append(old.path, update.seq), MaxPathPoints)]

\* A defect for the mutation check: every flush restarts the clock of every drone.
FlushTouchingAll ==
    /\ due.flush <= 0
    /\ due' = [due EXCEPT !.flush = FlushInterval]
    /\ drones' = [d \in Drones |-> IF pendingUpdates[d].seq = 0
                                   THEN [drones[d] EXCEPT !.age = 0]
                                   ELSE Updated(drones[d], pendingUpdates[d])]
    /\ pendingUpdates' = [d \in Drones |-> NoUpdate]
    /\ UNCHANGED <<networkHistory, arrived>>

FlushTelemetryUpdates ==
    /\ due.flush <= 0
    /\ due' = [due EXCEPT !.flush = FlushInterval]
    /\ drones' = [d \in Drones |-> IF pendingUpdates[d].seq = 0 THEN drones[d]
                                   ELSE Updated(drones[d], pendingUpdates[d])]
    /\ pendingUpdates' = [d \in Drones |-> NoUpdate]
    /\ UNCHANGED <<networkHistory, arrived>>

Expired(d) == Live(d) /\ drones[d].age > WatchdogStale

\* The loss of a drone given up is shown as '---', which counts as 0 below.  Its
\* clocks are not read again before its next flush: they stop at 0.
GivenUp(drone) ==
    [seq |-> drone.seq, loss |-> 0, isStale |-> TRUE, age |-> 0, heard |-> 0, path |-> drone.path]

MarkStaleDrones ==
    /\ due.watch <= 0
    /\ due' = [due EXCEPT !.watch = WatchInterval]
    /\ drones' = [d \in Drones |-> IF Expired(d) THEN GivenUp(drones[d]) ELSE drones[d]]
    /\ UNCHANGED <<pendingUpdates, networkHistory, arrived>>

\* A defect for the mutation check: the losses are added up, not averaged.
SuccessRateOfSum == 100 - MapThenSumSet(LAMBDA d : drones[d].loss, {d \in Drones : Listed(d)})

\* The success rate over all drones of the list, given up or not.
SuccessRate ==
    LET listed == {d \in Drones : Listed(d)}
    IN  100 - MapThenSumSet(LAMBDA d : drones[d].loss, listed) \div Cardinality(listed)

AppendNetworkHistorySample ==
    /\ due.history <= 0
    /\ due' = [due EXCEPT !.history = HistoryInterval]
    /\ networkHistory' = IF \E d \in Drones : Listed(d)
         THEN LastPoints(Append(networkHistory, SuccessRate), MaxHistoryPoints)
         ELSE networkHistory
    /\ UNCHANGED <<drones, pendingUpdates, arrived>>

\* Time passes unless a timer is as late as it may be.
Tick ==
    /\ \A t \in DOMAIN due : due[t] > -Late
    /\ due' = [t \in DOMAIN due |-> due[t] - 1]
    /\ drones' = [d \in Drones |->
                 IF Live(d) THEN [drones[d] EXCEPT !.age = Older(@), !.heard = Older(@)]
                 ELSE drones[d]]
    /\ pendingUpdates' = [d \in Drones |-> IF pendingUpdates[d].seq = 0 THEN pendingUpdates[d]
                                           ELSE [pendingUpdates[d] EXCEPT !.age = Older(@)]]
    /\ UNCHANGED <<networkHistory, arrived>>

Next ==
    \/ \E d \in Drones : HandleTelemetry(d)
    \/ FlushTelemetryUpdates
    \/ MarkStaleDrones
    \/ AppendNetworkHistorySample
    \/ Tick

\* The browser keeps running the interval timers, and time passes.
Fairness ==
    /\ WF_vars(FlushTelemetryUpdates)
    /\ WF_vars(MarkStaleDrones)
    /\ WF_vars(AppendNetworkHistorySample)
    /\ WF_vars(Tick)

Spec == Init /\ [][Next]_vars /\ Fairness

-----------------------------------------------------------------------------
(* Properties                                                              *)

TypeOK ==
    /\ drones \in [Drones -> [seq : Nat, loss : 0..100, isStale : BOOLEAN,
                              age : Nat, heard : Nat, path : Seq(Nat)]]
    /\ pendingUpdates \in [Drones -> [seq : Nat, loss : 0..100, age : Nat]]
    /\ networkHistory \in Seq(0..100)
    /\ due \in [flush : -Late..FlushInterval, watch : -Late..WatchInterval,
                history : -Late..HistoryInterval]
    /\ arrived \in [Drones -> Nat]

\* A drone the pages show as connected was heard recently: its message arrived
\* no longer ago than the watchdog's limit, one period of the watchdog, one of
\* the flush and the lateness of both, whatever the timers' phases are
\* (flushTelemetryUpdates restarts the clock, not the arrival).
LiveIsRecent ==
    \A d \in Drones : Live(d) =>
        drones[d].heard <= WatchdogStale + WatchInterval + FlushInterval + 2 * Late

\* The track on the map is made of messages in the order they arrived, without
\* repetition, and ends where the drone is shown; a flush that overtakes several
\* messages leaves a gap, never a step back.
PathFollows ==
    \A d \in Drones :
        LET path == drones[d].path
        IN  /\ Listed(d) => path # <<>> /\ path[Len(path)] = drones[d].seq
            /\ \A i, j \in 1..Len(path) : i < j => path[i] < path[j]
            /\ Len(path) <= MaxPathPoints

\* The store implements the picture it promises: a flush shows the newest
\* message of each drone that has one, the watchdog only gives drones up.
View == INSTANCE FleetView WITH
    shown <- [d \in Drones |-> drones[d].seq],
    live <- [d \in Drones |-> Live(d)]

ImplementsFleetView == View!Spec

\* A drone that falls silent is given up: the watchdog does not overlook it and
\* nothing but a new message brings it back.
SilenceShown ==
    \A d \in Drones : \A n \in 1..MaxArrivals :
        drones[d].seq = n ~> (drones[d].seq > n \/ ~Live(d))
=============================================================================
