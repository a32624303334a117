--------------------------- MODULE TerminalStore ----------------------------
(***************************************************************************)
(* The terminal store of the operator's browser: the log, the known drones, *)
(* the filters and the counters, saved to sessionStorage a quarter of a    *)
(* second after a change and loaded again when the page is reloaded.       *)
(*                                                                         *)
(* Events reach the log twice over: live through the hub, under a random   *)
(* identifier, and once per page load through the history request, under   *)
(* their event identifier.  Events are numbered in time order.  A log line *)
(* is its identifier, its kind and what it is about; texts, colours and    *)
(* time stamps are left out.  Of the metrics one counter is kept: cpu and  *)
(* ram are copied, the others are treated as it is.                        *)
(***************************************************************************)
EXTENDS Integers, Sequences, FiniteSets

CONSTANTS
    Drones, ALL, None,
    FilterKeys,     \* the switches of TerminalFilters
    MaxEvents,      \* bound: operational events
    SourceOf,       \* SourceOf[e]: the drone event e comes from, or None
    PacketEvents,   \* the events that are packet.telemetry.received
    Counts,         \* values of the server's counter
    MaxLogCount,    \* MAX_LOG_COUNT
    MaxUids         \* bound: identifiers drawn by createLogEntry

Events == 1..MaxEvents

\* The types of what is kept and saved.
Ids == {<<"boot", 0>>} \cup ({"uid"} \X Nat) \cup ({"event"} \X Events)
LogLine == [id : Ids, kind : {"boot", "new", "telemetry", "event", "notice"},
            of : Drones \cup Events \cup {None}]
States == [logs : Seq(LogLine), activeDrones : SUBSET Drones, filters : SUBSET FilterKeys,
           target : Drones \cup {ALL}, metrics : Nat]

ASSUME TerminalAssumption ==
    /\ ALL \notin Drones /\ None \notin Drones \cup Events \cup States
    /\ SourceOf \in [Events -> Drones \cup {None}]
    /\ PacketEvents \subseteq Events
    /\ Counts \subseteq Nat
    /\ MaxLogCount \in Nat \ {0} /\ MaxEvents \in Nat /\ MaxUids \in Nat

VARIABLES
    state,         \* logs, activeDrones, filters, target and metrics
    storage,       \* what sessionStorage holds, or None
    persistTimer,  \* whether the timer of schedulePersist is armed
    writeFailed,   \* history: the last write failed and nothing changed since
    uids,          \* identifiers drawn so far
    historyAsked,  \* whether the answer of /events/history is awaited
    happened,      \* the events the server has recorded
    wire,          \* events on their way to this page
    logged,        \* drones with a telemetry line in the last 5 s (lastLogTimes)
    counted        \* sources with a packet line in the last second

vars == <<state, storage, persistTimer, writeFailed, uids, historyAsked,
          happened, wire, logged, counted>>

Boot == [id |-> <<"boot", 0>>, kind |-> "boot", of |-> None]

Initial == [logs |-> <<Boot>>, activeDrones |-> {}, filters |-> FilterKeys,
            target |-> ALL, metrics |-> 0]

\* A defect for the mutation check: the list of drones is not loaded.
LoadWithoutDrones ==
    IF storage = None THEN Initial
    ELSE [storage EXCEPT !.logs = IF @ = <<>> THEN <<Boot>> ELSE @, !.activeDrones = {}]

\* The boot line is drawn again only where no line is left, so its identifier
\* may be a constant.
LoadInitialState ==
    IF storage = None THEN Initial
    ELSE [storage EXCEPT !.logs = IF @ = <<>> THEN <<Boot>> ELSE @]

Init ==
    /\ state = Initial
    /\ storage = None
    /\ persistTimer = FALSE /\ writeFailed = FALSE
    /\ uids = 0
    /\ historyAsked = TRUE
    /\ happened = {} /\ wire = {}
    /\ logged = {} /\ counted = {}

-----------------------------------------------------------------------------
(* Changes of the state                                                    *)

\* A defect for the mutation check: a change while nothing is stored is not saved.
UpdateStateUnsaved(next) ==
    /\ state' = next
    /\ persistTimer' = (persistTimer \/ storage # None)
    /\ writeFailed' = FALSE

\* updateState and notify: every new state arms the timer.
UpdateState(next) ==
    /\ state' = next
    /\ persistTimer' = TRUE
    /\ writeFailed' = FALSE

Unchanged == UNCHANGED <<state, persistTimer, writeFailed>>

Newest(logs) ==
    SubSeq(logs, IF Len(logs) > MaxLogCount THEN Len(logs) - MaxLogCount + 1 ELSE 1, Len(logs))

\* addLog, once for each line.  A line is a record of its kind and subject.
AddLogs(s, lines) ==
    [s EXCEPT !.logs = Newest(@ \o [i \in DOMAIN lines |->
        [id |-> <<"uid", uids + i>>, kind |-> lines[i].kind, of |-> lines[i].of]])]

Draw(n) == uids + n <= MaxUids /\ uids' = uids + n

Line(kind, of) == [kind |-> kind, of |-> of]

\* addActiveDrone; a source that is no drone is not added.
AddActiveDrone(s, d) == [s EXCEPT !.activeDrones = @ \cup ({d} \ {None})]

-----------------------------------------------------------------------------
(* What arrives from the server                                            *)

PublishEvent(e) ==
    /\ happened = 1..(e - 1)
    /\ happened' = happened \cup {e}
    /\ wire' = wire \cup {e}
    /\ UNCHANGED <<state, storage, persistTimer, writeFailed, uids, historyAsked, logged, counted>>

\* A defect for the mutation check: every telemetry message announces its drone.
TelemetryLinesAnnouncing(d) ==
    <<Line("new", d)>> \o (IF d \in logged THEN <<>> ELSE <<Line("telemetry", d)>>)

TelemetryLines(d) ==
    (IF d \in state.activeDrones THEN <<>> ELSE <<Line("new", d)>>)
    \o (IF d \in logged THEN <<>> ELSE <<Line("telemetry", d)>>)

HandleTelemetry(d) ==
    /\ TelemetryLines(d) # <<>>
    /\ UpdateState(AddLogs(AddActiveDrone(state, d), TelemetryLines(d)))
    /\ Draw(Len(TelemetryLines(d)))
    /\ logged' = logged \cup {d}
    /\ UNCHANGED <<storage, historyAsked, happened, wire, counted>>

Throttled(e) == e \in PacketEvents /\ SourceOf[e] \in counted

\* The drone of an event is added before the throttle returns.
HandleOpsEvent(e) ==
    LET known == AddActiveDrone(state, SourceOf[e])
    IN  /\ e \in wire
        /\ wire' = wire \ {e}
        /\ IF Throttled(e)
           THEN /\ IF known = state THEN Unchanged ELSE UpdateState(known)
                /\ UNCHANGED <<uids, counted>>
           ELSE /\ UpdateState(AddLogs(known, <<Line("event", e)>>))
                /\ Draw(1)
                /\ counted' = counted \cup (IF e \in PacketEvents THEN {SourceOf[e]} ELSE {})
        /\ UNCHANGED <<storage, historyAsked, happened, logged>>

\* A reported zero keeps the counter shown before.
HandleSystemHealth(n) ==
    /\ UpdateState([state EXCEPT !.metrics = IF n = 0 THEN @ ELSE n])
    /\ UNCHANGED <<storage, uids, historyAsked, happened, wire, logged, counted>>

\* handleBackendLog, handleCommandAck, handleSystemAlert, messages that do not
\* parse, and the lines of a tactical command on its way: one line each.
HandleNotice ==
    /\ UpdateState(AddLogs(state, <<Line("notice", None)>>))
    /\ Draw(1)
    /\ UNCHANGED <<storage, historyAsked, happened, wire, logged, counted>>

\* A defect for the mutation check: what is in the log already is added again.
UnknownEventsAll(S) == S

\* uniqueHistoryLogs: the events whose identifier is on no line.
UnknownEvents(S) ==
    {e \in S : \A i \in DOMAIN state.logs : state.logs[i].id # <<"event", e>>}

\* The lines of some events, in the order of their time.
InTimeOrder(E) ==
    {s \in [1..Cardinality(E) -> E] : \A i, j \in DOMAIN s : i < j => s[i] < s[j]}

FetchEventHistory ==
    /\ historyAsked
    /\ historyAsked' = FALSE
    /\ \/ Unchanged   \* no answer, or an empty one
       \/ \E S \in (SUBSET happened) \ {{}} :
            \E news \in InTimeOrder(UnknownEvents(S)) :
                UpdateState([state EXCEPT
                  !.activeDrones = @ \cup ({SourceOf[e] : e \in S} \ {None}),
                  !.logs = Newest(@ \o [i \in DOMAIN news |->
                      [id |-> <<"event", news[i]>>, kind |-> "event", of |-> news[i]]])])
    /\ UNCHANGED <<storage, uids, happened, wire, logged, counted>>

-----------------------------------------------------------------------------
(* What the operator does                                                  *)

ToggleTerminalFilter(k) ==
    /\ UpdateState([state EXCEPT !.filters = IF k \in @ THEN @ \ {k} ELSE @ \cup {k}])
    /\ UNCHANGED <<storage, uids, historyAsked, happened, wire, logged, counted>>

\* The list of targets offers ALL and the known drones.
Offered == {ALL} \cup state.activeDrones

SetTerminalTargetFilter(t) ==
    /\ t \in Offered
    /\ UpdateState([state EXCEPT !.target = t])
    /\ UNCHANGED <<storage, uids, historyAsked, happened, wire, logged, counted>>

\* executeTerminalCommand: /clear, and every other input, which leaves its echo
\* and one more line.
ExecuteClear ==
    /\ Draw(2)
    /\ UpdateState([state EXCEPT !.logs =
         <<[id |-> <<"uid", uids + 2>>, kind |-> "notice", of |-> None]>>])
    /\ UNCHANGED <<storage, historyAsked, happened, wire, logged, counted>>

ExecuteTerminalCommand ==
    /\ UpdateState(AddLogs(state, <<Line("notice", None), Line("notice", None)>>))
    /\ Draw(2)
    /\ UNCHANGED <<storage, historyAsked, happened, wire, logged, counted>>

-----------------------------------------------------------------------------
(* Saving, reloading, time                                                 *)

\* The callback of schedulePersist; a quota error is ignored.
Persist ==
    /\ persistTimer
    /\ persistTimer' = FALSE
    /\ \/ storage' = state /\ UNCHANGED writeFailed
       \/ UNCHANGED storage /\ writeFailed' = TRUE
    /\ UNCHANGED <<state, uids, historyAsked, happened, wire, logged, counted>>

\* The page is loaded again: timers and messages on their way are gone.
Reload ==
    /\ state' = LoadInitialState
    /\ persistTimer' = FALSE /\ writeFailed' = FALSE
    /\ historyAsked' = TRUE
    /\ wire' = {} /\ logged' = {} /\ counted' = {}
    /\ UNCHANGED <<storage, uids, happened>>

ThrottlesEnd ==
    /\ \/ logged # {} /\ logged' = {} /\ UNCHANGED counted
       \/ counted # {} /\ counted' = {} /\ UNCHANGED logged
    /\ UNCHANGED <<state, storage, persistTimer, writeFailed, uids, historyAsked, happened, wire>>

Next ==
    \/ \E d \in Drones : HandleTelemetry(d)
    \/ \E e \in Events : PublishEvent(e) \/ HandleOpsEvent(e)
    \/ \E n \in Counts : HandleSystemHealth(n)
    \/ HandleNotice
    \/ FetchEventHistory
    \/ \E k \in FilterKeys : ToggleTerminalFilter(k)
    \/ \E t \in Drones \cup {ALL} : SetTerminalTargetFilter(t)
    \/ ExecuteClear
    \/ ExecuteTerminalCommand
    \/ Persist
    \/ Reload
    \/ ThrottlesEnd

Spec == Init /\ [][Next]_vars

-----------------------------------------------------------------------------
(* Properties                                                              *)

TypeOK ==
    /\ state \in States
    /\ storage \in States \cup {None}
    /\ {persistTimer, writeFailed, historyAsked} \subseteq BOOLEAN
    /\ uids \in Nat
    /\ happened \subseteq Events /\ wire \subseteq happened
    /\ logged \subseteq Drones /\ counted \subseteq Drones \cup {None}
    /\ Len(state.logs) <= MaxLogCount

\* No two lines of the log have the same identifier, which the list uses as the
\* key of a row: not after a history answer that overlaps with the log, and not
\* after a reload in the middle of it.
UniqueIds ==
    \A i, j \in DOMAIN state.logs : i # j => state.logs[i].id # state.logs[j].id

\* A drone is announced as new once, and never without being in the list of
\* targets, although the log is cut, cleared, saved late and loaded again.
AnnouncedOnce ==
    \A d \in Drones :
        LET lines == {i \in DOMAIN state.logs : state.logs[i].kind = "new" /\ state.logs[i].of = d}
        IN  Cardinality(lines) <= 1 /\ (lines # {} => d \in state.activeDrones)

\* The target the operator chose is one the list still offers, after a reload
\* too: a filter on a drone that is not listed could not be undone knowingly.
TargetSelectable == state.target \in Offered

\* What a reload would lose is on its way to the storage, unless the browser
\* refused the last write: no change is forgotten because a timer was running.
PersistPending == LoadInitialState = state \/ persistTimer \/ writeFailed
=============================================================================
