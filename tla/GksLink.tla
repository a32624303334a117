------------------------------ MODULE GksLink ------------------------------
(***************************************************************************)
(* Which ground station serves one UAV: the range gate, the handover, the  *)
(* session bookkeeping and the session timeout of GKS_Server/server.py and *)
(* repository.py, against the receiving side in UAV_Client.                *)
(*                                                                         *)
(* A station runs one asyncio task per datagram, one loop that reads the   *)
(* command stream and one timeout loop.  A task is interrupted wherever    *)
(* the code awaits; its pc names what it does when it goes on:             *)
(*   range    _build_range_context is back: _evaluate_link_gate            *)
(*   exists, insert, hset, read, own    the calls of check_uav_session; own *)
(*            also stands for update_uav_stats, which comes next            *)
(*   decide   _maybe_auto_handover                                         *)
(*   send     send_handover_command: the packet goes out                   *)
(*   close, delete    the two calls of close_flight_session                *)
(*   release  the rest of send_handover_command                            *)
(* An await whose only effect is to emit an event is part of the wait of   *)
(* the next pc.  The key of a station's session is abstracted to whether   *)
(* there is one (SessionKeys has the keys), the sequence numbers, the FEC  *)
(* windows and the payloads to nothing, and the station registry to the    *)
(* constants of the geometry.  A lost telemetry packet is one not taken.   *)
(***************************************************************************)
EXTENDS Naturals, FiniteSets

CONSTANTS
  GKS,         \* the stations
  Positions,   \* where the UAV can be
  Dist,        \* [Positions -> [GKS -> Nat]]: _distance_km
  Radius,      \* [GKS -> Nat]: the published radius of a station
  Hysteresis,  \* 2.0 km in _maybe_auto_handover
  Slots,       \* task slots: bounds the datagrams and commands in work
  MaxEvents,   \* bound on moves, failures and manual handovers
  None

ASSUME GksLinkAssumption ==
  /\ GKS # {} /\ None \notin GKS
  /\ Positions # {}
  /\ Dist \in [Positions -> [GKS -> Nat]]
  /\ Radius \in [GKS -> Nat]
  /\ Hysteresis \in Nat
  /\ MaxEvents \in Nat

VARIABLES
  pos, flying,      \* UAV: its position; FALSE once it is gone
  server, secure,   \* UAV: the station it sends to, is_handshake_complete
  ho,               \* the HANDOVER packet on its way to the UAV: its target
  session,          \* g: uav_session_keys has the UAV
  active_endpoints, \* g: active_endpoints has the UAV (the command path)
  last_seen,        \* g: last_seen_wall_clock: "none", "fresh" or over 60 s old
  out_of_range,     \* g: the mode in out_of_range_state
  attempt,          \* g: last_handover_attempt is less than 3 s ago
  checker,          \* g: where session_timeout_checker is
  task,             \* slot: the datagram or handover command in work
  hash,             \* the Redis hash uav:{id}
  open,             \* some flight_sessions row of the UAV has no end_time
  events            \* moves, failures and manual handovers so far

uavVars  == <<pos, flying, server, secure>>
gateVars == <<active_endpoints, last_seen, out_of_range>>
gksVars  == <<session, gateVars, attempt, checker>>
dbVars   == <<hash, open>>
vars     == <<uavVars, ho, gksVars, task, dbVars, events>>

Hashes == [session_id : BOOLEAN, last_seen_by : GKS \cup {None}]
PacketPCs == {"range", "exists", "insert", "hset", "read", "own", "decide"}
HandoverPCs == {"send", "close", "delete", "release"}
PCs == {"idle"} \cup PacketPCs \cup HandoverPCs
Tasks == [pc : PCs, g : GKS \cup {None}, pos : Positions \cup {None},
          peer : GKS \cup {None}, auto : BOOLEAN]
Idle == [pc |-> "idle", g |-> None, pos |-> None, peer |-> None, auto |-> FALSE]

TasksOK ==
  /\ task \in [Slots -> Tasks]
  /\ \A t \in Slots : task[t].pc # "idle" => task[t].g \in GKS
  /\ \A t \in Slots : task[t].pc \in PacketPCs => task[t].pos \in Positions
  /\ \A t \in Slots : task[t].pc \in {"own", "send"} => task[t].peer \in GKS

TypeOK ==
  /\ pos \in Positions
  /\ flying \in BOOLEAN
  /\ server \in GKS
  /\ secure \in BOOLEAN
  /\ ho \in GKS \cup {None}
  /\ session \in [GKS -> BOOLEAN]
  /\ active_endpoints \in [GKS -> BOOLEAN]
  /\ last_seen \in [GKS -> {"none", "fresh", "stale"}]
  /\ out_of_range \in [GKS -> {"none", "NO_RANGE", "AWAITING_HANDOVER"}]
  /\ attempt \in [GKS -> BOOLEAN]
  /\ checker \in [GKS -> {"sleep", "close", "delete", "pop"}]
  /\ TasksOK
  /\ hash \in Hashes \cup {None}
  /\ open \in BOOLEAN
  /\ events \in 0..MaxEvents

Init ==
  /\ pos \in Positions
  /\ flying = TRUE
  /\ server \in GKS
  /\ secure = FALSE
  /\ ho = None
  /\ session = [g \in GKS |-> FALSE]
  /\ active_endpoints = [g \in GKS |-> FALSE]
  /\ last_seen = [g \in GKS |-> "none"]
  /\ out_of_range = [g \in GKS |-> "none"]
  /\ attempt = [g \in GKS |-> FALSE]
  /\ checker = [g \in GKS |-> "sleep"]
  /\ task = [t \in Slots |-> Idle]
  /\ hash = None
  /\ open = FALSE
  /\ events = 0

Event == events < MaxEvents /\ events' = events + 1

-----------------------------------------------------------------------------
(* Geometry: _build_range_context and the condition of _maybe_auto_handover. *)

InRange(p) == {g \in GKS : Dist[p][g] <= Radius[g]}

\* The nearest of the stations in range.
IsTarget(h, p) == h \in InRange(p) /\ \A k \in InRange(p) : Dist[p][h] <= Dist[p][k]

\* Station g hands the UAV over to h.
ShouldHandover(g, h, p) ==
  /\ IsTarget(h, p)
  /\ h # g
  /\ g \notin InRange(p) \/ Dist[p][h] + Hysteresis < Dist[p][g]

-----------------------------------------------------------------------------
(* Steps of a task. *)

At(t, pc) == task[t].pc = pc
GoTo(t, pc) == task' = [task EXCEPT ![t].pc = pc]
End(t) == task' = [task EXCEPT ![t] = Idle]

\* Variant, not the code: a datagram without a session is dropped silently.
TelemetryNoReset(t) ==
  /\ flying /\ secure
  /\ At(t, "idle")
  /\ session[server]
  /\ task' = [task EXCEPT ![t] = [Idle EXCEPT !.pc = "range", !.g = server,
                                              !.pos = pos]]
  /\ UNCHANGED <<uavVars, ho, gksVars, dbVars, events>>

\* One datagram of the UAV arrives at its station: without a session there it
\* is answered with a RESET, else decrypted; the task then awaits the registry.
\* A RESET is read after a HANDOVER sent before it.
Telemetry(t) ==
  /\ flying /\ secure
  /\ At(t, "idle")
  /\ \/ /\ ~ session[server]
        /\ ho = None
        /\ secure' = FALSE
        /\ UNCHANGED task
     \/ /\ session[server]
        /\ task' = [task EXCEPT ![t] = [Idle EXCEPT !.pc = "range", !.g = server,
                                                    !.pos = pos]]
        /\ UNCHANGED secure
  /\ UNCHANGED <<pos, flying, server, ho, gksVars, dbVars, events>>

\* Case 1 and 2 of the gate close the command path of g.
ClosePath(g, mode) ==
  /\ active_endpoints' = [active_endpoints EXCEPT ![g] = FALSE]
  /\ last_seen' = [last_seen EXCEPT ![g] = "none"]
  /\ out_of_range' = [out_of_range EXCEPT ![g] = mode]

\* Case 3 opens it.
OpenPath(g) ==
  /\ active_endpoints' = [active_endpoints EXCEPT ![g] = TRUE]
  /\ last_seen' = [last_seen EXCEPT ![g] = "fresh"]
  /\ out_of_range' = [out_of_range EXCEPT ![g] = "none"]

\* Variant, not the code: out of this range only the timeout clock is dropped.
GateKeepsEndpoint(t) ==
  /\ At(t, "range")
  /\ LET g == task[t].g
         p == task[t].pos
     IN  IF g \in InRange(p)
           THEN OpenPath(g) /\ GoTo(t, "exists")
           ELSE /\ last_seen' = [last_seen EXCEPT ![g] = "none"]
                /\ out_of_range' = [out_of_range EXCEPT ![g] = "AWAITING_HANDOVER"]
                /\ GoTo(t, "decide")
                /\ UNCHANGED active_endpoints
  /\ UNCHANGED <<uavVars, ho, session, attempt, checker, dbVars, events>>

\* _evaluate_link_gate: out of all coverage (an existing marker stays), out of
\* this station's, or in it.
EvaluateLinkGate(t) ==
  /\ At(t, "range")
  /\ LET g == task[t].g
         p == task[t].pos
     IN  \/ /\ InRange(p) = {}
            /\ ClosePath(g, IF out_of_range[g] = "none" THEN "NO_RANGE"
                                                        ELSE out_of_range[g])
            /\ End(t)
         \/ /\ InRange(p) # {}
            /\ g \notin InRange(p)
            /\ ClosePath(g, "AWAITING_HANDOVER")
            /\ GoTo(t, "decide")
         \/ /\ g \in InRange(p)
            /\ OpenPath(g)
            /\ GoTo(t, "exists")
  /\ UNCHANGED <<uavVars, ho, session, attempt, checker, dbVars, events>>

\* check_uav_session, call by call.
Exists(t) ==
  /\ At(t, "exists")
  /\ GoTo(t, IF hash = None THEN "insert" ELSE "read")
  /\ UNCHANGED <<uavVars, ho, gksVars, dbVars, events>>

InsertSession(t) ==
  /\ At(t, "insert")
  /\ open' = TRUE
  /\ GoTo(t, "hset")
  /\ UNCHANGED <<uavVars, ho, gksVars, hash, events>>

HsetSession(t) ==
  /\ At(t, "hset")
  /\ hash' = [session_id |-> TRUE, last_seen_by |-> task[t].g]
  /\ GoTo(t, "read")
  /\ UNCHANGED <<uavVars, ho, gksVars, open, events>>

\* A missing last_seen_by reads as this station.
ReadState(t) ==
  /\ At(t, "read")
  /\ LET prev == IF hash = None THEN None ELSE hash.last_seen_by
     IN  task' = [task EXCEPT ![t].pc = "own",
                              ![t].peer = IF prev = None THEN task[t].g ELSE prev]
  /\ UNCHANGED <<uavVars, ho, gksVars, dbVars, events>>

\* What an HSET or HINCRBY of other fields leaves of the hash: it makes one
\* without a session where there is none.
Touched == IF hash = None THEN [session_id |-> FALSE, last_seen_by |-> None] ELSE hash

\* The hsets of last_seen_by, when another station had the UAV, and active_gks,
\* then the HINCRBYs and the HSET of update_uav_stats.
TakeOver(t) ==
  /\ At(t, "own")
  /\ hash' = IF task[t].peer = task[t].g
               THEN Touched
               ELSE [Touched EXCEPT !.last_seen_by = task[t].g]
  /\ task' = [task EXCEPT ![t].pc = "decide", ![t].peer = None]
  /\ UNCHANGED <<uavVars, ho, gksVars, open, events>>

\* _maybe_auto_handover, on the position the packet reported.
DecideHandover(t) ==
  /\ At(t, "decide")
  /\ LET g == task[t].g
         p == task[t].pos
     IN  \/ \E h \in GKS :
              /\ ~ attempt[g] /\ ShouldHandover(g, h, p)
              /\ attempt' = [attempt EXCEPT ![g] = TRUE]
              /\ task' = [task EXCEPT ![t] = [Idle EXCEPT !.pc = "send", !.g = g,
                                                          !.peer = h, !.auto = TRUE]]
         \/ /\ attempt[g] \/ \A h \in GKS : ~ ShouldHandover(g, h, p)
            /\ End(t)
            /\ UNCHANGED attempt
  /\ UNCHANGED <<uavVars, ho, session, gateVars, checker, dbVars, events>>

\* listen_to_redis_commands reads an operator's HANDOVER; one at a time.
ManualHandover(t, g, h) ==
  /\ Event
  /\ At(t, "idle")
  /\ h # g
  /\ active_endpoints[g]
  /\ ~ \E u \in Slots : task[u].g = g /\ task[u].pc \in HandoverPCs /\ ~ task[u].auto
  /\ task' = [task EXCEPT ![t] = [Idle EXCEPT !.pc = "send", !.g = g, !.peer = h]]
  /\ UNCHANGED <<uavVars, ho, gksVars, dbVars>>

\* send_handover_command up to the wait of 0.5 s.  Only a UAV that listens to
\* this station can decrypt the packet.
SendHandover(t) ==
  /\ At(t, "send")
  /\ \/ /\ session[task[t].g]
        /\ ho' = IF secure /\ server = task[t].g THEN task[t].peer ELSE ho
        /\ task' = [task EXCEPT ![t].pc = "close", ![t].peer = None]
     \/ /\ ~ session[task[t].g]
        /\ End(t)
        /\ UNCHANGED ho
  /\ UNCHANGED <<uavVars, gksVars, dbVars, events>>

\* 0.5 s later the packet has been read, unless it is late (an event).
\* close_flight_session: every open row of the UAV is ended, ...
CloseRows(t) ==
  /\ At(t, "close")
  /\ IF ho # None /\ server = task[t].g THEN Event ELSE UNCHANGED events
  /\ open' = FALSE
  /\ GoTo(t, "delete")
  /\ UNCHANGED <<uavVars, ho, gksVars, hash>>

\* ... and the hash deleted.
DeleteHash(t) ==
  /\ At(t, "delete")
  /\ hash' = None
  /\ GoTo(t, "release")
  /\ UNCHANGED <<uavVars, ho, gksVars, open, events>>

\* Variant, not the code: the endpoint is not popped.
ForgetKeepsEndpoint(g) ==
  /\ session' = [session EXCEPT ![g] = FALSE]
  /\ last_seen' = [last_seen EXCEPT ![g] = "none"]
  /\ out_of_range' = [out_of_range EXCEPT ![g] = "none"]
  /\ attempt' = [attempt EXCEPT ![g] = FALSE]
  /\ UNCHANGED active_endpoints

\* The station forgets everything about the UAV.
Forget(g) ==
  /\ session' = [session EXCEPT ![g] = FALSE]
  /\ active_endpoints' = [active_endpoints EXCEPT ![g] = FALSE]
  /\ last_seen' = [last_seen EXCEPT ![g] = "none"]
  /\ out_of_range' = [out_of_range EXCEPT ![g] = "none"]
  /\ attempt' = [attempt EXCEPT ![g] = FALSE]

Release(t) ==
  /\ At(t, "release")
  /\ Forget(task[t].g)
  /\ End(t)
  /\ UNCHANGED <<uavVars, ho, checker, dbVars, events>>

\* Redis or the database fails a call: check_uav_session gives up the packet,
\* close_flight_session swallows the error (and leaves the hash) and an error of
\* the connection itself ends the handover before the release.
TaskFails(t) ==
  /\ Event
  /\ \/ /\ task[t].pc \in {"exists", "insert", "hset", "read", "own", "close"}
        /\ End(t)
     \/ /\ task[t].pc \in {"close", "delete"}
        /\ GoTo(t, "release")
  /\ UNCHANGED <<uavVars, ho, gksVars, dbVars>>

TaskStep(t) ==
  \/ EvaluateLinkGate(t)
  \/ Exists(t) \/ InsertSession(t) \/ HsetSession(t) \/ ReadState(t) \/ TakeOver(t)
  \/ DecideHandover(t) \/ SendHandover(t)
  \/ CloseRows(t) \/ DeleteHash(t) \/ Release(t)

-----------------------------------------------------------------------------
(* session_timeout_checker. *)

CheckerGoTo(g, pc) == checker' = [checker EXCEPT ![g] = pc]

CheckTimeout(g) ==
  /\ checker[g] = "sleep"
  /\ last_seen[g] = "stale"
  /\ CheckerGoTo(g, "close")
  /\ UNCHANGED <<uavVars, ho, session, gateVars, attempt, task, dbVars, events>>

TimeoutCloseRows(g) ==
  /\ checker[g] = "close"
  /\ open' = FALSE
  /\ CheckerGoTo(g, "delete")
  /\ UNCHANGED <<uavVars, ho, session, gateVars, attempt, task, hash, events>>

TimeoutDeleteHash(g) ==
  /\ checker[g] = "delete"
  /\ hash' = None
  /\ CheckerGoTo(g, "pop")
  /\ UNCHANGED <<uavVars, ho, session, gateVars, attempt, task, open, events>>

TimeoutForget(g) ==
  /\ checker[g] = "pop"
  /\ Forget(g)
  /\ CheckerGoTo(g, "sleep")
  /\ UNCHANGED <<uavVars, ho, task, dbVars, events>>

\* As for a task: the error is swallowed, or the whole pass is given up.
TimeoutFails(g) ==
  /\ Event
  /\ checker[g] \in {"close", "delete"}
  /\ \/ CheckerGoTo(g, "pop")
     \/ checker[g] = "close" /\ CheckerGoTo(g, "sleep")
  /\ UNCHANGED <<uavVars, ho, session, gateVars, attempt, task, dbVars>>

CheckerStep(g) ==
  CheckTimeout(g) \/ TimeoutCloseRows(g) \/ TimeoutDeleteHash(g) \/ TimeoutForget(g)

-----------------------------------------------------------------------------
(* The UAV. *)

\* perform_handshake with the current station succeeds.
Handshake ==
  /\ flying /\ ~ secure
  /\ secure' = TRUE
  /\ session' = [session EXCEPT ![server] = TRUE]
  /\ UNCHANGED <<pos, flying, server, ho, gateVars, attempt, checker, task, dbVars, events>>

\* Its response is lost: the station has a session the UAV does not know of.
HandshakeFails ==
  /\ Event
  /\ flying /\ ~ secure
  /\ session' = [session EXCEPT ![server] = TRUE]
  /\ UNCHANGED <<uavVars, ho, gateVars, attempt, checker, task, dbVars>>

\* listen_for_acks obeys a HANDOVER: a new socket and a handshake with the
\* target; ...
ObeyHandover ==
  /\ flying /\ secure
  /\ ho # None
  /\ server' = ho
  /\ ho' = None
  /\ session' = [session EXCEPT ![ho] = TRUE]
  /\ UNCHANGED <<pos, flying, secure, gateVars, attempt, checker, task, dbVars, events>>

\* ... if that fails, back to the previous station with another handshake,
\* which may fail too.  A failed handshake may have reached the station.
HandoverReverts ==
  /\ Event
  /\ flying /\ secure
  /\ ho # None
  /\ ho' = None
  /\ secure' \in BOOLEAN
  /\ \E s \in BOOLEAN :
       session' = [session EXCEPT ![ho] = @ \/ s, ![server] = TRUE]
  /\ UNCHANGED <<pos, flying, server, gateVars, attempt, checker, task, dbVars>>

-----------------------------------------------------------------------------
(* Time and the environment. *)

Move ==
  /\ Event
  /\ flying
  /\ pos' \in Positions \ {pos}
  /\ UNCHANGED <<flying, server, secure, ho, gksVars, task, dbVars>>

\* The UAV lands or crashes for good.
Vanish ==
  /\ Event
  /\ flying
  /\ flying' = FALSE
  /\ secure' = FALSE
  /\ ho' = None
  /\ UNCHANGED <<pos, server, gksVars, task, dbVars>>

LoseHandover ==
  /\ Event
  /\ ho # None
  /\ ho' = None
  /\ UNCHANGED <<uavVars, gksVars, task, dbVars>>

\* More than 60 s without a packet that passes the gate of g: a matter of course
\* when the UAV is gone or sends elsewhere, an event while it sends to g.  No
\* task takes that long.
Silence(g) ==
  /\ last_seen[g] = "fresh"
  /\ \A t \in Slots : task[t].g # g
  /\ IF flying /\ server = g THEN Event ELSE UNCHANGED events
  /\ last_seen' = [last_seen EXCEPT ![g] = "stale"]
  /\ UNCHANGED <<uavVars, ho, session, active_endpoints, out_of_range, attempt,
                 checker, task, dbVars>>

\* 3 s after a handover attempt; the handover is over by then.
AttemptExpires(g) ==
  /\ attempt[g]
  /\ \A t \in Slots : ~ (task[t].g = g /\ task[t].pc \in HandoverPCs)
  /\ attempt' = [attempt EXCEPT ![g] = FALSE]
  /\ UNCHANGED <<uavVars, ho, session, gateVars, checker, task, dbVars, events>>

\* The process of a station restarts: its memory and its tasks are gone.
GksRestart(g) ==
  /\ Event
  /\ Forget(g)
  /\ checker' = [checker EXCEPT ![g] = "sleep"]
  /\ task' = [t \in Slots |-> IF task[t].g = g THEN Idle ELSE task[t]]
  /\ UNCHANGED <<uavVars, ho, dbVars>>

Next ==
  \/ \E t \in Slots : Telemetry(t) \/ TaskStep(t) \/ TaskFails(t)
  \/ \E t \in Slots, g, h \in GKS : ManualHandover(t, g, h)
  \/ \E g \in GKS : CheckerStep(g) \/ TimeoutFails(g)
  \/ Handshake \/ HandshakeFails \/ ObeyHandover \/ HandoverReverts
  \/ Move \/ Vanish \/ LoseHandover
  \/ \E g \in GKS : Silence(g) \/ AttemptExpires(g) \/ GksRestart(g)

Spec == Init /\ [][Next]_vars

\* The event loops of the stations and the loop of the UAV run on, and time
\* passes.  Nothing is fair that counts as an event.
Fairness ==
  /\ WF_vars(\E t \in Slots : Telemetry(t))
  /\ \A t \in Slots : WF_vars(TaskStep(t) /\ UNCHANGED events)
  /\ \A g \in GKS : WF_vars(CheckerStep(g))
  /\ WF_vars(Handshake \/ ObeyHandover)
  /\ \A g \in GKS : WF_vars(Silence(g) /\ UNCHANGED events)
  /\ \A g \in GKS : WF_vars(AttemptExpires(g))

FairSpec == Spec /\ Fairness

-----------------------------------------------------------------------------
\* A station that has marked the UAV out of range keeps the command path closed,
\* whatever its tasks, its listener and its timeout loop do meanwhile
\* (server.py:297-397: "stop publishing telemetry and close command path").
CommandPathClosed ==
  \A g \in GKS : out_of_range[g] # "none" => ~ active_endpoints[g]

\* An open command path is always under the timeout's watch, and never counts
\* as out of range: no interleaving of gate, release and timeout leaves an
\* endpoint that nothing will ever remove (server.py:297-298, 333-334, 371-372,
\* 724-733, 1004-1013).
EndpointTimed ==
  \A g \in GKS : active_endpoints[g] => last_seen[g] # "none"

\* Once moves and failures are over, the link settles.  A UAV within coverage
\* has one station that has it in range, a session there, its command path open
\* there and nowhere else, and its state in Redis under no other name.  A UAV
\* that is gone is forgotten: no station keeps a command path to it
\* (server.py:188-397, 692-736, 952-1013; repository.py:59-111).
Served ==
  /\ secure
  /\ server \in InRange(pos)
  /\ session[server]
  /\ active_endpoints[server]
  /\ hash # None
  /\ hash.last_seen_by \in {server, None}
LinkSettles ==
  <>[] \/ flying /\ InRange(pos) = {}
       \/ flying /\ Served /\ \A g \in GKS \ {server} : ~ active_endpoints[g]
       \/ ~ flying /\ \A g \in GKS : ~ active_endpoints[g]

\* A station whose timeout expires closes the session of a UAV that has gone
\* silent (server.py:711-723): it does not end the flight session of a UAV that
\* has moved on and that another station hears.  TLC refutes this: see the README.
SparesOtherStations ==
  [][\A g, h \in GKS :
       g # h /\ secure /\ server = h /\ last_seen[h] = "fresh"
       => ~ TimeoutCloseRows(g)]_vars

\* The session of a UAV that leaves coverage and never sends again is closed in
\* the end, as the timeout does for one that falls silent within coverage
\* (server.py:692-723).  TLC refutes this: see the README.
SilentSessionsClose == ~ flying /\ InRange(pos) = {} ~> ~ open
=============================================================================
