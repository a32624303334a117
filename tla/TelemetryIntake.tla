-------------------------- MODULE TelemetryIntake --------------------------
(***************************************************************************)
(* What one ground station makes of the telemetry of one UAV: the replay   *)
(* check, the sequence numbers, the loss counters in Redis and the forward *)
(* error correction (GKS_Server/server.py _handle_telemetry_or_fec,        *)
(* repository.py check_uav_session and update_uav_stats, against           *)
(* TelemetrySensor.cpp create_telemetry_tick and UdpTransceiver.cpp        *)
(* send_telemetry).                                                        *)
(*                                                                         *)
(* Every datagram is a task of its own.  The pc of a task names what it    *)
(* does after the await it waits in:                                       *)
(*   range   the registry is back: _evaluate_link_gate                     *)
(*   state   check_uav_session up to the read of the hash                  *)
(*   own     its last hset; then the FEC branch, or the log is under way   *)
(*   log     the log is written; the sequence numbers are evaluated        *)
(*   stats, expect   the HINCRBYs and the HSET of update_uav_stats         *)
(*   store   telemetry published: the packet enters the FEC window         *)
(*   fecstats, fecclear   the end of the FEC branch                        *)
(* A payload is identified by its timestamp, so the XOR of payloads is the *)
(* symmetric difference of sets of timestamps.  Keys are numbers of        *)
(* handshakes (SessionKeys has the handshake itself), the position is      *)
(* whether this station has the UAV in range (GksLink has the gate).       *)
(***************************************************************************)
EXTENDS Naturals, Integers, Sequences, FiniteSets, SequencesExt

CONSTANTS
  None,
  CriticalFrom,  \* from this packet on the battery is at 20 % or less
  Slots,         \* task slots
  MaxClock,      \* bound on the packets of the UAV
  MaxNet,        \* bound on packets in flight
  MaxEvents      \* bound on losses, delays, moves and restarts

ASSUME TelemetryIntakeAssumption ==
  /\ CriticalFrom \in Nat \ {0}
  /\ {MaxClock, MaxNet, MaxEvents} \subseteq Nat

\* The fields of a Redis hash uav:{id}.
Hashes == [session : BOOLEAN, expected : Nat, received : Nat, lost : Int, recovered : Nat,
           base : Int, skipped : Int, undone : Int]

ASSUME NoneAssumption == None \notin Hashes

VARIABLES
  uav,      \* current_seq, the clock, the key, fec_buffer; whether in range
  net,      \* packets in flight
  session,  \* uav_session_keys[uav], or 0
  last_ts,  \* last_valid_timestamps[uav], or 0
  window,   \* local_fec_windows[uav]: at most one packet per number, or None
  resync,   \* uav \in seq_resync_required
  closing,  \* close_flight_session is done, the station has not yet forgotten
  task,
  hash,     \* the Redis hash uav:{id}; base, skipped and undone are history
  events,
  accepted, \* history: the packets that passed the replay check
  logged,   \* history: how often each packet was logged
  phantom,  \* history: a packet was reported recovered that had not been lost
  overlapped, \* history: two telemetry tasks, or one and a closing, at a time
  disturbed  \* history: a failed call, a restart of the station, or a session
             \* begun anew before the station had forgotten the old one

stationVars == <<session, last_ts, window, resync, closing>>
historyVars == <<accepted, logged, phantom, overlapped, disturbed>>
vars == <<uav, net, stationVars, task, hash, events, historyVars>>

Clocks == 1..MaxClock
Packets ==
  [fec : {FALSE}, seq : Clocks, ts : Clocks, key : Nat, near : BOOLEAN]
    \cup [fec : {TRUE}, of : SUBSET Clocks, key : Nat, near : BOOLEAN]

Priority(seq) == seq >= CriticalFrom

Idle == [pc |-> "idle"]
At(t, pc) == task[t].pc = pc
GoTo(t, pc) == task' = [task EXCEPT ![t].pc = pc]
End(t) == task' = [task EXCEPT ![t] = Idle]
\* A telemetry packet is in work.
InWork == \E t \in Slots : ~ At(t, "idle") /\ ~ task[t].pkt.fec
Event == events < MaxEvents /\ events' = events + 1

NoSession == [session |-> FALSE, expected |-> 0, received |-> 0, lost |-> 0,
              recovered |-> 0, base |-> 0, skipped |-> 0, undone |-> 0]
NewSession == [NoSession EXCEPT !.session = TRUE]

\* What an HSET or HINCRBY writes to: a hash without a session where there is none.
Touched == IF hash = None THEN NoSession ELSE hash

TypeOK ==
  /\ uav.seq \in 1..(MaxClock + 1) /\ uav.clock \in 0..MaxClock /\ uav.key \in Nat
  /\ uav.secure \in BOOLEAN /\ uav.near \in BOOLEAN
  /\ Len(uav.fec_buffer) < 3 /\ ToSet(uav.fec_buffer) \subseteq Clocks
  /\ Len(net) <= MaxNet /\ \A i \in 1..Len(net) : net[i] \in Packets
  /\ session \in Nat
  /\ last_ts \in 0..MaxClock
  /\ window # None => window \subseteq [seq : Clocks, ts : Clocks] /\ Cardinality(window) <= 3
  /\ resync \in BOOLEAN
  /\ closing \in BOOLEAN
  /\ \A t \in Slots : task[t] # Idle => task[t].pkt \in Packets
  /\ hash # None => hash \in Hashes
  /\ events \in 0..MaxEvents

Init ==
  /\ uav = [seq |-> 1, clock |-> 0, key |-> 0, secure |-> FALSE, near |-> TRUE,
            fec_buffer |-> <<>>]
  /\ net = <<>>
  /\ session = 0
  /\ last_ts = 0
  /\ window = None
  /\ resync = FALSE
  /\ closing = FALSE
  /\ task = [t \in Slots |-> Idle]
  /\ hash = None
  /\ events = 0
  /\ accepted = {}
  /\ logged = [ts \in Clocks |-> 0]
  /\ phantom = FALSE
  /\ overlapped = FALSE
  /\ disturbed = FALSE

-----------------------------------------------------------------------------
(* The UAV. *)

\* A handshake gives both ends a new key.
Handshake ==
  /\ ~ uav.secure
  /\ uav' = [uav EXCEPT !.secure = TRUE, !.key = @ + 1]
  /\ session' = uav.key + 1
  /\ UNCHANGED <<net, last_ts, window, resync, closing, task, hash, events, historyVars>>

\* Variant, not the code: the buffer is never emptied.
BufferKept(buf) == buf

\* The third critical packet empties the buffer.
BufferAfterFec(buf) == IF Len(buf) = 3 THEN <<>> ELSE buf

\* create_telemetry_tick and send_telemetry: every third critical packet is
\* followed at once by the XOR of the last three.
SendTelemetry ==
  /\ uav.secure
  /\ uav.clock < MaxClock
  /\ Len(net) + 1 < MaxNet
  /\ LET ts  == uav.clock + 1
         pkt == [fec |-> FALSE, seq |-> uav.seq, ts |-> ts, key |-> uav.key, near |-> uav.near]
         buf == IF Priority(uav.seq) THEN Append(uav.fec_buffer, ts) ELSE uav.fec_buffer
         sum == [fec |-> TRUE, of |-> ToSet(buf), key |-> uav.key, near |-> uav.near]
     IN  /\ net' = IF Len(buf) = 3 THEN net \o <<pkt, sum>> ELSE Append(net, pkt)
         /\ uav' = [uav EXCEPT !.seq = @ + 1, !.clock = ts,
                               !.fec_buffer = BufferAfterFec(buf)]
  /\ UNCHANGED <<stationVars, task, hash, events, historyVars>>

-----------------------------------------------------------------------------
(* A task of the station. *)

Accept(t, pkt) ==
  /\ task' = [task EXCEPT ![t] = [pc |-> "range", pkt |-> pkt]]
  /\ UNCHANGED uav

\* Variant, not the code: the largest timestamp is not remembered.
ArriveForgetsClock(t) ==
  /\ At(t, "idle")
  /\ net # <<>>
  /\ net' = Tail(net)
  /\ LET pkt == Head(net)
     IN  IF session # 0 /\ session = pkt.key
           THEN /\ Accept(t, pkt)
                /\ accepted' = IF pkt.fec THEN accepted ELSE accepted \cup {pkt.ts}
           ELSE UNCHANGED <<uav, task, accepted>>
  /\ UNCHANGED <<stationVars, hash, events, logged, phantom, overlapped, disturbed>>

\* A packet without a session is answered with a RESET (which may be throttled or
\* lost), one under another key is rejected, one whose timestamp is not new is
\* dropped as a replay; FEC packets are not compared.
Arrive(t) ==
  /\ At(t, "idle")
  /\ net # <<>>
  /\ net' = Tail(net)
  /\ LET pkt == Head(net)
         replay == ~ pkt.fec /\ pkt.ts <= last_ts
     IN  \/ /\ session = 0
            /\ uav' \in {uav, [uav EXCEPT !.secure = FALSE]}
            /\ UNCHANGED <<task, last_ts, accepted, overlapped>>
         \/ /\ session # 0
            /\ session # pkt.key \/ replay
            /\ UNCHANGED <<uav, task, last_ts, accepted, overlapped>>
         \/ /\ session # 0
            /\ session = pkt.key
            /\ ~ replay
            /\ Accept(t, pkt)
            /\ \/ pkt.fec /\ UNCHANGED <<last_ts, accepted, overlapped>>
               \/ /\ ~ pkt.fec
                  /\ last_ts' = pkt.ts
                  /\ accepted' = accepted \cup {pkt.ts}
                  /\ overlapped' = (overlapped \/ InWork)
  /\ UNCHANGED <<session, window, resync, closing, hash, events, logged, phantom, disturbed>>

\* Variant, not the code: the gate does not ask for a resynchronisation.
GateWithoutResync(t) ==
  /\ At(t, "range")
  /\ IF task[t].pkt.near THEN GoTo(t, "state") /\ UNCHANGED window
                         ELSE End(t) /\ window' = None
  /\ UNCHANGED <<uav, net, session, last_ts, resync, closing, hash, events, historyVars>>

\* _evaluate_link_gate: out of range the packet is acknowledged and goes no
\* further.
EvaluateLinkGate(t) ==
  /\ At(t, "range")
  /\ \/ /\ task[t].pkt.near
        /\ GoTo(t, "state")
        /\ UNCHANGED <<window, resync>>
     \/ /\ ~ task[t].pkt.near
        /\ window' = None
        /\ resync' = TRUE
        /\ End(t)
  /\ UNCHANGED <<uav, net, session, last_ts, closing, hash, events, historyVars>>

\* check_uav_session: the hash is made if there is none, and read.
ReadState(t) ==
  /\ At(t, "state")
  /\ hash' = IF hash = None THEN NewSession ELSE hash
  /\ task' = [task EXCEPT ![t] = [pc |-> "own", pkt |-> task[t].pkt,
                                  expected |-> hash'.expected, lost |-> hash'.lost]]
  /\ UNCHANGED <<uav, net, stationVars, events, historyVars>>

\* The hset of active_gks; then the window is made and a telemetry packet is
\* logged, or an FEC packet looks for exactly two packets to complete.
Own(t) ==
  /\ At(t, "own")
  /\ hash' = Touched
  /\ LET pkt == task[t].pkt
         win == IF window = None THEN {} ELSE window
         payload == SymDiff({x.ts : x \in win}, pkt.of)
     IN  \/ /\ ~ pkt.fec
            /\ window' = win
            /\ GoTo(t, "log")
            /\ UNCHANGED phantom
         \/ /\ pkt.fec
            /\ Cardinality(win) = 2
            /\ window' = win
            /\ phantom' = (phantom \/ ~ \E ts \in Clocks \ accepted : payload = {ts})
            /\ GoTo(t, "fecstats")
         \/ /\ pkt.fec
            /\ Cardinality(win) # 2
            /\ window' = {}
            /\ End(t)
            /\ UNCHANGED phantom
  /\ UNCHANGED <<uav, net, session, last_ts, resync, closing, events, accepted, logged,
                 overlapped, disturbed>>

\* The FEC branch counts a recovery and takes a loss back if it had read one, ...
FecStats(t) ==
  /\ At(t, "fecstats")
  /\ LET undone == IF task[t].lost > 0 THEN 1 ELSE 0
     IN  hash' = [Touched EXCEPT !.lost = @ - undone, !.undone = @ + undone,
                                 !.recovered = @ + 1]
  /\ GoTo(t, "fecclear")
  /\ UNCHANGED <<uav, net, stationVars, events, historyVars>>

\* ... and clears the window; if that is gone meanwhile the task ends in a
\* KeyError.
FecClear(t) ==
  /\ At(t, "fecclear")
  /\ window' = IF window = None THEN None ELSE {}
  /\ End(t)
  /\ UNCHANGED <<uav, net, session, last_ts, resync, closing, hash, events, historyVars>>

\* Variant, not the code: one loss of every gap is left out.
CountLossesShort(e, s, sync, known) ==
  [next |-> IF e = 0 \/ s >= e THEN s + 1 ELSE e,
   lost |-> IF e # 0 /\ ~ sync /\ s > e THEN s - e - 1 ELSE 0,
   skipped |-> IF e # 0 /\ sync /\ s > e THEN s - e ELSE 0,
   undone |-> 0, recovered |-> 0, first |-> e = 0]

\* The updates for packet s when e was expected and `known' losses had been read:
\* the first packet of a session, a return into coverage, a gap, the expected
\* packet or one that comes late.
CountLosses(e, s, sync, known) ==
  LET late == e # 0 /\ s < e /\ Priority(s)
      undone == IF late /\ known > 0 THEN 1 ELSE 0
  IN  [next |-> IF e = 0 \/ s >= e THEN s + 1 ELSE e,
       lost |-> IF e # 0 /\ s > e /\ ~ sync THEN s - e ELSE 0 - undone,
       skipped |-> IF e # 0 /\ s > e /\ sync THEN s - e ELSE 0,
       undone |-> undone,
       recovered |-> IF late THEN 1 ELSE 0,
       first |-> e = 0]

LogPacket(t) ==
  /\ At(t, "log")
  /\ LET pkt == task[t].pkt
     IN  /\ logged' = [logged EXCEPT ![pkt.ts] = @ + 1]
         /\ task' = [task EXCEPT ![t] =
              [pc |-> "stats", pkt |-> pkt,
               upd |-> CountLosses(task[t].expected, pkt.seq, resync, task[t].lost)]]
  /\ resync' = FALSE
  /\ UNCHANGED <<uav, net, session, last_ts, window, closing, hash, events, accepted,
                 phantom, overlapped, disturbed>>

WithLosses(upd) == [Touched EXCEPT !.lost = @ + upd.lost, !.undone = @ + upd.undone,
                                   !.skipped = @ + upd.skipped]

\* update_uav_stats: the counters, ...
UpdateCounters(t) ==
  /\ At(t, "stats")
  /\ LET upd == task[t].upd
     IN  hash' = [WithLosses(upd) EXCEPT !.received = @ + 1, !.recovered = @ + upd.recovered]
  /\ GoTo(t, "expect")
  /\ UNCHANGED <<uav, net, stationVars, events, historyVars>>

\* ... then the number expected next.
UpdateExpected(t) ==
  /\ At(t, "expect")
  /\ LET upd == task[t].upd
     IN  hash' = [Touched EXCEPT !.expected = upd.next,
                                 !.base = IF upd.first THEN task[t].pkt.seq ELSE @]
  /\ GoTo(t, "store")
  /\ UNCHANGED <<uav, net, stationVars, events, historyVars>>

\* The telemetry is published; a critical packet enters the window, of which the
\* three highest numbers are kept.
StoreInWindow(t) ==
  /\ At(t, "store")
  /\ LET pkt == task[t].pkt
         win == {x \in window : x.seq # pkt.seq} \cup {[seq |-> pkt.seq, ts |-> pkt.ts]}
         least == {x \in win : \A y \in win : x.seq <= y.seq}
     IN  window' = IF window = None \/ ~ Priority(pkt.seq) THEN window
                   ELSE IF Cardinality(win) > 3 THEN win \ least ELSE win
  /\ End(t)
  /\ UNCHANGED <<uav, net, session, last_ts, resync, closing, hash, events, historyVars>>

\* Redis or the database fails: check_uav_session gives the packet up,
\* update_uav_stats leaves the rest of its updates out.
TaskFails(t) ==
  /\ Event
  /\ \/ task[t].pc \in {"state", "own"} /\ End(t) /\ UNCHANGED hash
     \/ /\ At(t, "stats")
        /\ GoTo(t, "store")
        /\ hash' \in {hash, WithLosses(task[t].upd)}
     \/ At(t, "expect") /\ GoTo(t, "store") /\ UNCHANGED hash
     \/ At(t, "fecstats") /\ GoTo(t, "fecclear") /\ UNCHANGED hash
  /\ disturbed' = TRUE
  /\ UNCHANGED <<uav, net, stationVars, accepted, logged, phantom, overlapped>>

TaskStep(t) ==
  \/ Arrive(t) \/ EvaluateLinkGate(t) \/ ReadState(t) \/ Own(t)
  \/ FecStats(t) \/ FecClear(t)
  \/ LogPacket(t) \/ UpdateCounters(t) \/ UpdateExpected(t) \/ StoreInWindow(t)

-----------------------------------------------------------------------------
(* Handovers, timeouts and failures. *)

\* A handover or the timeout: close_flight_session deletes the hash, ...
CloseSession ==
  /\ Event
  /\ session # 0
  /\ ~ closing
  /\ hash' = None
  /\ closing' = TRUE
  /\ overlapped' = (overlapped \/ InWork)
  /\ UNCHANGED <<uav, net, session, last_ts, window, resync, task, accepted, logged,
                 phantom, disturbed>>

\* ... then the station forgets the UAV, and with it that it is to resynchronise.
Forget ==
  /\ closing
  /\ session' = 0
  /\ last_ts' = 0
  /\ window' = None
  /\ resync' = FALSE
  /\ closing' = FALSE
  /\ disturbed' = (disturbed \/ hash # None)
  /\ UNCHANGED <<uav, net, task, hash, events, accepted, logged, phantom, overlapped>>

\* The station's process restarts; Redis keeps the hash.
GksRestart ==
  /\ Event
  /\ session' = 0
  /\ last_ts' = 0
  /\ window' = None
  /\ resync' = FALSE
  /\ closing' = FALSE
  /\ task' = [t \in Slots |-> Idle]
  /\ disturbed' = TRUE
  /\ UNCHANGED <<uav, net, hash, accepted, logged, phantom, overlapped>>

\* The UAV's process restarts on the same host: its clock goes on.
UavRestart ==
  /\ Event
  /\ uav' = [uav EXCEPT !.seq = 1, !.secure = FALSE, !.fec_buffer = <<>>]
  /\ UNCHANGED <<net, stationVars, task, hash, historyVars>>

\* The UAV leaves or enters the range of the station.
Move ==
  /\ Event
  /\ uav' = [uav EXCEPT !.near = ~ @]
  /\ UNCHANGED <<net, stationVars, task, hash, historyVars>>

\* The network loses, repeats or delays a packet.
Lose ==
  /\ Event
  /\ \E i \in 1..Len(net) : net' = RemoveAt(net, i)
  /\ UNCHANGED <<uav, stationVars, task, hash, historyVars>>

Repeat ==
  /\ Event
  /\ Len(net) < MaxNet
  /\ \E i \in 1..Len(net) : net' = Append(net, net[i])
  /\ UNCHANGED <<uav, stationVars, task, hash, historyVars>>

Delay ==
  /\ Event
  /\ \E i \in 1..(Len(net) - 1) : net' = Append(RemoveAt(net, i), net[i])
  /\ UNCHANGED <<uav, stationVars, task, hash, historyVars>>

Next ==
  \/ Handshake \/ SendTelemetry
  \/ \E t \in Slots : TaskStep(t) \/ TaskFails(t)
  \/ CloseSession \/ Forget \/ GksRestart \/ UavRestart
  \/ Move \/ Lose \/ Repeat \/ Delay

Spec == Init /\ [][Next]_vars

-----------------------------------------------------------------------------
\* No telemetry packet is logged twice, whatever the network repeats and however
\* sessions are closed, forgotten and made anew: the replay clock and the key are
\* forgotten together (server.py:537-543, 1004, 1013, 724, 733).
LoggedOnce == \A ts \in Clocks : logged[ts] <= 1

\* Every number below the expected one is accounted for, as received, lost
\* (whether or not taken back later) or skipped out of coverage, at every moment
\* of every update and across lost, late, repeated packets, restarts and failing
\* calls - provided no telemetry packet is in work while another one or a closing
\* of the session begins, which one packet per second makes the rule (server.py:598-637, repository.py:122-132).
NoSilentGap ==
  ~ overlapped /\ hash # None =>
    (hash.session /\ hash.expected # 0 =>
      hash.received + hash.lost + hash.undone + hash.skipped >= hash.expected - hash.base)

\* What is counted as lost was never accepted: packets the gate kept back out of
\* range are not counted on return, unless a restart or a failed call came in
\* between, or a session record begun before the station forgot the UAV, which
\* throws the request for resynchronisation away (server.py:336, 594-604, 623-626, 1011).
LossIsReal ==
  ~ overlapped /\ ~ disturbed /\ hash # None =>
    (hash.session =>
      hash.lost + hash.undone <= Cardinality((1..uav.clock) \ accepted))

\* A packet reported as recovered had been lost (server.py:573-586).
RecoveredWasLost == ~ phantom
=============================================================================
