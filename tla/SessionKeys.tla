---------------------------- MODULE SessionKeys ----------------------------
(***************************************************************************)
(* The key agreement between one UAV (UAV_Client/src/UdpTransceiver.cpp,   *)
(* main.cpp) and one ground station (GKS_Server/crypto_manager.py and the  *)
(* handshake and decryption parts of server.py) over UDP.                  *)
(*                                                                         *)
(* A key is the pair <<e, g>> of the ephemeral keys it was derived from.   *)
(* Each side signs only its own ephemeral key, so nothing in a response    *)
(* says which request it answers: the UAV combines whatever response it    *)
(* reads with the ephemeral key it holds at that moment.  Ephemeral keys   *)
(* are numbers; a fresh one is the least number in use nowhere.            *)
(*                                                                         *)
(* The channels are FIFO and lossless except where a fault is spent:       *)
(* losing or delaying a packet, a restart, a handshake task overtaken by a *)
(* later one, or a timer that fires while the answer it waits for is still *)
(* under way.  MaxFaults bounds the faults of a behaviour; everything else *)
(* may go on for ever.  The UAV stays in range: GksLink models the rest of *)
(* the packet handler.                                                     *)
(***************************************************************************)
EXTENDS Naturals, Sequences, SequencesExt

CONSTANTS
  None,            \* no key, no ephemeral key
  RekeyThreshold,  \* REKEY_PACKET_THRESHOLD
  MaxFaults,       \* bound on faults
  MaxCommands,     \* bound on the commands an operator issues
  MaxUp, MaxDown,  \* bounds on packets in flight
  MaxTasks,        \* bound on handshakes GKS is answering at a time
  MaxEph           \* size of the pool of ephemeral keys

ASSUME SessionKeysAssumption ==
  /\ RekeyThreshold \in Nat \ {0, 1}
  /\ MaxFaults \in Nat
  /\ MaxCommands \in Nat
  /\ {MaxUp, MaxDown, MaxTasks, MaxEph} \subseteq Nat \ {0}
  /\ MaxEph > 5 + MaxUp + MaxDown + MaxTasks  \* more than can be in use

Ephs == 1..MaxEph
Keys == Ephs \X Ephs

ASSUME NoneAssumption == None \notin Ephs \cup Keys

VARIABLES
  phase,        \* UAV: "idle", "waiting" in perform_handshake, or "secure"
  ephemeral,    \* UAV: the ephemeral key of the handshake it waits for
  session_key,  \* UAV: the key it encrypts and decrypts with
  pending_ephemeral_key,     \* UAV: the ephemeral key of its last rekey request
  packets_sent_since_rekey,  \* UAV
  active,       \* GKS: uav_session_keys[uav]
  pending,      \* GKS: pending_session_keys[uav]
  last_seen,    \* GKS: last_seen_wall_clock has an entry for the UAV
  reset_ok,     \* GKS: more than 2 s since it last sent a RESET
  tasks,        \* GKS: accepted requests whose event is still being emitted
  up, down,     \* packets in flight
  faults, commands

uavVars == <<phase, ephemeral, session_key, pending_ephemeral_key,
             packets_sent_since_rekey>>
gksVars == <<active, pending, last_seen, reset_ok, tasks>>
vars == <<uavVars, gksVars, up, down, faults, commands>>

HANDSHAKE_REQ(e) == [type |-> "HANDSHAKE_REQ", e |-> e]
REKEY_REQ(e)     == [type |-> "REKEY_REQ", e |-> e]
TELEMETRY(k)     == [type |-> "TELEMETRY", k |-> k]
HANDSHAKE_RES(g) == [type |-> "HANDSHAKE_RES", g |-> g]
REKEY_RES(g)     == [type |-> "REKEY_RES", g |-> g]
COMMAND(k)       == [type |-> "COMMAND", k |-> k]
RESET            == [type |-> "RESET"]

UpMsgs   == {HANDSHAKE_REQ(e) : e \in Ephs} \cup {REKEY_REQ(e) : e \in Ephs}
              \cup {TELEMETRY(k) : k \in Keys}
DownMsgs == {HANDSHAKE_RES(g) : g \in Ephs} \cup {REKEY_RES(g) : g \in Ephs}
              \cup {COMMAND(k) : k \in Keys} \cup {RESET}

InFlight(chan, type) == \E i \in 1..Len(chan) : chan[i].type = type

-----------------------------------------------------------------------------
(* Freshness of the ephemeral keys. *)

LiveKeys == {session_key, active, pending}
              \cup {up[i].k : i \in {j \in 1..Len(up) : up[j].type = "TELEMETRY"}}
              \cup {down[i].k : i \in {j \in 1..Len(down) : down[j].type = "COMMAND"}}

UavEphsInUse ==
  {k[1] : k \in LiveKeys \ {None}}
    \cup ({ephemeral, pending_ephemeral_key} \ {None})
    \cup {up[i].e : i \in {j \in 1..Len(up) : up[j].type # "TELEMETRY"}}
    \cup {tasks[i].e : i \in 1..Len(tasks)}

GksEphsInUse ==
  {k[2] : k \in LiveKeys \ {None}}
    \cup {down[i].g : i \in {j \in 1..Len(down) :
                                down[j].type \in {"HANDSHAKE_RES", "REKEY_RES"}}}

Least(S) == CHOOSE x \in S : \A y \in S : x <= y
FreshUavEph == Least(Ephs \ UavEphsInUse)
FreshGksEph == Least(Ephs \ GksEphsInUse)

-----------------------------------------------------------------------------
(* Faults. *)

Fault == faults < MaxFaults /\ faults' = faults + 1

\* Free when cond holds, a fault otherwise.
FaultUnless(cond) == IF cond THEN UNCHANGED faults ELSE Fault

\* No handshake (rekey) message is under way in either direction.
HandshakeQuiet ==
  /\ ~ InFlight(up, "HANDSHAKE_REQ")
  /\ ~ InFlight(tasks, "HANDSHAKE_REQ")
  /\ ~ InFlight(down, "HANDSHAKE_RES")
RekeyQuiet ==
  /\ ~ InFlight(up, "REKEY_REQ")
  /\ ~ InFlight(tasks, "REKEY_REQ")
  /\ ~ InFlight(down, "REKEY_RES")

\* The two ends can talk: the key the UAV uses is one the GKS tries.
Agreed == phase = "secure" /\ session_key \in {active, pending}

-----------------------------------------------------------------------------
TypeOK ==
  /\ phase \in {"idle", "waiting", "secure"}
  /\ ephemeral \in Ephs \cup {None}
  /\ phase = "waiting" <=> ephemeral # None
  /\ session_key \in Keys \cup {None}
  /\ phase = "secure" => session_key # None
  /\ pending_ephemeral_key \in Ephs \cup {None}
  /\ packets_sent_since_rekey \in 0..(RekeyThreshold - 1)
  /\ active \in Keys \cup {None}
  /\ pending \in Keys \cup {None}
  /\ active # None => active # pending
  /\ last_seen \in BOOLEAN
  /\ reset_ok \in BOOLEAN
  /\ Len(tasks) <= MaxTasks
  /\ \A i \in 1..Len(tasks) : /\ tasks[i].type \in {"HANDSHAKE_REQ", "REKEY_REQ"}
                              /\ tasks[i].e \in Ephs
  /\ Len(up) <= MaxUp /\ \A i \in 1..Len(up) : up[i] \in UpMsgs
  /\ Len(down) <= MaxDown /\ \A i \in 1..Len(down) : down[i] \in DownMsgs
  /\ faults \in 0..MaxFaults
  /\ commands \in 0..MaxCommands

Init ==
  /\ phase = "idle"
  /\ ephemeral = None
  /\ session_key = None
  /\ pending_ephemeral_key = None
  /\ packets_sent_since_rekey = 0
  /\ active = None
  /\ pending = None
  /\ last_seen = FALSE
  /\ reset_ok = TRUE
  /\ tasks = <<>>
  /\ up = <<>>
  /\ down = <<>>
  /\ faults = 0
  /\ commands = 0

-----------------------------------------------------------------------------
(* The UAV: the loop of main.cpp. *)

\* perform_handshake up to the wait: a fresh ephemeral key and one request.
PerformHandshake ==
  /\ phase = "idle"
  /\ Len(up) < MaxUp
  /\ phase' = "waiting"
  /\ ephemeral' = FreshUavEph
  /\ up' = Append(up, HANDSHAKE_REQ(FreshUavEph))
  /\ UNCHANGED <<session_key, pending_ephemeral_key, packets_sent_since_rekey,
                 gksVars, down, faults, commands>>

\* The wait of perform_handshake reads packets until it sees any
\* HANDSHAKE_RES; everything else it reads is dropped.
AwaitResponse ==
  /\ phase = "waiting"
  /\ down # <<>>
  /\ down' = Tail(down)
  /\ IF Head(down).type = "HANDSHAKE_RES"
       THEN /\ session_key' = <<ephemeral, Head(down).g>>
            /\ phase' = "secure"
            /\ ephemeral' = None
       ELSE UNCHANGED <<session_key, phase, ephemeral>>
  /\ UNCHANGED <<pending_ephemeral_key, packets_sent_since_rekey, gksVars, up,
                 faults, commands>>

\* 2500 ms without a response: perform_handshake fails, the loop starts over.
HandshakeTimeout ==
  /\ phase = "waiting"
  /\ FaultUnless(HandshakeQuiet)
  /\ phase' = "idle"
  /\ ephemeral' = None
  /\ UNCHANGED <<session_key, pending_ephemeral_key, packets_sent_since_rekey,
                 gksVars, up, down, commands>>

\* send_telemetry, with initiate_key_rotation on every RekeyThreshold-th packet.
\* Packets leave one per second: at most one of them before the answer to a
\* rekey request that is not late.
SendTelemetry ==
  /\ phase = "secure"
  /\ Len(up) + 1 < MaxUp
  /\ FaultUnless(RekeyQuiet \/ packets_sent_since_rekey = 0)
  /\ IF packets_sent_since_rekey + 1 < RekeyThreshold
       THEN /\ packets_sent_since_rekey' = packets_sent_since_rekey + 1
            /\ up' = Append(up, TELEMETRY(session_key))
            /\ UNCHANGED pending_ephemeral_key
       ELSE /\ packets_sent_since_rekey' = 0
            /\ pending_ephemeral_key' = FreshUavEph
            /\ up' = up \o <<TELEMETRY(session_key), REKEY_REQ(FreshUavEph)>>
  /\ UNCHANGED <<phase, ephemeral, session_key, gksVars, down, commands>>

\* Variant, not the code: RESET is not handled.
ListenIgnoresReset ==
  /\ phase = "secure"
  /\ down # <<>>
  /\ down' = Tail(down)
  /\ IF Head(down).type = "REKEY_RES" /\ pending_ephemeral_key # None
       THEN /\ session_key' = <<pending_ephemeral_key, Head(down).g>>
            /\ pending_ephemeral_key' = None
       ELSE UNCHANGED <<session_key, pending_ephemeral_key>>
  /\ UNCHANGED <<phase, ephemeral, packets_sent_since_rekey, gksVars, up, faults,
                 commands>>

\* listen_for_acks: a RESET ends the session but keeps pending_ephemeral_key; a
\* REKEY_RES switches the key at once; a command is obeyed if it decrypts and
\* dropped if it does not; a late HANDSHAKE_RES is ignored.
ListenForAcks ==
  /\ phase = "secure"
  /\ down # <<>>
  /\ down' = Tail(down)
  /\ LET m == Head(down)
     IN  \/ /\ m.type = "RESET"
            /\ phase' = "idle"
            /\ UNCHANGED <<session_key, pending_ephemeral_key>>
         \/ /\ m.type = "REKEY_RES"
            /\ pending_ephemeral_key # None
            /\ session_key' = <<pending_ephemeral_key, m.g>>
            /\ pending_ephemeral_key' = None
            /\ UNCHANGED phase
         \/ /\ \/ m.type \in {"COMMAND", "HANDSHAKE_RES"}
               \/ m.type = "REKEY_RES" /\ pending_ephemeral_key = None
            /\ UNCHANGED <<phase, session_key, pending_ephemeral_key>>
  /\ UNCHANGED <<ephemeral, packets_sent_since_rekey, gksVars, up, faults, commands>>

-----------------------------------------------------------------------------
(* The ground station. *)

\* _handle_handshake up to its first await: a rekey without a session is
\* dropped.  The signature verifies: every request in flight is the UAV's own.
ReceiveRequest ==
  /\ up # <<>>
  /\ Head(up).type \in {"HANDSHAKE_REQ", "REKEY_REQ"}
  /\ Len(tasks) < MaxTasks
  /\ up' = Tail(up)
  /\ tasks' = IF Head(up).type = "REKEY_REQ" /\ active = None
                THEN tasks ELSE Append(tasks, Head(up))
  /\ UNCHANGED <<uavVars, active, pending, last_seen, reset_ok, down, faults, commands>>

\* Variant, not the code: the new key of a rekey replaces the active one at once.
AnswerBreaksBeforeMake(i) ==
  /\ i \in 1..Len(tasks)
  /\ Len(down) < MaxDown
  /\ FaultUnless(i = 1)
  /\ active' = <<tasks[i].e, FreshGksEph>>
  /\ down' = Append(down, IF tasks[i].type = "REKEY_REQ"
                            THEN REKEY_RES(FreshGksEph)
                            ELSE HANDSHAKE_RES(FreshGksEph))
  /\ tasks' = RemoveAt(tasks, i)
  /\ UNCHANGED <<uavVars, pending, last_seen, reset_ok, up, commands>>

\* The rest of _handle_handshake, after the event is emitted: the new key
\* becomes the active one, or the pending one on a rekey, and the response goes
\* out.  A task may overtake an earlier one whose event takes longer.
AnswerRequest(i) ==
  /\ i \in 1..Len(tasks)
  /\ Len(down) < MaxDown
  /\ FaultUnless(i = 1)
  /\ LET k == <<tasks[i].e, FreshGksEph>>
     IN  \/ /\ tasks[i].type = "REKEY_REQ"
            /\ pending' = k
            /\ down' = Append(down, REKEY_RES(k[2]))
            /\ UNCHANGED active
         \/ /\ tasks[i].type = "HANDSHAKE_REQ"
            /\ active' = k
            /\ down' = Append(down, HANDSHAKE_RES(k[2]))
            /\ UNCHANGED pending
  /\ tasks' = RemoveAt(tasks, i)
  /\ UNCHANGED <<uavVars, last_seen, reset_ok, up, commands>>

\* _handle_telemetry_or_fec without a session: a RESET, at most one per 2 s.
TelemetryNoSession ==
  /\ up # <<>>
  /\ Head(up).type = "TELEMETRY"
  /\ active = None
  /\ up' = Tail(up)
  /\ IF reset_ok
       THEN /\ Len(down) < MaxDown
            /\ down' = Append(down, RESET)
            /\ reset_ok' = FALSE
       ELSE UNCHANGED <<down, reset_ok>>
  /\ UNCHANGED <<uavVars, active, pending, last_seen, tasks, faults, commands>>

\* Variant, not the code: a promotion leaves the key among the pending ones.
DecryptKeepsPending(k) ==
  IF active = k \/ pending = k
    THEN /\ active' = k
         /\ last_seen' = TRUE
         /\ UNCHANGED pending
    ELSE UNCHANGED <<active, pending, last_seen>>

\* Variant, not the code: a packet that does not decrypt ends the session.
RejectEndsSession(k) ==
  IF active = k
    THEN /\ last_seen' = TRUE
         /\ UNCHANGED <<active, pending>>
    ELSE /\ active' = (IF pending = k THEN pending ELSE None)
         /\ pending' = None
         /\ last_seen' = (pending = k)

\* decrypt_payload: the active key, else the pending one, which is then
\* promoted; else the packet is rejected (and no RESET is sent).  A decrypted
\* packet refreshes last_seen_wall_clock.
DecryptPayload(k) ==
  \/ /\ active = k
     /\ last_seen' = TRUE
     /\ UNCHANGED <<active, pending>>
  \/ /\ active # k
     /\ pending = k
     /\ active' = pending
     /\ pending' = None
     /\ last_seen' = TRUE
  \/ /\ active # k
     /\ pending # k
     /\ UNCHANGED <<active, pending, last_seen>>

TelemetryWithSession ==
  /\ up # <<>>
  /\ Head(up).type = "TELEMETRY"
  /\ active # None
  /\ up' = Tail(up)
  /\ DecryptPayload(Head(up).k)
  /\ UNCHANGED <<uavVars, reset_ok, tasks, down, faults, commands>>

\* More than 2 s have passed since the last RESET; it has arrived by then.
ResetInterval ==
  /\ ~ reset_ok
  /\ FaultUnless(~ InFlight(down, "RESET"))
  /\ reset_ok' = TRUE
  /\ UNCHANGED <<uavVars, active, pending, last_seen, tasks, up, down, commands>>

\* session_timeout_checker, 60 s after the last decrypted packet.  It forgets
\* the active key but not the pending one.
SessionTimeout ==
  /\ last_seen
  /\ FaultUnless(/\ ~ Agreed
                 /\ HandshakeQuiet /\ RekeyQuiet
                 /\ \A i \in 1..Len(up) : up[i].k \notin {active, pending})
  /\ active' = None
  /\ last_seen' = FALSE
  /\ reset_ok' = TRUE
  /\ UNCHANGED <<uavVars, pending, tasks, up, down, commands>>

\* send_tactical_command: encrypted with the active key, skipped without one.
SendCommand ==
  /\ commands < MaxCommands
  /\ active # None
  /\ Len(down) < MaxDown
  /\ commands' = commands + 1
  /\ down' = Append(down, COMMAND(active))
  /\ UNCHANGED <<uavVars, gksVars, up, faults>>

-----------------------------------------------------------------------------
(* The environment. *)

Lose ==
  /\ Fault
  /\ \/ /\ \E i \in 1..Len(up) : up' = RemoveAt(up, i)
        /\ UNCHANGED down
     \/ /\ \E i \in 1..Len(down) : down' = RemoveAt(down, i)
        /\ UNCHANGED up
  /\ UNCHANGED <<uavVars, gksVars, commands>>

\* A packet is overtaken by all those sent after it so far.
Delay ==
  /\ Fault
  /\ \/ /\ \E i \in 1..(Len(up) - 1) : up' = Append(RemoveAt(up, i), up[i])
        /\ UNCHANGED down
     \/ /\ \E i \in 1..(Len(down) - 1) : down' = Append(RemoveAt(down, i), down[i])
        /\ UNCHANGED up
  /\ UNCHANGED <<uavVars, gksVars, commands>>

\* The GKS process starts again: every key and every task is gone.
GksRestart ==
  /\ Fault
  /\ active' = None
  /\ pending' = None
  /\ last_seen' = FALSE
  /\ reset_ok' = TRUE
  /\ tasks' = <<>>
  /\ UNCHANGED <<uavVars, up, down, commands>>

\* The UAV process starts again, on a new socket.
UavRestart ==
  /\ Fault
  /\ phase' = "idle"
  /\ ephemeral' = None
  /\ session_key' = None
  /\ pending_ephemeral_key' = None
  /\ packets_sent_since_rekey' = 0
  /\ down' = <<>>
  /\ UNCHANGED <<gksVars, up, commands>>

Next ==
  \/ PerformHandshake \/ AwaitResponse \/ HandshakeTimeout \/ SendTelemetry
  \/ ListenForAcks
  \/ ReceiveRequest
  \/ \E i \in 1..MaxTasks : AnswerRequest(i)
  \/ TelemetryNoSession \/ TelemetryWithSession \/ ResetInterval
  \/ SessionTimeout \/ SendCommand
  \/ Lose \/ Delay \/ GksRestart \/ UavRestart

Spec == Init /\ [][Next]_vars

\* The UAV's loop and the GKS's event loop keep running, so packets in flight
\* arrive and the timers of both fire.  Nothing is fair that spends a fault, and
\* no operator has to send commands.
Fairness ==
  /\ WF_vars(PerformHandshake)
  /\ WF_vars(AwaitResponse)
  /\ WF_vars(HandshakeTimeout /\ faults' = faults)
  /\ WF_vars(SendTelemetry /\ faults' = faults)
  /\ WF_vars(ListenForAcks)
  /\ WF_vars(ReceiveRequest \/ TelemetryNoSession \/ TelemetryWithSession)
  /\ WF_vars(AnswerRequest(1))
  /\ WF_vars(ResetInterval /\ faults' = faults)

FairSpec == Spec /\ Fairness

-----------------------------------------------------------------------------
\* Without faults the GKS always tries the key the UAV uses: across handshakes,
\* rotations and promotions no packet of a secure UAV is ever rejected
\* (crypto_manager.py:44-78, UdpTransceiver.cpp:134-137, 254-301).
FaultFreeAgreement == faults = 0 /\ phase = "secure" => Agreed

\* The GKS makes before it breaks: with at most one fault so far, no step it
\* takes of its own - answering a handshake or a rekey, decrypting, promoting -
\* discards the key the UAV is using (crypto_manager.py:51-54, 58-72).  With two
\* it may: a UAV that gives a handshake up early and sends another, whose task
\* then overtakes the first one's, loses its key to the older request.
MakeBeforeBreak ==
  [][Agreed /\ faults <= 1 /\ faults' = faults /\ UNCHANGED uavVars => Agreed']_vars

\* Whatever went wrong, the link heals for good once the faults are over:
\* through RESET and a new handshake, through the next rotation, or through the
\* session timeout (server.py:490-508, 692-736; UdpTransceiver.cpp:207-211, 248).
LinkHeals == <>[]Agreed

\* Every command the GKS sends can be read when it arrives, as long as nothing
\* goes wrong: rotation is announced as make-before-break
\* (UdpTransceiver.cpp:295).  TLC refutes this: see the README.
CommandsReadable ==
  faults = 0 /\ phase = "secure" /\ down # <<>> =>
    (Head(down).type = "COMMAND" => Head(down).k = session_key)
=============================================================================
