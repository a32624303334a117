-------------------------- MODULE GksSecurityProofs -------------------------
(***************************************************************************)
(* Proofs about what protects the ground station's socket, for all values  *)
(* of the constants: the token bucket in front of it bounds every source   *)
(* over every interval of physical time, whatever the wall clock does; and *)
(* the keys behind it agree.                                               *)
(*                                                                         *)
(* The keys are well formed because a fresh ephemeral key is always there  *)
(* to be taken: fewer are in use than exist.  They agree, as long as       *)
(* nothing goes wrong, because the handshake and every rotation go through *)
(* a fixed succession of situations (Started to Answered below), and in    *)
(* all of them the telemetry under way is encrypted first with the key the *)
(* ground station has and then with the one it is about to promote.        *)
(*                                                                         *)
(* After one fault they may disagree, but the station never takes away the *)
(* key in use: OneFault says what a lost or late packet, a restart or an   *)
(* early timer can make of those situations, and Counts that enough        *)
(* packets separate two rotations for the fault to be only one of them.    *)
(***************************************************************************)
EXTENDS SessionKeys, RateLimiter, FiniteSetTheorems, SequenceTheorems,
        WellFoundedInduction, TLAPS

-----------------------------------------------------------------------------
(* The flood limiter: one token bucket per source. *)

\* Nothing is known of a source before its first datagram.
FreshInv ==
  \A ip \in IPs \ ip_limiters : tokens[ip] = Capacity /\ passed[ip] = 0

\* A debt is bounded both by the steps of the clock and by the wall time that
\* has not yet paid for them.
DebtInv ==
  \A ip \in ip_limiters :
    /\ tokens[ip] + Rate * skew >= 0
    /\ tokens[ip] + Rate * (real - last_update[ip]) >= 0

\* What has passed in the window and what is still in the bucket were both paid
\* for: by one full bucket and by the refills up to the last consume().
PaidInv ==
  \A ip \in ip_limiters :
    \/ passed[ip] = 0
    \/ Cost * passed[ip] + tokens[ip]
         <= Capacity + Rate * (last_update[ip] + skew - winStart)

IInv ==
  /\ LimiterTypeOK
  /\ winStart <= real
  /\ FreshInv
  /\ DebtInv
  /\ PaidInv
  /\ RateBound

-----------------------------------------------------------------------------
\* Multiplication by a natural number is monotone.
LEMMA ScaleNonneg ==
  ASSUME NEW a \in Nat, NEW b \in Int, b >= 0
  PROVE  a * b >= 0
BY SMT

\* ... and distributes over one more.
LEMMA ScaleSucc ==
  ASSUME NEW a \in Int, NEW b \in Int
  PROVE  a * (b + 1) = a * b + a
BY SMT

LEMMA InitIInv == LimiterInit => IInv
<1> SUFFICES ASSUME LimiterInit PROVE IInv
  OBVIOUS
<1> USE RateLimiterAssumption
<1>1. LimiterTypeOK
  BY DEF LimiterInit, LimiterTypeOK
<1>2. winStart <= real /\ FreshInv /\ DebtInv /\ PaidInv
  BY DEF LimiterInit, FreshInv, DebtInv, PaidInv
<1>3. RateBound
  <2> SUFFICES ASSUME NEW ip \in IPs
               PROVE  Cost * passed[ip] <= Capacity + Rate * (real - winStart)
    BY DEF RateBound
  <2>1. passed[ip] = 0 /\ real - winStart = 0
    BY DEF LimiterInit
  <2>2. Cost * 0 = 0 /\ Rate * 0 = 0
    OBVIOUS
  <2> QED
    BY <2>1, <2>2
<1> QED
  BY <1>1, <1>2, <1>3 DEF IInv

\* Facts about the refill that both outcomes of a datagram need.
LEMMA RefillFacts ==
  ASSUME IInv, NEW ip \in IPs
  PROVE  /\ Refilled(ip) \in Int
         /\ Refilled(ip) <= Capacity
         /\ Refilled(ip) + Rate * skew >= 0
         /\ passed[ip] # 0 =>
              Cost * passed[ip] + Refilled(ip) <= Capacity + Rate * (real - winStart)
         /\ Refilled(ip) <= Capacity + Rate * (real - winStart)
<1> USE RateLimiterAssumption
<1>0. /\ real \in Nat /\ skew \in Nat /\ winStart \in Nat /\ winStart <= real
      /\ tokens[ip] \in Int /\ last_update[ip] \in Int /\ passed[ip] \in Nat
      /\ tokens[ip] <= Capacity
  BY DEF IInv, LimiterTypeOK
<1>1. Rate * (real - winStart) >= 0 /\ Rate * skew >= 0
  BY <1>0, ScaleNonneg
<1>2. CASE ip \notin ip_limiters
  <2>1. Refilled(ip) = Capacity
    BY <1>0, <1>2 DEF Refilled, Held, Since, WallClock
  <2>2. passed[ip] = 0
    BY <1>2 DEF IInv, FreshInv
  <2> QED
    BY <1>0, <1>1, <2>1, <2>2
<1>3. CASE ip \in ip_limiters
  <2> DEFINE t == tokens[ip] + Rate * ((real - skew) - last_update[ip])
  <2>1. Refilled(ip) = IF t > Capacity THEN Capacity ELSE t
    BY <1>3 DEF Refilled, Held, Since, WallClock
  <2>2. t \in Int
    BY <1>0
  <2>3. t + Rate * skew = tokens[ip] + Rate * (real - last_update[ip])
    BY <1>0
  <2>4. t + Rate * skew >= 0
    BY <1>0, <1>3, <2>3 DEF IInv, DebtInv
  <2>5. passed[ip] # 0 => Cost * passed[ip] + t <= Capacity + Rate * (real - winStart)
    <3>1. HAVE passed[ip] # 0
    <3>2. Cost * passed[ip] + tokens[ip]
            <= Capacity + Rate * (last_update[ip] + skew - winStart)
      BY <1>3, <3>1 DEF IInv, PaidInv
    <3>3. Rate * (last_update[ip] + skew - winStart) + Rate * ((real - skew) - last_update[ip])
            = Rate * (real - winStart)
      BY <1>0
    <3> HIDE DEF t
    <3>4. Cost * passed[ip] \in Int
      BY <1>0
    <3> QED
      BY <1>0, <3>2, <3>3, <3>4 DEF t
  <2> HIDE DEF t
  <2>6. Refilled(ip) \in Int /\ Refilled(ip) <= t /\ Refilled(ip) <= Capacity
    BY <2>1, <2>2
  <2>7. /\ Rate * skew \in Int
        /\ Rate * (real - winStart) \in Int
        /\ Cost * passed[ip] \in Int
    BY <1>0
  <2>8. Refilled(ip) + Rate * skew >= 0
    BY <1>1, <2>1, <2>2, <2>4, <2>7
  <2> QED
    BY <1>1, <2>2, <2>5, <2>6, <2>7, <2>8
<1> QED
  BY <1>2, <1>3

LEMMA DatagramIInv ==
  ASSUME IInv, NEW ip \in IPs, Datagram(ip)
  PROVE  IInv'
<1> USE RateLimiterAssumption
<1> DEFINE r == Refilled(ip)
<1>0. /\ real \in Nat /\ skew \in Nat /\ winStart \in Nat /\ winStart <= real
      /\ passed \in [IPs -> Nat] /\ tokens \in [IPs -> Int]
      /\ last_update \in [IPs -> Int] /\ ip_limiters \subseteq IPs
      /\ \A i \in IPs : tokens[i] <= Capacity
  BY DEF IInv, LimiterTypeOK
<1>1. /\ r \in Int
      /\ r <= Capacity
      /\ r + Rate * skew >= 0
      /\ passed[ip] # 0 =>
           Cost * passed[ip] + r <= Capacity + Rate * (real - winStart)
      /\ r <= Capacity + Rate * (real - winStart)
  BY RefillFacts
<1>2. /\ UNCHANGED <<real, skew, winStart>>
      /\ ip_limiters' = ip_limiters \cup {ip}
      /\ last_update' = [last_update EXCEPT ![ip] = real - skew]
  BY DEF Datagram, WallClock
<1>3. \/ /\ r >= Cost
         /\ tokens' = [tokens EXCEPT ![ip] = r - Cost]
         /\ passed' = [passed EXCEPT ![ip] = passed[ip] + 1]
      \/ /\ r < Cost
         /\ tokens' = [tokens EXCEPT ![ip] = r]
         /\ passed' = passed
  BY DEF Datagram
<1> HIDE DEF r
\* What the datagram leaves behind for its own source.
<1>4. /\ tokens'[ip] \in Int /\ tokens'[ip] <= Capacity
      /\ tokens'[ip] + Rate * skew >= 0
      /\ passed'[ip] \in Nat
      /\ last_update'[ip] = real - skew
      /\ \/ passed'[ip] = 0
         \/ Cost * passed'[ip] + tokens'[ip] <= Capacity + Rate * (real - winStart)
      /\ Cost * passed'[ip] <= Capacity + Rate * (real - winStart)
  <2>1. Rate * skew >= 0
    BY <1>0, ScaleNonneg
  <2>2. Cost * passed[ip] <= Capacity + Rate * (real - winStart)
    BY DEF IInv, RateBound
  <2>3. CASE r >= Cost
    <3>1. tokens'[ip] = r - Cost /\ passed'[ip] = passed[ip] + 1
      BY <1>0, <1>1, <1>3, <2>3
    <3>2. Cost * passed'[ip] = Cost * passed[ip] + Cost
      BY <1>0, <3>1
    <3>3. passed[ip] = 0 => Cost * passed[ip] = 0
      BY <1>0
    <3>4. /\ Cost * passed[ip] \in Int
          /\ Rate * (real - winStart) \in Int
          /\ Rate * skew \in Int
      BY <1>0
    <3>5. Cost * passed[ip] + r <= Capacity + Rate * (real - winStart)
      BY <1>0, <1>1, <3>3, <3>4
    <3>6. Cost * passed'[ip] + tokens'[ip] <= Capacity + Rate * (real - winStart)
      BY <1>0, <1>1, <3>1, <3>2, <3>4, <3>5
    <3>7. tokens'[ip] \in Int /\ tokens'[ip] >= 0 /\ tokens'[ip] <= Capacity
      BY <1>1, <2>3, <3>1
    <3>8. Cost * passed'[ip] <= Capacity + Rate * (real - winStart)
      <4>1. Cost * passed'[ip] \in Int
        BY <3>2, <3>4
      <4> QED
        BY <3>4, <3>6, <3>7, <4>1
    <3>9. passed'[ip] \in Nat /\ last_update'[ip] = real - skew
      BY <1>0, <1>2, <3>1
    <3> QED
      BY <2>1, <3>4, <3>6, <3>7, <3>8, <3>9
  <2>4. CASE r < Cost
    <3>1. tokens'[ip] = r /\ passed'[ip] = passed[ip]
      BY <1>0, <1>1, <1>3, <2>4
    <3> QED
      BY <1>0, <1>1, <1>2, <2>2, <3>1
  <2> QED
    BY <1>1, <2>3, <2>4
<1>5. ASSUME NEW i \in IPs, i # ip
      PROVE  /\ tokens'[i] = tokens[i]
             /\ passed'[i] = passed[i]
             /\ last_update'[i] = last_update[i]
             /\ i \in ip_limiters' <=> i \in ip_limiters
  BY <1>0, <1>2, <1>3, <1>5
<1>6. LimiterTypeOK'
  <2>1. tokens' \in [IPs -> Int] /\ passed' \in [IPs -> Nat] /\ last_update' \in [IPs -> Int]
    BY <1>0, <1>1, <1>2, <1>3
  <2>2. \A i \in IPs : tokens'[i] <= Capacity
    BY <1>0, <1>4, <1>5
  <2> QED
    BY <1>0, <1>2, <2>1, <2>2 DEF LimiterTypeOK
<1>7. FreshInv'
  BY <1>2, <1>5 DEF IInv, FreshInv
<1>8. DebtInv'
  <2> SUFFICES ASSUME NEW i \in ip_limiters'
               PROVE  /\ tokens'[i] + Rate * skew >= 0
                      /\ tokens'[i] + Rate * (real - last_update'[i]) >= 0
    BY <1>2 DEF DebtInv
  <2>1. i \in IPs
    BY <1>0, <1>2
  <2>2. CASE i = ip
    <3>1. real - last_update'[i] = skew
      BY <1>0, <1>4, <2>2
    <3> QED
      BY <1>4, <2>2, <3>1
  <2>3. CASE i # ip
    BY <1>5, <2>1, <2>3 DEF IInv, DebtInv
  <2> QED
    BY <2>2, <2>3
<1>9. PaidInv'
  <2> SUFFICES ASSUME NEW i \in ip_limiters'
               PROVE  \/ passed'[i] = 0
                      \/ Cost * passed'[i] + tokens'[i]
                           <= Capacity + Rate * (last_update'[i] + skew - winStart)
    BY <1>2 DEF PaidInv
  <2>1. i \in IPs
    BY <1>0, <1>2
  <2>2. CASE i = ip
    <3>1. last_update'[i] + skew - winStart = real - winStart
      BY <1>0, <1>4, <2>2
    <3> QED
      BY <1>4, <2>2, <3>1
  <2>3. CASE i # ip
    BY <1>5, <2>1, <2>3 DEF IInv, PaidInv
  <2> QED
    BY <2>2, <2>3
<1>10. RateBound'
  <2> SUFFICES ASSUME NEW i \in IPs
               PROVE  Cost * passed'[i] <= Capacity + Rate * (real - winStart)
    BY <1>2 DEF RateBound
  <2>1. CASE i = ip
    BY <1>4, <2>1
  <2>2. CASE i # ip
    BY <1>5, <2>2 DEF IInv, RateBound
  <2> QED
    BY <2>1, <2>2
<1> QED
  BY <1>0, <1>2, <1>6, <1>7, <1>8, <1>9, <1>10 DEF IInv

LEMMA TickIInv ==
  ASSUME IInv, Tick
  PROVE  IInv'
<1> USE RateLimiterAssumption
<1>0. /\ real \in Nat /\ skew \in Nat /\ winStart \in Nat /\ winStart <= real
      /\ ip_limiters \subseteq IPs /\ tokens \in [IPs -> Int]
      /\ last_update \in [IPs -> Int] /\ passed \in [IPs -> Nat]
      /\ real' = real + 1
      /\ UNCHANGED <<skew, ip_limiters, tokens, last_update, winStart, passed>>
  BY DEF IInv, LimiterTypeOK, Tick
<1>1. LimiterTypeOK' /\ winStart' <= real' /\ FreshInv' /\ PaidInv'
  BY <1>0 DEF IInv, LimiterTypeOK, FreshInv, PaidInv
<1>2. DebtInv'
  <2> SUFFICES ASSUME NEW ip \in ip_limiters
               PROVE  /\ tokens[ip] + Rate * skew >= 0
                      /\ tokens[ip] + Rate * ((real + 1) - last_update[ip]) >= 0
    BY <1>0 DEF DebtInv
  <2>1. tokens[ip] \in Int /\ last_update[ip] \in Int
    BY <1>0
  <2>2. Rate * ((real + 1) - last_update[ip]) = Rate * (real - last_update[ip]) + Rate
    <3>1. (real + 1) - last_update[ip] = (real - last_update[ip]) + 1
      BY <1>0, <2>1
    <3>2. real - last_update[ip] \in Int
      BY <1>0, <2>1
    <3> QED
      BY <3>1, <3>2, ScaleSucc
  <2>3. Rate * (real - last_update[ip]) \in Int
    BY <1>0, <2>1
  <2> QED
    BY <2>1, <2>2, <2>3 DEF IInv, DebtInv
<1>3. RateBound'
  <2> SUFFICES ASSUME NEW ip \in IPs
               PROVE  Cost * passed[ip] <= Capacity + Rate * ((real + 1) - winStart)
    BY <1>0 DEF RateBound
  <2>1. Rate * ((real + 1) - winStart) = Rate * (real - winStart) + Rate
    BY <1>0
  <2>2. Rate * (real - winStart) \in Int /\ Cost * passed[ip] \in Int
    BY <1>0
  <2> QED
    BY <2>1, <2>2 DEF IInv, RateBound
<1> QED
  BY <1>1, <1>2, <1>3 DEF IInv

LEMMA StepBackIInv ==
  ASSUME IInv, NEW d \in 1..MaxSkew, StepBack(d)
  PROVE  IInv'
<1> USE RateLimiterAssumption
<1>0. /\ real \in Nat /\ skew \in Nat /\ winStart \in Nat /\ winStart <= real
      /\ ip_limiters \subseteq IPs /\ tokens \in [IPs -> Int]
      /\ last_update \in [IPs -> Int] /\ passed \in [IPs -> Nat]
      /\ skew' = skew + d /\ d \in Nat
      /\ UNCHANGED <<real, ip_limiters, tokens, last_update, winStart, passed>>
  BY DEF IInv, LimiterTypeOK, StepBack
<1>1. Rate * d >= 0 /\ Rate * d \in Int
  BY <1>0, ScaleNonneg
<1>2. LimiterTypeOK' /\ winStart' <= real' /\ FreshInv' /\ RateBound'
  BY <1>0 DEF IInv, LimiterTypeOK, FreshInv, RateBound
<1>3. DebtInv'
  <2> SUFFICES ASSUME NEW ip \in ip_limiters
               PROVE  /\ tokens[ip] + Rate * (skew + d) >= 0
                      /\ tokens[ip] + Rate * (real - last_update[ip]) >= 0
    BY <1>0 DEF DebtInv
  <2>1. Rate * (skew + d) = Rate * skew + Rate * d /\ Rate * skew \in Int /\ tokens[ip] \in Int
    BY <1>0
  <2> QED
    BY <1>1, <2>1 DEF IInv, DebtInv
<1>4. PaidInv'
  <2> SUFFICES ASSUME NEW ip \in ip_limiters, passed[ip] # 0
               PROVE  Cost * passed[ip] + tokens[ip]
                        <= Capacity + Rate * (last_update[ip] + (skew + d) - winStart)
    BY <1>0 DEF PaidInv
  <2>1. Cost * passed[ip] + tokens[ip]
          <= Capacity + Rate * (last_update[ip] + skew - winStart)
    BY DEF IInv, PaidInv
  <2>2. tokens[ip] \in Int /\ last_update[ip] \in Int /\ passed[ip] \in Nat
    BY <1>0
  <2>3. Rate * (last_update[ip] + (skew + d) - winStart)
          = Rate * (last_update[ip] + skew - winStart) + Rate * d
    BY <1>0, <2>2
  <2>4. Rate * (last_update[ip] + skew - winStart) \in Int /\ Cost * passed[ip] \in Int
    BY <1>0, <2>2
  <2> QED
    BY <1>1, <2>1, <2>2, <2>3, <2>4
<1> QED
  BY <1>2, <1>3, <1>4 DEF IInv

LEMMA OpenWindowIInv ==
  ASSUME IInv, OpenWindow
  PROVE  IInv'
<1> USE RateLimiterAssumption
<1>0. /\ real \in Nat /\ ip_limiters \subseteq IPs
      /\ winStart' = real /\ passed' = [ip \in IPs |-> 0]
      /\ UNCHANGED <<real, skew, ip_limiters, tokens, last_update>>
  BY DEF IInv, LimiterTypeOK, OpenWindow
<1>1. LimiterTypeOK' /\ winStart' <= real' /\ FreshInv' /\ DebtInv' /\ PaidInv'
  BY <1>0 DEF IInv, LimiterTypeOK, FreshInv, DebtInv, PaidInv
<1>2. RateBound'
  BY <1>0 DEF RateBound
<1> QED
  BY <1>1, <1>2 DEF IInv

LEMMA NextIInv == IInv /\ [LimiterNext]_limiterVars => IInv'
<1> SUFFICES ASSUME IInv, [LimiterNext]_limiterVars PROVE IInv'
  OBVIOUS
<1>1. ASSUME NEW ip \in IPs, Datagram(ip) PROVE IInv'
  BY <1>1, DatagramIInv
<1>2. CASE Tick
  BY <1>2, TickIInv
<1>3. ASSUME NEW d \in 1..MaxSkew, StepBack(d) PROVE IInv'
  BY <1>3, StepBackIInv
<1>4. CASE OpenWindow
  BY <1>4, OpenWindowIInv
<1>5. CASE UNCHANGED limiterVars
  BY <1>5 DEF limiterVars, IInv, LimiterTypeOK, FreshInv, DebtInv, PaidInv, RateBound
<1> QED
  BY <1>1, <1>2, <1>3, <1>4, <1>5 DEF LimiterNext

LEMMA SpecIInv == LimiterSpec => []IInv
<1> QED
  BY InitIInv, NextIInv, PTL DEF LimiterSpec

\* The types of the limiter's state, and that no bucket overflows.
THEOREM RateLimiterTypeOK == LimiterSpec => []LimiterTypeOK
<1>1. IInv => LimiterTypeOK
  BY DEF IInv
<1> QED
  BY <1>1, SpecIInv, PTL

\* No source gets more than a burst plus its rate in any interval of physical
\* time (server.py:25-34, 399-409).
THEOREM RateLimiterBound == LimiterSpec => []RateBound
<1>1. IInv => RateBound
  BY DEF IInv
<1> QED
  BY <1>1, SpecIInv, PTL

\* No silent source is refused for longer than the time of one token plus all
\* the time by which the clock was ever set back.
THEOREM RateLimiterQuiet == LimiterSpec => []QuietSourcePasses
<1>1. IInv => QuietSourcePasses
  <2> SUFFICES ASSUME IInv, NEW ip \in ip_limiters,
                      Rate * (WallClock - last_update[ip]) >= Cost + Rate * skew
               PROVE  Refilled(ip) >= Cost
    BY DEF QuietSourcePasses
  <2> USE RateLimiterAssumption
  <2>1. /\ ip \in IPs /\ tokens[ip] \in Int /\ last_update[ip] \in Int
        /\ real \in Nat /\ skew \in Nat
    BY DEF IInv, LimiterTypeOK
  <2>2. tokens[ip] + Rate * skew >= 0
    BY DEF IInv, DebtInv
  <2>3. Rate * skew \in Int /\ Rate * (WallClock - last_update[ip]) \in Int
    BY <2>1 DEF WallClock
  <2>4. tokens[ip] + Rate * (WallClock - last_update[ip]) >= Cost
    BY <2>1, <2>2, <2>3
  <2> QED
    BY <2>1, <2>3, <2>4 DEF Refilled, Held, Since
<1> QED
  BY <1>1, SpecIInv, PTL

-----------------------------------------------------------------------------
(* The keys. *)

Requests == {HANDSHAKE_REQ(e) : e \in Ephs} \cup {REKEY_REQ(e) : e \in Ephs}

UavInv ==
  /\ phase \in {"idle", "waiting", "secure"}
  /\ ephemeral \in Ephs \cup {None}
  /\ phase = "waiting" <=> ephemeral # None
  /\ session_key \in Keys \cup {None}
  /\ phase = "secure" => session_key # None
  /\ pending_ephemeral_key \in Ephs \cup {None}
  /\ packets_sent_since_rekey \in 0..(RekeyThreshold - 1)

GksInv ==
  /\ active \in Keys \cup {None}
  /\ pending \in Keys \cup {None}
  /\ active # None => active # pending
  /\ last_seen \in BOOLEAN
  /\ reset_ok \in BOOLEAN

ChannelsInv ==
  /\ up \in Seq(UpMsgs) /\ Len(up) <= MaxUp
  /\ down \in Seq(DownMsgs) /\ Len(down) <= MaxDown
  /\ tasks \in Seq(Requests) /\ Len(tasks) <= MaxTasks

Inv ==
  /\ UavInv
  /\ GksInv
  /\ ChannelsInv
  /\ faults \in 0..MaxFaults
  /\ commands \in 0..MaxCommands

-----------------------------------------------------------------------------
(* Messages and requests. *)

LEMMA TheTypes ==
  /\ MaxUp \in Nat /\ MaxDown \in Nat /\ MaxTasks \in Nat /\ MaxEph \in Nat
  /\ MaxEph > 5 + MaxUp + MaxDown + MaxTasks
  /\ RekeyThreshold \in Nat /\ RekeyThreshold > 1
  /\ MaxFaults \in Nat /\ MaxCommands \in Nat
BY SessionKeysAssumption

LEMMA UpMessage ==
  ASSUME NEW m \in UpMsgs
  PROVE  \/ \E e \in Ephs : m = HANDSHAKE_REQ(e)
         \/ \E e \in Ephs : m = REKEY_REQ(e)
         \/ \E k \in Keys : m = TELEMETRY(k)
BY DEF UpMsgs

LEMMA UpFields ==
  ASSUME NEW m \in UpMsgs
  PROVE  /\ m.type \in {"HANDSHAKE_REQ", "REKEY_REQ", "TELEMETRY"}
         /\ m.type = "TELEMETRY" => m.k \in Keys
         /\ m.type # "TELEMETRY" => m.e \in Ephs /\ m \in Requests
BY UpMessage DEF HANDSHAKE_REQ, REKEY_REQ, TELEMETRY, Requests

LEMMA DownFields ==
  ASSUME NEW m \in DownMsgs
  PROVE  /\ m.type \in {"HANDSHAKE_RES", "REKEY_RES", "COMMAND", "RESET"}
         /\ m.type = "COMMAND" => m.k \in Keys
         /\ m.type \in {"HANDSHAKE_RES", "REKEY_RES"} => m.g \in Ephs
BY DEF DownMsgs, HANDSHAKE_RES, REKEY_RES, COMMAND, RESET

LEMMA RequestFields ==
  ASSUME NEW r \in Requests
  PROVE  r.type \in {"HANDSHAKE_REQ", "REKEY_REQ"} /\ r.e \in Ephs /\ r \in UpMsgs
BY DEF Requests, UpMsgs, HANDSHAKE_REQ, REKEY_REQ

LEMMA KeyParts ==
  ASSUME NEW k \in Keys
  PROVE  k[1] \in Ephs /\ k[2] \in Ephs /\ k = <<k[1], k[2]>> /\ k # None
BY NoneAssumption DEF Keys

-----------------------------------------------------------------------------
(* There is always a fresh ephemeral key: fewer are in use than exist. *)

\* The ephemeral key of the UAV that place n of the system holds.
UavSlot(n) ==
  IF n = 1 THEN session_key[1]
  ELSE IF n = 2 THEN active[1]
  ELSE IF n = 3 THEN pending[1]
  ELSE IF n = 4 THEN ephemeral
  ELSE IF n = 5 THEN pending_ephemeral_key
  ELSE IF n <= 5 + MaxUp
    THEN IF up[n - 5].type = "TELEMETRY" THEN up[n - 5].k[1] ELSE up[n - 5].e
  ELSE IF n <= 5 + MaxUp + MaxDown THEN down[n - (5 + MaxUp)].k[1]
  ELSE tasks[n - (5 + MaxUp + MaxDown)].e

\* The ephemeral key of the GKS that place n of the system holds.
GksSlot(n) ==
  IF n = 1 THEN session_key[2]
  ELSE IF n = 2 THEN active[2]
  ELSE IF n = 3 THEN pending[2]
  ELSE IF n <= 5 THEN None
  ELSE IF n <= 5 + MaxUp THEN up[n - 5].k[2]
  ELSE IF down[n - (5 + MaxUp)].type = "COMMAND" THEN down[n - (5 + MaxUp)].k[2]
  ELSE down[n - (5 + MaxUp)].g

Slots == 1..(5 + MaxUp + MaxDown + MaxTasks)

\* A place holds at most one of the numbers, and there are more of them.
LEMMA NotAllUsed ==
  ASSUME NEW f \in [Ephs -> Slots],
         \A e1, e2 \in Ephs : f[e1] = f[e2] => e1 = e2
  PROVE  FALSE
<1>1. IsFiniteSet(Ephs) /\ Cardinality(Ephs) = MaxEph
  BY FS_Interval, TheTypes DEF Ephs
<1>2. IsFiniteSet(Slots) /\ Cardinality(Slots) = 5 + MaxUp + MaxDown + MaxTasks
  BY FS_Interval, TheTypes DEF Slots
<1> QED
  BY <1>1, <1>2, FS_PigeonHole, TheTypes

LEMMA LeastIsIn ==
  ASSUME NEW S \in SUBSET Nat, S # {}
  PROVE  Least(S) \in S
<1>1. PICK x \in S : \A y \in S : ~ (<<y, x>> \in OpToRel(<, Nat))
  BY WFMin, NatLessThanWellFounded
<1>2. \A y \in S : ~ (y < x)
  BY <1>1 DEF OpToRel
<1>3. \A y \in S : x <= y
  BY <1>2
<1> QED
  BY <1>3 DEF Least

LEMMA UavSlots ==
  ASSUME Inv, NEW e \in UavEphsInUse
  PROVE  \E n \in Slots : UavSlot(n) = e
<1> USE TheTypes
<1>1. CASE e \in {ephemeral, pending_ephemeral_key}
  <2>1. 4 \in Slots /\ 5 \in Slots /\ UavSlot(4) = ephemeral /\ UavSlot(5) = pending_ephemeral_key
    BY DEF Slots, UavSlot
  <2> QED
    BY <1>1, <2>1
<1>2. CASE \E k \in {session_key, active, pending} : e = k[1]
  <2>1. 1 \in Slots /\ 2 \in Slots /\ 3 \in Slots
    BY DEF Slots
  <2>2. UavSlot(1) = session_key[1] /\ UavSlot(2) = active[1] /\ UavSlot(3) = pending[1]
    BY DEF UavSlot
  <2> QED
    BY <1>2, <2>1, <2>2
<1>3. CASE \E i \in 1..Len(up) :
             e = (IF up[i].type = "TELEMETRY" THEN up[i].k[1] ELSE up[i].e)
  <2>1. PICK i \in 1..Len(up) :
          e = (IF up[i].type = "TELEMETRY" THEN up[i].k[1] ELSE up[i].e)
    BY <1>3
  <2>2. i \in Nat /\ i > 0 /\ i <= MaxUp
    BY DEF Inv, ChannelsInv
  <2>3. 5 + i \in Slots /\ 5 + i > 5 /\ 5 + i <= 5 + MaxUp /\ (5 + i) - 5 = i
    BY <2>2 DEF Slots
  <2>4. UavSlot(5 + i) = e
    BY <2>1, <2>3, <2>2 DEF UavSlot
  <2> QED
    BY <2>3, <2>4
<1>4. CASE \E i \in 1..Len(down) : e = down[i].k[1]
  <2>1. PICK i \in 1..Len(down) : e = down[i].k[1]
    BY <1>4
  <2>2. i \in Nat /\ i > 0 /\ i <= MaxDown
    BY DEF Inv, ChannelsInv
  <2> DEFINE n == 5 + MaxUp + i
  <2>3. n \in Slots /\ n > 5 /\ ~ (n <= 5 + MaxUp) /\ n <= 5 + MaxUp + MaxDown
          /\ n - (5 + MaxUp) = i
    BY <2>2 DEF Slots
  <2>4. UavSlot(n) = e
    BY <2>1, <2>3, <2>2 DEF UavSlot
  <2> QED
    BY <2>3, <2>4
<1>5. CASE \E i \in 1..Len(tasks) : e = tasks[i].e
  <2>1. PICK i \in 1..Len(tasks) : e = tasks[i].e
    BY <1>5
  <2>2. i \in Nat /\ i > 0 /\ i <= MaxTasks
    BY DEF Inv, ChannelsInv
  <2> DEFINE n == 5 + MaxUp + MaxDown + i
  <2>3. n \in Slots /\ n > 5 /\ ~ (n <= 5 + MaxUp) /\ ~ (n <= 5 + MaxUp + MaxDown)
          /\ n - (5 + MaxUp + MaxDown) = i
    BY <2>2 DEF Slots
  <2>4. UavSlot(n) = e
    BY <2>1, <2>3, <2>2 DEF UavSlot
  <2> QED
    BY <2>3, <2>4
<1> QED
  BY <1>1, <1>2, <1>3, <1>4, <1>5 DEF UavEphsInUse, LiveKeys

LEMMA GksSlots ==
  ASSUME Inv, NEW g \in GksEphsInUse
  PROVE  \E n \in Slots : GksSlot(n) = g
<1> USE TheTypes
<1>1. CASE \E k \in {session_key, active, pending} : g = k[2]
  <2>1. 1 \in Slots /\ 2 \in Slots /\ 3 \in Slots
    BY DEF Slots
  <2>2. GksSlot(1) = session_key[2] /\ GksSlot(2) = active[2] /\ GksSlot(3) = pending[2]
    BY DEF GksSlot
  <2> QED
    BY <1>1, <2>1, <2>2
<1>2. CASE \E i \in 1..Len(up) : g = up[i].k[2]
  <2>1. PICK i \in 1..Len(up) : g = up[i].k[2]
    BY <1>2
  <2>2. i \in Nat /\ i > 0 /\ i <= MaxUp
    BY DEF Inv, ChannelsInv
  <2>3. 5 + i \in Slots /\ ~ (5 + i <= 5) /\ 5 + i <= 5 + MaxUp /\ (5 + i) - 5 = i
    BY <2>2 DEF Slots
  <2>4. GksSlot(5 + i) = g
    BY <2>1, <2>3, <2>2 DEF GksSlot
  <2> QED
    BY <2>3, <2>4
<1>3. CASE \E i \in 1..Len(down) :
             g = (IF down[i].type = "COMMAND" THEN down[i].k[2] ELSE down[i].g)
  <2>1. PICK i \in 1..Len(down) :
          g = (IF down[i].type = "COMMAND" THEN down[i].k[2] ELSE down[i].g)
    BY <1>3
  <2>2. i \in Nat /\ i > 0 /\ i <= MaxDown
    BY DEF Inv, ChannelsInv
  <2> DEFINE n == 5 + MaxUp + i
  <2>3. n \in Slots /\ ~ (n <= 5) /\ ~ (n <= 5 + MaxUp) /\ n - (5 + MaxUp) = i
    BY <2>2 DEF Slots
  <2>4. GksSlot(n) = g
    BY <2>1, <2>3, <2>2 DEF GksSlot
  <2> QED
    BY <2>3, <2>4
<1> QED
  BY <1>1, <1>2, <1>3 DEF GksEphsInUse, LiveKeys

LEMMA FreshUav ==
  ASSUME Inv
  PROVE  FreshUavEph \in Ephs \ UavEphsInUse
<1>1. SUFFICES Ephs \ UavEphsInUse # {}
  <2>1. Ephs \ UavEphsInUse \in SUBSET Nat
    BY TheTypes DEF Ephs
  <2> QED
    BY <1>1, <2>1, LeastIsIn DEF FreshUavEph
<1>2. SUFFICES ASSUME \A e \in Ephs : e \in UavEphsInUse PROVE FALSE
  OBVIOUS
<1> DEFINE f == [e \in Ephs |-> CHOOSE n \in Slots : UavSlot(n) = e]
<1>3. \A e \in Ephs : f[e] \in Slots /\ UavSlot(f[e]) = e
  BY <1>2, UavSlots
<1>4. f \in [Ephs -> Slots]
  BY <1>3
<1>5. \A e1, e2 \in Ephs : f[e1] = f[e2] => e1 = e2
  BY <1>3
<1> HIDE DEF f
<1> QED
  BY <1>4, <1>5, NotAllUsed

LEMMA FreshGks ==
  ASSUME Inv
  PROVE  FreshGksEph \in Ephs \ GksEphsInUse
<1>1. SUFFICES Ephs \ GksEphsInUse # {}
  <2>1. Ephs \ GksEphsInUse \in SUBSET Nat
    BY TheTypes DEF Ephs
  <2> QED
    BY <1>1, <2>1, LeastIsIn DEF FreshGksEph
<1>2. SUFFICES ASSUME \A e \in Ephs : e \in GksEphsInUse PROVE FALSE
  OBVIOUS
<1> DEFINE f == [e \in Ephs |-> CHOOSE n \in Slots : GksSlot(n) = e]
<1>3. \A e \in Ephs : f[e] \in Slots /\ GksSlot(f[e]) = e
  BY <1>2, GksSlots
<1>4. f \in [Ephs -> Slots]
  BY <1>3
<1>5. \A e1, e2 \in Ephs : f[e1] = f[e2] => e1 = e2
  BY <1>3
<1> HIDE DEF f
<1> QED
  BY <1>4, <1>5, NotAllUsed

\* A key made with a fresh ephemeral key of the GKS is one nobody holds.
LEMMA FreshKey ==
  ASSUME Inv, NEW e \in Ephs
  PROVE  /\ <<e, FreshGksEph>> \in Keys
         /\ <<e, FreshGksEph>> \notin {session_key, active, pending}
         /\ \A i \in 1..Len(up) : up[i].type = "TELEMETRY" =>
              <<e, FreshGksEph>> # up[i].k
<1>1. FreshGksEph \in Ephs \ GksEphsInUse
  BY FreshGks
<1>2. <<e, FreshGksEph>> \in Keys
  BY <1>1 DEF Keys
<1>3. \A k \in LiveKeys : <<e, FreshGksEph>> # k
  BY <1>1, <1>2, KeyParts DEF GksEphsInUse
<1> QED
  BY <1>2, <1>3 DEF LiveKeys

-----------------------------------------------------------------------------
(* Type correctness. *)

LEMMA Removed ==
  ASSUME NEW S, NEW s \in Seq(S), NEW i \in 1..Len(s)
  PROVE  RemoveAt(s, i) \in Seq(S) /\ Len(RemoveAt(s, i)) = Len(s) - 1
<1>1. Len(s) \in Nat /\ i \in Nat /\ i >= 1 /\ i <= Len(s)
  OBVIOUS
<1>2. \A j \in 1..Len(s) : s[j] \in S
  BY ElementOfSeq
<1> DEFINE a == SubSeq(s, 1, i - 1)
           b == SubSeq(s, i + 1, Len(s))
<1>3. a \in Seq(S) /\ Len(a) = i - 1
  BY <1>1, <1>2, SubSeqProperties
<1>4. b \in Seq(S) /\ Len(b) = Len(s) - i
  BY <1>1, <1>2, SubSeqProperties
<1>5. RemoveAt(s, i) = a \o b
  BY DEF RemoveAt
<1> HIDE DEF a, b
<1>6. a \o b \in Seq(S) /\ Len(a \o b) = Len(a) + Len(b)
  BY <1>3, <1>4, ConcatProperties
<1>7. Len(a) + Len(b) = Len(s) - 1
  BY <1>1, <1>3, <1>4
<1> QED
  BY <1>5, <1>6, <1>7

LEMMA Tailed ==
  ASSUME NEW S, NEW s \in Seq(S), s # <<>>
  PROVE  /\ Tail(s) \in Seq(S) /\ Len(Tail(s)) = Len(s) - 1
         /\ Head(s) \in S /\ Head(s) = s[1] /\ Len(s) > 0
         /\ \A i \in 1..Len(Tail(s)) : Tail(s)[i] = s[i + 1]
<1>1. Len(s) \in Nat /\ Len(s) > 0
  OBVIOUS
<1>2. s[1] \in S
  BY <1>1, ElementOfSeq
<1> QED
  BY <1>1, <1>2, HeadTailProperties

LEMMA Appended ==
  ASSUME NEW S, NEW s \in Seq(S), NEW m \in S
  PROVE  /\ Append(s, m) \in Seq(S) /\ Len(Append(s, m)) = Len(s) + 1
         /\ \A i \in 1..Len(s) : Append(s, m)[i] = s[i]
         /\ Append(s, m)[Len(s) + 1] = m
BY AppendProperties

LEMMA Moved ==
  ASSUME NEW S, NEW s \in Seq(S), NEW i \in 1..(Len(s) - 1)
  PROVE  /\ Append(RemoveAt(s, i), s[i]) \in Seq(S)
         /\ Len(Append(RemoveAt(s, i), s[i])) = Len(s)
<1>1. i \in 1..Len(s) /\ Len(s) \in Nat
  OBVIOUS
<1>2. s[i] \in S
  BY <1>1, ElementOfSeq
<1> QED
  BY <1>1, <1>2, Removed, Appended

LEMMA InvTypeOK == Inv => TypeOK
<1> SUFFICES ASSUME Inv PROVE TypeOK
  OBVIOUS
<1>1. /\ \A i \in 1..Len(up) : up[i] \in UpMsgs
      /\ \A i \in 1..Len(down) : down[i] \in DownMsgs
      /\ \A i \in 1..Len(tasks) : tasks[i] \in Requests
  BY ElementOfSeq DEF Inv, ChannelsInv
<1>2. \A i \in 1..Len(tasks) : /\ tasks[i].type \in {"HANDSHAKE_REQ", "REKEY_REQ"}
                               /\ tasks[i].e \in Ephs
  BY <1>1, RequestFields
<1> QED
  BY <1>1, <1>2 DEF Inv, UavInv, GksInv, ChannelsInv, TypeOK

LEMMA InitInv == Init => Inv
<1> SUFFICES ASSUME Init PROVE Inv
  OBVIOUS
<1>1. ChannelsInv
  BY TheTypes DEF Init, ChannelsInv
<1>2. UavInv
  BY TheTypes DEF Init, UavInv
<1>3. last_seen \in BOOLEAN /\ reset_ok \in BOOLEAN
  BY DEF Init
<1>4. GksInv
  BY <1>3 DEF Init, GksInv
<1> QED
  BY <1>1, <1>2, <1>4, TheTypes DEF Init, Inv

LEMMA FaultTypes ==
  ASSUME faults \in 0..MaxFaults, faults' = faults \/ Fault
  PROVE  faults' \in 0..MaxFaults
BY TheTypes DEF Fault

LEMMA NextFaults == Next => faults' = faults \/ Fault
<1> SUFFICES ASSUME Next PROVE faults' = faults \/ Fault
  OBVIOUS
<1> QED
  BY DEF Next, PerformHandshake, AwaitResponse, HandshakeTimeout, SendTelemetry,
         ListenForAcks, ReceiveRequest, AnswerRequest, TelemetryNoSession,
         TelemetryWithSession, ResetInterval, SessionTimeout, SendCommand, Lose, Delay,
         GksRestart, UavRestart, FaultUnless

\* The channels, one action at a time.
LEMMA ChannelsStep ==
  ASSUME Inv, Next
  PROVE  ChannelsInv'
<1> USE TheTypes DEF ChannelsInv, Inv
<1>0. /\ \A i \in 1..Len(up) : up[i] \in UpMsgs
      /\ \A i \in 1..Len(down) : down[i] \in DownMsgs
      /\ \A i \in 1..Len(tasks) : tasks[i] \in Requests
      /\ Len(up) \in Nat /\ Len(down) \in Nat /\ Len(tasks) \in Nat
  BY ElementOfSeq
<1>1. CASE PerformHandshake
  <2>1. HANDSHAKE_REQ(FreshUavEph) \in UpMsgs
    BY FreshUav DEF UpMsgs
  <2> QED
    BY <1>1, <1>0, <2>1, Appended DEF PerformHandshake, gksVars
<1>2. CASE AwaitResponse
  BY <1>2, <1>0, Tailed DEF AwaitResponse, gksVars
<1>3. CASE HandshakeTimeout
  BY <1>3 DEF HandshakeTimeout, gksVars
<1>4. CASE SendTelemetry
  <2>1. TELEMETRY(session_key) \in UpMsgs /\ REKEY_REQ(FreshUavEph) \in UpMsgs
    BY <1>4, FreshUav DEF UpMsgs, SendTelemetry, UavInv
  <2> DEFINE one == Append(up, TELEMETRY(session_key))
             two == up \o <<TELEMETRY(session_key), REKEY_REQ(FreshUavEph)>>
  <2>2. one \in Seq(UpMsgs) /\ Len(one) = Len(up) + 1
    BY <2>1, Appended
  <2>3. <<TELEMETRY(session_key), REKEY_REQ(FreshUavEph)>> \in Seq(UpMsgs)
    BY <2>1
  <2>4. two \in Seq(UpMsgs) /\ Len(two) = Len(up) + 2
    BY <2>3, ConcatProperties
  <2>5. /\ up' \in {one, two}
        /\ Len(up) + 1 < MaxUp /\ down' = down /\ tasks' = tasks
    BY <1>4 DEF SendTelemetry, gksVars
  <2> HIDE DEF one, two
  <2>6. up' \in Seq(UpMsgs) /\ Len(up') <= MaxUp
    BY <1>0, <2>2, <2>4, <2>5
  <2> QED
    BY <2>5, <2>6
<1>5. CASE ListenForAcks
  BY <1>5, <1>0, Tailed DEF ListenForAcks, gksVars
<1>6. CASE ReceiveRequest
  <2>1. Tail(up) \in Seq(UpMsgs) /\ Len(Tail(up)) = Len(up) - 1 /\ Head(up) \in UpMsgs
    BY <1>6, Tailed DEF ReceiveRequest
  <2>2. Head(up) \in Requests
    BY <1>6, <2>1, UpFields DEF ReceiveRequest
  <2>3. Append(tasks, Head(up)) \in Seq(Requests)
          /\ Len(Append(tasks, Head(up))) = Len(tasks) + 1
    BY <2>2, Appended
  <2>4. tasks' \in Seq(Requests) /\ Len(tasks') <= MaxTasks
    BY <1>6, <1>0, <2>3 DEF ReceiveRequest
  <2> QED
    BY <1>6, <1>0, <2>1, <2>4 DEF ReceiveRequest
<1>7. ASSUME NEW i \in 1..MaxTasks, AnswerRequest(i) PROVE ChannelsInv'
  <2>1. i \in 1..Len(tasks)
    BY <1>7 DEF AnswerRequest
  <2>2. RemoveAt(tasks, i) \in Seq(Requests) /\ Len(RemoveAt(tasks, i)) = Len(tasks) - 1
    BY <2>1, Removed
  <2>3. FreshGksEph \in Ephs
    BY FreshGks
  <2>4. HANDSHAKE_RES(FreshGksEph) \in DownMsgs /\ REKEY_RES(FreshGksEph) \in DownMsgs
    BY <2>3 DEF DownMsgs
  <2>5. down' \in {Append(down, HANDSHAKE_RES(FreshGksEph)), Append(down, REKEY_RES(FreshGksEph))}
    BY <1>7 DEF AnswerRequest
  <2> HIDE DEF ChannelsInv
  <2>6. \A m \in DownMsgs : Append(down, m) \in Seq(DownMsgs)
                            /\ Len(Append(down, m)) = Len(down) + 1
    BY Appended DEF ChannelsInv
  <2>7. down' \in Seq(DownMsgs) /\ Len(down') = Len(down) + 1
    BY <2>4, <2>5, <2>6
  <2>8. Len(down) < MaxDown /\ tasks' = RemoveAt(tasks, i) /\ up' = up
    BY <1>7 DEF AnswerRequest
  <2>9. /\ up \in Seq(UpMsgs) /\ Len(up) <= MaxUp
        /\ Len(down) <= MaxDown /\ Len(tasks) <= MaxTasks
    BY DEF ChannelsInv
  <2>10. Len(down') <= MaxDown /\ Len(tasks') <= MaxTasks
    BY <1>0, <2>2, <2>7, <2>8, <2>9
  <2> QED
    BY <2>2, <2>7, <2>8, <2>9, <2>10 DEF ChannelsInv
<1>8. CASE TelemetryNoSession
  <2>1. Tail(up) \in Seq(UpMsgs) /\ Len(Tail(up)) = Len(up) - 1
    BY <1>8, Tailed DEF TelemetryNoSession
  <2>2. RESET \in DownMsgs
    BY DEF DownMsgs
  <2> DEFINE more == Append(down, RESET)
  <2>3. more \in Seq(DownMsgs) /\ Len(more) = Len(down) + 1
    BY <2>2, Appended
  <2>4. /\ down' = down \/ (down' = more /\ Len(down) < MaxDown)
        /\ up' = Tail(up) /\ tasks' = tasks
    BY <1>8 DEF TelemetryNoSession
  <2> HIDE DEF more
  <2>5. down' \in Seq(DownMsgs) /\ Len(down') <= MaxDown
    BY <1>0, <2>3, <2>4
  <2> QED
    BY <1>0, <2>1, <2>4, <2>5
<1>9. CASE TelemetryWithSession
  BY <1>9, <1>0, Tailed DEF TelemetryWithSession
<1>10. CASE ResetInterval
  BY <1>10 DEF ResetInterval
<1>11. CASE SessionTimeout
  BY <1>11 DEF SessionTimeout
<1>12. CASE SendCommand
  <2>1. COMMAND(active) \in DownMsgs
    BY <1>12 DEF DownMsgs, SendCommand, GksInv
  <2>2. Append(down, COMMAND(active)) \in Seq(DownMsgs)
          /\ Len(Append(down, COMMAND(active))) = Len(down) + 1
    BY <2>1, Appended
  <2> QED
    BY <1>12, <1>0, <2>2 DEF SendCommand, gksVars
<1>13. CASE Lose
  <2>1. up' = up \/ \E i \in 1..Len(up) : up' = RemoveAt(up, i)
    BY <1>13 DEF Lose
  <2>2. down' = down \/ \E i \in 1..Len(down) : down' = RemoveAt(down, i)
    BY <1>13 DEF Lose
  <2>3. up' \in Seq(UpMsgs) /\ Len(up') <= Len(up)
    BY <1>0, <2>1, Removed
  <2>4. down' \in Seq(DownMsgs) /\ Len(down') <= Len(down)
    BY <1>0, <2>2, Removed
  <2> QED
    BY <1>13, <1>0, <2>3, <2>4 DEF Lose, gksVars
<1>14. CASE Delay
  <2>1. up' = up \/ \E i \in 1..(Len(up) - 1) : up' = Append(RemoveAt(up, i), up[i])
    BY <1>14 DEF Delay
  <2>2. down' = down \/ \E i \in 1..(Len(down) - 1) : down' = Append(RemoveAt(down, i), down[i])
    BY <1>14 DEF Delay
  <2>3. up' \in Seq(UpMsgs) /\ Len(up') = Len(up)
    BY <2>1, Moved
  <2>4. down' \in Seq(DownMsgs) /\ Len(down') = Len(down)
    BY <2>2, Moved
  <2> QED
    BY <1>14, <2>3, <2>4 DEF Delay, gksVars
<1>15. CASE GksRestart
  BY <1>15 DEF GksRestart
<1>16. CASE UavRestart
  BY <1>16 DEF UavRestart, gksVars
<1> QED
  BY <1>1, <1>2, <1>3, <1>4, <1>5, <1>6, <1>7, <1>8, <1>9, <1>10, <1>11, <1>12,
     <1>13, <1>14, <1>15, <1>16 DEF Next

LEMMA UavStep ==
  ASSUME Inv, Next
  PROVE  UavInv'
<1> USE TheTypes DEF UavInv, Inv
<1>1. CASE UNCHANGED uavVars
  BY <1>1 DEF uavVars
<1>2. CASE PerformHandshake
  <2>1. FreshUavEph \in Ephs /\ FreshUavEph # None
    BY FreshUav, NoneAssumption
  <2> QED
    BY <1>2, <2>1 DEF PerformHandshake
<1>3. down # <<>> => Head(down) \in DownMsgs
  BY Tailed DEF ChannelsInv
<1>4. CASE AwaitResponse
  <2>1. Head(down).type = "HANDSHAKE_RES" => <<ephemeral, Head(down).g>> \in Keys
    BY <1>3, <1>4, DownFields DEF AwaitResponse, Keys
  <2>2. Head(down).type = "HANDSHAKE_RES" => <<ephemeral, Head(down).g>> # None
    BY <2>1, NoneAssumption
  <2> QED
    BY <1>4, <2>1, <2>2 DEF AwaitResponse
<1>5. CASE HandshakeTimeout
  BY <1>5 DEF HandshakeTimeout
<1>6. CASE SendTelemetry
  <2>1. FreshUavEph \in Ephs
    BY FreshUav
  <2>2. packets_sent_since_rekey' \in 0..(RekeyThreshold - 1)
    BY <1>6 DEF SendTelemetry
  <2> QED
    BY <1>6, <2>1, <2>2 DEF SendTelemetry
<1>7. CASE ListenForAcks
  <2>1. Head(down).type = "REKEY_RES" /\ pending_ephemeral_key # None =>
          <<pending_ephemeral_key, Head(down).g>> \in Keys
    BY <1>3, <1>7, DownFields DEF ListenForAcks, Keys
  <2>2. \A k \in Keys : k # None
    BY NoneAssumption
  <2> QED
    BY <1>7, <2>1, <2>2 DEF ListenForAcks
<1>8. CASE UavRestart
  BY <1>8 DEF UavRestart
<1> QED
  BY <1>1, <1>2, <1>4, <1>5, <1>6, <1>7, <1>8
  DEF Next, ReceiveRequest, AnswerRequest, TelemetryNoSession, TelemetryWithSession,
      ResetInterval, SessionTimeout, SendCommand, Lose, Delay, GksRestart

LEMMA GksStep ==
  ASSUME Inv, Next
  PROVE  GksInv'
<1> USE DEF GksInv, Inv
<1>1. CASE UNCHANGED <<active, pending, last_seen>> /\ reset_ok' \in BOOLEAN
  BY <1>1
<1>2. ASSUME NEW i \in 1..MaxTasks, AnswerRequest(i) PROVE GksInv'
  <2>1. tasks[i].e \in Ephs
    BY <1>2, ElementOfSeq, RequestFields DEF AnswerRequest, ChannelsInv
  <2> DEFINE k == <<tasks[i].e, FreshGksEph>>
  <2>2. k \in Keys /\ k \notin {active, pending}
    BY <2>1, FreshKey
  <2>3. \/ pending' = k /\ active' = active
        \/ active' = k /\ pending' = pending
    BY <1>2 DEF AnswerRequest
  <2> HIDE DEF k
  <2> QED
    BY <1>2, <2>2, <2>3 DEF AnswerRequest
<1>3. CASE TelemetryWithSession
  BY <1>3 DEF TelemetryWithSession, DecryptPayload
<1>4. CASE SessionTimeout
  BY <1>4 DEF SessionTimeout
<1>5. CASE GksRestart
  BY <1>5 DEF GksRestart
<1> QED
  BY <1>1, <1>2, <1>3, <1>4, <1>5
  DEF Next, PerformHandshake, AwaitResponse, HandshakeTimeout, SendTelemetry,
      ListenForAcks, ReceiveRequest, TelemetryNoSession, ResetInterval, SendCommand,
      Lose, Delay, UavRestart, gksVars

LEMMA CommandsStep ==
  ASSUME Inv, Next
  PROVE  commands' \in 0..MaxCommands
<1>1. commands' = commands \/ (commands < MaxCommands /\ commands' = commands + 1)
  BY DEF Next, PerformHandshake, AwaitResponse, HandshakeTimeout, SendTelemetry,
         ListenForAcks, ReceiveRequest, AnswerRequest, TelemetryNoSession,
         TelemetryWithSession, ResetInterval, SessionTimeout, SendCommand, Lose, Delay,
         GksRestart, UavRestart
<1> QED
  BY <1>1, TheTypes DEF Inv

LEMMA NextInv ==
  ASSUME Inv, [Next]_vars
  PROVE  Inv'
<1>1. CASE Next
  <2>1. faults' \in 0..MaxFaults
    BY <1>1, NextFaults, FaultTypes DEF Inv
  <2> QED
    BY <1>1, <2>1, ChannelsStep, UavStep, GksStep, CommandsStep DEF Inv
<1>2. CASE UNCHANGED vars
  BY <1>2 DEF vars, uavVars, gksVars, Inv, UavInv, GksInv, ChannelsInv
<1> QED
  BY <1>1, <1>2

LEMMA AlwaysInv == Spec => []Inv
BY InitInv, NextInv, PTL DEF Spec

\* The handshake and the rotation keep every key, packet and request well formed;
\* in particular a fresh ephemeral key is always there to be taken, and the GKS
\* never holds one key both as the active and as the pending one
\* (crypto_manager.py:44-78, server.py:510-560, UdpTransceiver.cpp:130-150).
THEOREM KeysTypeCorrect == Spec => []TypeOK
BY AlwaysInv, InvTypeOK, PTL

-----------------------------------------------------------------------------
\* A behaviour without faults goes through the following situations.

NoSession ==
  /\ session_key = None
  /\ pending_ephemeral_key = None
  /\ packets_sent_since_rekey = 0
  /\ pending = None
  /\ ~ last_seen

Started ==
  /\ NoSession
  /\ phase = "idle"
  /\ active = None
  /\ up = <<>> /\ down = <<>> /\ tasks = <<>>

RequestUnderWay ==
  /\ NoSession
  /\ phase = "waiting"
  /\ active = None
  /\ down = <<>>
  /\ \/ up = <<HANDSHAKE_REQ(ephemeral)>> /\ tasks = <<>>
     \/ tasks = <<HANDSHAKE_REQ(ephemeral)>> /\ up = <<>>

ResponseUnderWay ==
  /\ NoSession
  /\ phase = "waiting"
  /\ active # None /\ active[1] = ephemeral
  /\ up = <<>> /\ tasks = <<>>
  /\ down # <<>>
  /\ down[1] = HANDSHAKE_RES(active[2])
  /\ \A i \in 2..Len(down) : down[i].type = "COMMAND"

\* The telemetry in flight is encrypted with the key the GKS decrypts with,
\* and then, from some packet on, with the key the UAV has switched to.
TelemetryInOrder ==
  \A i \in 1..Len(up) : up[i].type = "TELEMETRY" =>
    /\ up[i].k \in {active, session_key}
    /\ up[i].k = session_key =>
         \A j \in i..Len(up) : up[j].type = "TELEMETRY" => up[j].k = session_key

UpIsTelemetry  == \A i \in 1..Len(up) : up[i].type = "TELEMETRY"
DownIsCommands == \A i \in 1..Len(down) : down[i].type = "COMMAND"

\* A rotation: none under way, ...
Quiet ==
  /\ session_key \in {active, pending}
  /\ UpIsTelemetry /\ tasks = <<>> /\ DownIsCommands

\* ... requested by the UAV, after telemetry with the key in use, ...
AskedAt(j) ==
  /\ up[j] = REKEY_REQ(pending_ephemeral_key)
  /\ \A i \in 1..Len(up) : i # j => up[i].type = "TELEMETRY"
  /\ session_key # active => \E i \in 1..(j - 1) : up[i].k = session_key
Asked ==
  /\ pending_ephemeral_key # None
  /\ session_key \in {active, pending}
  /\ \E j \in 1..Len(up) : AskedAt(j)
  /\ tasks = <<>> /\ DownIsCommands

\* ... taken up by the GKS, ...
Working ==
  /\ pending_ephemeral_key # None
  /\ session_key = active
  /\ UpIsTelemetry /\ DownIsCommands
  /\ tasks = <<REKEY_REQ(pending_ephemeral_key)>>

\* ... and answered.
AnsweredAt(j) ==
  /\ down[j] = REKEY_RES(pending[2])
  /\ \A i \in 1..Len(down) : i # j => down[i].type = "COMMAND"
Answered ==
  /\ pending_ephemeral_key # None
  /\ session_key = active
  /\ pending # None /\ pending[1] = pending_ephemeral_key
  /\ UpIsTelemetry /\ tasks = <<>>
  /\ \E j \in 1..Len(down) : AnsweredAt(j)

Secure ==
  /\ phase = "secure"
  /\ active # None
  /\ TelemetryInOrder
  /\ Quiet \/ Asked \/ Working \/ Answered

FreeInv ==
  faults = 0 => Started \/ RequestUnderWay \/ ResponseUnderWay \/ Secure
-----------------------------------------------------------------------------
(* The situations follow each other. *)

LEMMA RemovedOnly ==
  ASSUME NEW S, NEW s \in Seq(S), Len(s) = 1
  PROVE  RemoveAt(s, 1) = <<>>
<1>1. 1 \in 1..Len(s)
  OBVIOUS
<1> DEFINE rest == RemoveAt(s, 1)
<1>2. rest \in Seq(S) /\ Len(rest) = Len(s) - 1
  BY <1>1, Removed
<1> HIDE DEF rest
<1>3. rest = <<>>
  BY <1>2
<1> QED
  BY <1>3 DEF rest

LEMMA SpentNoFault ==
  ASSUME Inv, faults' = faults
  PROVE  ~ Fault
BY TheTypes DEF Fault, Inv

LEMMA StartedStep ==
  ASSUME Inv, Started, Next, faults' = faults
  PROVE  Started' \/ RequestUnderWay'
<1>1. CASE PerformHandshake
  <2>1. up' = <<HANDSHAKE_REQ(ephemeral')>>
    BY <1>1 DEF PerformHandshake, Started
  <2> QED
    BY <1>1, <2>1 DEF PerformHandshake, Started, RequestUnderWay, NoSession, gksVars
<1>2. CASE ResetInterval
  BY <1>2 DEF ResetInterval, Started, NoSession, uavVars
<1>3. ~ \E i \in 1..MaxTasks : AnswerRequest(i)
  BY DEF AnswerRequest, Started
<1>4. /\ ~ AwaitResponse /\ ~ HandshakeTimeout /\ ~ SendTelemetry /\ ~ ListenForAcks
      /\ ~ ReceiveRequest /\ ~ TelemetryNoSession /\ ~ TelemetryWithSession
      /\ ~ SendCommand
  BY DEF Started, AwaitResponse, HandshakeTimeout, SendTelemetry, ListenForAcks,
         ReceiveRequest, TelemetryNoSession, TelemetryWithSession, SendCommand
<1>5. ~ SessionTimeout
  BY DEF Started, NoSession, SessionTimeout
<1>6. ~ Lose /\ ~ Delay /\ ~ GksRestart /\ ~ UavRestart
  BY SpentNoFault DEF Lose, Delay, GksRestart, UavRestart
<1> QED
  BY <1>1, <1>2, <1>3, <1>4, <1>5, <1>6 DEF Next

LEMMA RequestStep ==
  ASSUME Inv, RequestUnderWay, Next, faults' = faults
  PROVE  RequestUnderWay' \/ ResponseUnderWay'
<1>0. ephemeral \in Ephs
  BY DEF Inv, UavInv, RequestUnderWay
<1> DEFINE r == HANDSHAKE_REQ(ephemeral)
<1>r. r.type = "HANDSHAKE_REQ" /\ r.e = ephemeral
  BY DEF HANDSHAKE_REQ
<1>1. CASE ReceiveRequest
  <2>1. up = <<r>> /\ tasks = <<>>
    BY <1>1 DEF ReceiveRequest, RequestUnderWay
  <2>2. up' = <<>> /\ tasks' = <<r>>
    BY <1>1, <2>1, <1>r DEF ReceiveRequest
  <2> QED
    BY <1>1, <2>2 DEF ReceiveRequest, RequestUnderWay, NoSession, uavVars
<1>2. ASSUME NEW i \in 1..MaxTasks, AnswerRequest(i) PROVE ResponseUnderWay'
  <2>1. tasks = <<r>> /\ up = <<>>
    BY <1>2 DEF AnswerRequest, RequestUnderWay
  <2>2. i = 1
    BY <1>2, <2>1 DEF AnswerRequest
  <2>3. tasks' = <<>>
    <3>1. tasks \in Seq(Requests) /\ Len(tasks) = 1
      BY <2>1 DEF Inv, ChannelsInv
    <3>2. tasks' = RemoveAt(tasks, 1)
      BY <1>2, <2>2 DEF AnswerRequest
    <3> QED
      BY <3>1, <3>2, RemovedOnly
  <2>4. tasks[i].type = "HANDSHAKE_REQ" /\ tasks[i].e = ephemeral
    BY <2>1, <2>2, <1>r
  <2>5. /\ active' = <<ephemeral, FreshGksEph>> /\ pending' = pending
        /\ down' = Append(down, HANDSHAKE_RES(FreshGksEph))
    BY <1>2, <2>4 DEF AnswerRequest
  <2>6. down' = <<HANDSHAKE_RES(FreshGksEph)>>
    BY <2>5 DEF RequestUnderWay
  <2>7. active' # None
    BY <2>5, <1>0, FreshKey, KeyParts
  <2>8. down' # <<>> /\ down'[1] = HANDSHAKE_RES(active'[2]) /\ Len(down') = 1
          /\ active'[1] = ephemeral'
    BY <2>5, <2>6, <1>2 DEF AnswerRequest, uavVars
  <2> QED
    BY <1>2, <2>1, <2>3, <2>5, <2>7, <2>8
    DEF AnswerRequest, RequestUnderWay, ResponseUnderWay, NoSession, uavVars
<1>3. CASE ResetInterval
  BY <1>3 DEF ResetInterval, RequestUnderWay, NoSession, uavVars
<1>4. ~ HandshakeTimeout
  <2>1. InFlight(up, "HANDSHAKE_REQ") \/ InFlight(tasks, "HANDSHAKE_REQ")
    BY <1>r DEF InFlight, RequestUnderWay
  <2> QED
    BY <2>1, SpentNoFault DEF HandshakeTimeout, FaultUnless, HandshakeQuiet
<1>5. ~ TelemetryNoSession /\ ~ TelemetryWithSession
  BY <1>r DEF TelemetryNoSession, TelemetryWithSession, RequestUnderWay
<1>6. /\ ~ PerformHandshake /\ ~ AwaitResponse /\ ~ SendTelemetry /\ ~ ListenForAcks
      /\ ~ SendCommand
  BY DEF RequestUnderWay, PerformHandshake, AwaitResponse, SendTelemetry,
         ListenForAcks, SendCommand
<1>7. ~ SessionTimeout
  BY DEF RequestUnderWay, NoSession, SessionTimeout
<1>8. ~ Lose /\ ~ Delay /\ ~ GksRestart /\ ~ UavRestart
  BY SpentNoFault DEF Lose, Delay, GksRestart, UavRestart
<1> QED
  BY <1>1, <1>2, <1>3, <1>4, <1>5, <1>6, <1>7, <1>8 DEF Next

LEMMA ResponseStep ==
  ASSUME Inv, ResponseUnderWay, Next, faults' = faults
  PROVE  ResponseUnderWay' \/ Secure'
<1>0. /\ Len(down) \in Nat /\ Len(down) > 0
      /\ down[1].type = "HANDSHAKE_RES" /\ down[1].g = active[2]
  BY DEF ResponseUnderWay, Inv, ChannelsInv, HANDSHAKE_RES
<1>1. CASE AwaitResponse
  <2>1. /\ Head(down) = down[1] /\ Len(Tail(down)) = Len(down) - 1
        /\ \A i \in 1..Len(Tail(down)) : Tail(down)[i] = down[i + 1]
    BY <1>1, Tailed DEF AwaitResponse, Inv, ChannelsInv
  <2>2. session_key' = <<ephemeral, active[2]>> /\ phase' = "secure" /\ down' = Tail(down)
    BY <1>0, <1>1, <2>1 DEF AwaitResponse
  <2>3. session_key' = active' /\ active' # None
    BY <1>1, <2>2, KeyParts DEF AwaitResponse, gksVars, ResponseUnderWay, Inv, GksInv
  <2>4. DownIsCommands'
    BY <1>0, <2>1, <2>2 DEF DownIsCommands, ResponseUnderWay
  <2>5. up' = <<>> /\ tasks' = <<>>
    BY <1>1 DEF AwaitResponse, gksVars, ResponseUnderWay
  <2>6. UpIsTelemetry' /\ TelemetryInOrder'
    BY <2>5 DEF UpIsTelemetry, TelemetryInOrder
  <2> QED
    BY <2>2, <2>3, <2>4, <2>5, <2>6 DEF Secure, Quiet
<1>2. CASE SendCommand
  <2>1. COMMAND(active) \in DownMsgs /\ COMMAND(active).type = "COMMAND"
    BY <1>2 DEF DownMsgs, COMMAND, SendCommand, Inv, GksInv
  <2> DEFINE more == Append(down, COMMAND(active))
  <2>2. /\ Len(more) = Len(down) + 1 /\ more[Len(down) + 1] = COMMAND(active)
        /\ \A i \in 1..Len(down) : more[i] = down[i]
    BY <2>1, Appended DEF Inv, ChannelsInv
  <2>3. down' = more
    BY <1>2 DEF SendCommand
  <2> HIDE DEF more
  <2>4. down'[1] = down[1] /\ Len(down') > 0
    BY <1>0, <2>2, <2>3
  <2>5. \A i \in 2..Len(down') : down'[i].type = "COMMAND"
    <3> TAKE i \in 2..Len(down')
    <3>1. CASE i = Len(down) + 1
      BY <3>1, <2>1, <2>2, <2>3
    <3>2. CASE i # Len(down) + 1
      <4>1. i \in 2..Len(down) /\ i \in 1..Len(down)
        BY <3>2, <2>2, <2>3, <1>0
      <4> QED
        BY <4>1, <2>2, <2>3 DEF ResponseUnderWay
    <3> QED
      BY <3>1, <3>2
  <2>6. down' # <<>>
    BY <2>4
  <2> QED
    BY <1>2, <2>4, <2>5, <2>6
    DEF SendCommand, ResponseUnderWay, NoSession, uavVars, gksVars
<1>3. CASE ResetInterval
  BY <1>3 DEF ResetInterval, ResponseUnderWay, NoSession, uavVars
<1>4. ~ HandshakeTimeout
  <2>1. InFlight(down, "HANDSHAKE_RES")
    BY <1>0 DEF InFlight
  <2> QED
    BY <2>1, SpentNoFault DEF HandshakeTimeout, FaultUnless, HandshakeQuiet
<1>5. ~ \E i \in 1..MaxTasks : AnswerRequest(i)
  BY DEF AnswerRequest, ResponseUnderWay
<1>6. /\ ~ PerformHandshake /\ ~ SendTelemetry /\ ~ ListenForAcks /\ ~ ReceiveRequest
      /\ ~ TelemetryNoSession /\ ~ TelemetryWithSession
  BY DEF ResponseUnderWay, PerformHandshake, SendTelemetry, ListenForAcks,
         ReceiveRequest, TelemetryNoSession, TelemetryWithSession
<1>7. ~ SessionTimeout
  BY DEF ResponseUnderWay, NoSession, SessionTimeout
<1>8. ~ Lose /\ ~ Delay /\ ~ GksRestart /\ ~ UavRestart
  BY SpentNoFault DEF Lose, Delay, GksRestart, UavRestart
<1> QED
  BY <1>1, <1>2, <1>3, <1>4, <1>5, <1>6, <1>7, <1>8 DEF Next
-----------------------------------------------------------------------------
(* The secure session, one action at a time. *)

LEMMA InChannels ==
  ASSUME Inv
  PROVE  /\ Len(up) \in Nat /\ Len(down) \in Nat
         /\ \A i \in 1..Len(up) : up[i] \in UpMsgs
         /\ \A i \in 1..Len(down) : down[i] \in DownMsgs
BY ElementOfSeq DEF Inv, ChannelsInv

LEMMA OrderTailed ==
  ASSUME Inv, TelemetryInOrder, up # <<>>, up' = Tail(up),
         active' = active, session_key' = session_key
  PROVE  TelemetryInOrder'
<1>1. /\ Len(up) \in Nat /\ Len(up) > 0 /\ Len(up') = Len(up) - 1
      /\ \A i \in 1..Len(up') : up'[i] = up[i + 1]
  BY Tailed DEF Inv, ChannelsInv
<1> SUFFICES ASSUME NEW i \in 1..Len(up'), up'[i].type = "TELEMETRY"
             PROVE  /\ up'[i].k \in {active, session_key}
                    /\ up'[i].k = session_key =>
                         \A j \in i..Len(up') :
                           up'[j].type = "TELEMETRY" => up'[j].k = session_key
  BY DEF TelemetryInOrder
<1>2. i + 1 \in 1..Len(up) /\ up'[i] = up[i + 1]
  BY <1>1
<1>3. \A j \in i..Len(up') : j + 1 \in (i + 1)..Len(up) /\ up'[j] = up[j + 1]
  BY <1>1
<1> QED
  BY <1>2, <1>3 DEF TelemetryInOrder

LEMMA SecureTelemetry ==
  ASSUME Inv, Secure, SendTelemetry, faults' = faults
  PROVE  Secure'
<1>0. Len(up) \in Nat /\ packets_sent_since_rekey \in Nat
  BY InChannels, TheTypes DEF Inv, UavInv
<1> DEFINE t == TELEMETRY(session_key)
           r == REKEY_REQ(FreshUavEph)
<1>1. t.type = "TELEMETRY" /\ t.k = session_key /\ r.type = "REKEY_REQ"
  BY DEF TELEMETRY, REKEY_REQ
<1>2. t \in UpMsgs /\ r \in UpMsgs /\ FreshUavEph \in Ephs
  BY FreshUav DEF UpMsgs, SendTelemetry, Inv, UavInv
<1>3. /\ UNCHANGED <<phase, session_key, active, pending, tasks, down>>
      /\ RekeyQuiet \/ packets_sent_since_rekey = 0
  BY SpentNoFault DEF SendTelemetry, gksVars, FaultUnless
<1>4. /\ Len(up') > Len(up) /\ Len(up') \in Nat
      /\ \A i \in 1..Len(up) : up'[i] = up[i]
      /\ up'[Len(up) + 1] = t
      /\ \/ /\ Len(up') = Len(up) + 1
            /\ pending_ephemeral_key' = pending_ephemeral_key
         \/ /\ Len(up') = Len(up) + 2 /\ up'[Len(up) + 2] = r
            /\ pending_ephemeral_key' = FreshUavEph
            /\ RekeyQuiet
  <2>1. CASE packets_sent_since_rekey + 1 < RekeyThreshold
    <3>1. up' = Append(up, t) /\ pending_ephemeral_key' = pending_ephemeral_key
      BY <2>1 DEF SendTelemetry
    <3>2. /\ Len(up') = Len(up) + 1 /\ up'[Len(up) + 1] = t
          /\ \A i \in 1..Len(up) : up'[i] = up[i]
      BY <3>1, <1>2, Appended DEF Inv, ChannelsInv
    <3> QED
      BY <1>0, <3>1, <3>2
  <2>2. CASE ~ (packets_sent_since_rekey + 1 < RekeyThreshold)
    <3>1. packets_sent_since_rekey # 0
      BY <2>2, <1>0, TheTypes
    <3>2. up' = up \o <<t, r>> /\ pending_ephemeral_key' = FreshUavEph
      BY <2>2 DEF SendTelemetry
    <3> HIDE DEF t, r
    <3>3. <<t, r>> \in Seq(UpMsgs) /\ Len(<<t, r>>) = 2
            /\ <<t, r>>[1] = t /\ <<t, r>>[2] = r
      BY <1>2
    <3>4. /\ Len(up') = Len(up) + 2
          /\ \A i \in 1..(Len(up) + 2) :
               up'[i] = IF i <= Len(up) THEN up[i] ELSE <<t, r>>[i - Len(up)]
      BY <3>2, <3>3, ConcatProperties DEF Inv, ChannelsInv
    <3>5. /\ \A i \in 1..Len(up) : up'[i] = up[i]
          /\ up'[Len(up) + 1] = t /\ up'[Len(up) + 2] = r
      BY <1>0, <3>3, <3>4
    <3> QED
      BY <1>0, <1>3, <3>1, <3>2, <3>4, <3>5
  <2> QED
    BY <2>1, <2>2
<1> HIDE DEF t, r
\* Whatever is in the channel now was there, or is new.
<1>5. \A i \in 1..Len(up') : \/ i \in 1..Len(up) /\ up'[i] = up[i]
                             \/ i = Len(up) + 1 /\ up'[i] = t
                             \/ i = Len(up) + 2 /\ up'[i] = r
  BY <1>0, <1>4
<1>6. TelemetryInOrder'
  <2> SUFFICES ASSUME NEW i \in 1..Len(up'), up'[i].type = "TELEMETRY"
               PROVE  /\ up'[i].k \in {active, session_key}
                      /\ up'[i].k = session_key =>
                           \A j \in i..Len(up') :
                             up'[j].type = "TELEMETRY" => up'[j].k = session_key
    BY <1>3 DEF TelemetryInOrder
  <2>1. up'[i].k \in {active, session_key}
    BY <1>1, <1>5 DEF Secure, TelemetryInOrder
  <2>2. ASSUME up'[i].k = session_key, NEW j \in i..Len(up'), up'[j].type = "TELEMETRY"
        PROVE  up'[j].k = session_key
    <3>1. CASE j \in 1..Len(up)
      <4>1. i \in 1..Len(up) /\ j \in i..Len(up) /\ up'[i] = up[i] /\ up'[j] = up[j]
        BY <3>1, <1>4
      <4> QED
        BY <4>1, <2>2 DEF Secure, TelemetryInOrder
    <3>2. CASE j \notin 1..Len(up)
      <4>1. j \in 1..Len(up')
        BY <1>4
      <4> QED
        BY <4>1, <3>2, <2>2, <1>5, <1>1
    <3> QED
      BY <3>1, <3>2
  <2> QED
    BY <2>1, <2>2
\* Telemetry only: no rotation has been asked for.
<1>7. ASSUME UpIsTelemetry, Len(up') = Len(up) + 1
      PROVE  UpIsTelemetry'
  <2>1. \A i \in 1..Len(up') : up'[i].type = "TELEMETRY"
    <3> TAKE i \in 1..Len(up')
    <3>1. i # Len(up) + 2
      BY <1>7, <1>0
    <3> QED
      BY <3>1, <1>1, <1>5, <1>7 DEF UpIsTelemetry
  <2> QED
    BY <2>1 DEF UpIsTelemetry
<1>8. CASE Quiet
  <2>1. CASE Len(up') = Len(up) + 1
    <3>1. UpIsTelemetry'
      BY <1>7, <1>8, <2>1 DEF Quiet
    <3>2. DownIsCommands'
      BY <1>3, <1>8 DEF Quiet, DownIsCommands
    <3> QED
      BY <1>3, <1>6, <1>8, <3>1, <3>2 DEF Secure, Quiet
  <2>2. CASE Len(up') # Len(up) + 1
    <3> DEFINE j == Len(up) + 2
    <3>1. /\ Len(up') = j /\ up'[j] = r
          /\ pending_ephemeral_key' = FreshUavEph
      BY <2>2, <1>4
    <3>2. \A i \in 1..Len(up') : i # j => up'[i].type = "TELEMETRY"
      BY <1>1, <1>5, <1>8 DEF Quiet, UpIsTelemetry
    <3>3. Len(up) + 1 \in 1..(j - 1) /\ up'[Len(up) + 1].k = session_key'
      BY <1>0, <1>1, <1>3, <1>4
    <3>4. j \in 1..Len(up') /\ up'[j] = REKEY_REQ(pending_ephemeral_key')
      BY <1>0, <3>1 DEF r
    <3> HIDE DEF j
    <3>5. (\E x \in 1..Len(up) : AskedAt(x))'
      BY <3>2, <3>3, <3>4 DEF AskedAt
    <3>6. pending_ephemeral_key' # None
      BY <3>1, <1>2, NoneAssumption
    <3>7. DownIsCommands'
      BY <1>3, <1>8 DEF Quiet, DownIsCommands
    <3> QED
      BY <1>3, <1>6, <1>8, <3>5, <3>6, <3>7 DEF Secure, Quiet, Asked, SendTelemetry
  <2> QED
    BY <2>1, <2>2
\* Otherwise one is under way, and no other can begin.
<1>9. ASSUME ~ RekeyQuiet
      PROVE  /\ Len(up') = Len(up) + 1
             /\ pending_ephemeral_key' = pending_ephemeral_key
  BY <1>9, <1>4
<1>10. CASE Asked
  <2>1. PICK j \in 1..Len(up) : AskedAt(j)
    BY <1>10 DEF Asked
  <2>2. ~ RekeyQuiet
    BY <2>1 DEF AskedAt, RekeyQuiet, InFlight, REKEY_REQ
  <2>3. j \in 1..Len(up') /\ up'[j] = up[j] /\ \A i \in 1..(j - 1) : up'[i] = up[i]
    BY <1>0, <1>4
  <2>4. \A i \in 1..Len(up') : i # j => up'[i].type = "TELEMETRY"
    <3> TAKE i \in 1..Len(up')
    <3>1. i # Len(up) + 2
      BY <1>9, <2>2, <1>0
    <3> QED
      BY <3>1, <1>1, <1>5, <2>1 DEF AskedAt
  <2>5. session_key' # active' => \E i \in 1..(j - 1) : up'[i].k = session_key'
    BY <1>3, <2>1, <2>3 DEF AskedAt
  <2>6. (\E x \in 1..Len(up) : AskedAt(x))'
    BY <1>9, <2>1, <2>2, <2>3, <2>4, <2>5 DEF AskedAt
  <2>7. DownIsCommands'
    BY <1>3, <1>10 DEF Asked, DownIsCommands
  <2> QED
    BY <1>3, <1>6, <1>9, <1>10, <2>2, <2>6, <2>7 DEF Secure, Asked
<1>11. CASE Working
  <2>1. ~ RekeyQuiet
    BY <1>11 DEF Working, RekeyQuiet, InFlight, REKEY_REQ
  <2>2. UpIsTelemetry'
    BY <1>7, <1>9, <1>11, <2>1 DEF Working
  <2>3. DownIsCommands'
    BY <1>3, <1>11 DEF Working, DownIsCommands
  <2> QED
    BY <1>3, <1>6, <1>9, <1>11, <2>1, <2>2, <2>3 DEF Secure, Working
<1>12. CASE Answered
  <2>1. PICK j \in 1..Len(down) : AnsweredAt(j)
    BY <1>12 DEF Answered
  <2>2. ~ RekeyQuiet
    BY <2>1 DEF AnsweredAt, RekeyQuiet, InFlight, REKEY_RES
  <2>3. UpIsTelemetry'
    BY <1>7, <1>9, <1>12, <2>2 DEF Answered
  <2>4. (\E x \in 1..Len(down) : AnsweredAt(x))'
    BY <1>3, <2>1 DEF AnsweredAt
  <2> QED
    BY <1>3, <1>6, <1>9, <1>12, <2>2, <2>3, <2>4 DEF Secure, Answered
<1> QED
  BY <1>8, <1>10, <1>11, <1>12 DEF Secure
LEMMA SecureListen ==
  ASSUME Inv, Secure, ListenForAcks
  PROVE  Secure'
<1>1. /\ Len(down) \in Nat /\ Len(down) > 0 /\ Len(down') = Len(down) - 1
      /\ \A i \in 1..Len(down') : down'[i] = down[i + 1]
      /\ Head(down) = down[1]
  BY Tailed DEF ListenForAcks, Inv, ChannelsInv
<1>2. UNCHANGED <<active, pending, tasks, up>>
  BY DEF ListenForAcks, gksVars
<1>3. CASE down[1].type = "COMMAND"
  <2>1. UNCHANGED <<phase, session_key, pending_ephemeral_key>>
    BY <1>1, <1>3 DEF ListenForAcks
  <2>2. DownIsCommands => DownIsCommands'
    BY <1>1 DEF DownIsCommands
  <2>3. TelemetryInOrder' /\ (UpIsTelemetry => UpIsTelemetry')
    BY <1>2, <2>1 DEF Secure, TelemetryInOrder, UpIsTelemetry
  <2>4. Quiet => Quiet'
    BY <1>2, <2>1, <2>2, <2>3 DEF Quiet
  <2>5. Asked => Asked'
    BY <1>2, <2>1, <2>2 DEF Asked, AskedAt
  <2>6. Working => Working'
    BY <1>2, <2>1, <2>2, <2>3 DEF Working
  <2>7. ASSUME Answered PROVE Answered'
    <3>1. PICK j \in 1..Len(down) : AnsweredAt(j)
      BY <2>7 DEF Answered
    <3>2. j # 1
      BY <3>1, <1>3 DEF AnsweredAt, REKEY_RES
    <3>3. j - 1 \in 1..Len(down') /\ down'[j - 1] = down[j]
      BY <3>2, <1>1
    <3>4. \A i \in 1..Len(down') : i # j - 1 => down'[i].type = "COMMAND"
      BY <3>1, <1>1 DEF AnsweredAt
    <3>5. (\E x \in 1..Len(down) : AnsweredAt(x))'
      BY <3>1, <3>3, <3>4, <1>2 DEF AnsweredAt
    <3> QED
      BY <2>7, <1>2, <2>1, <2>3, <3>5 DEF Answered
  <2> QED
    BY <1>2, <2>1, <2>3, <2>4, <2>5, <2>6, <2>7 DEF Secure
<1>4. CASE down[1].type # "COMMAND"
  <2>1. Answered
    BY <1>1, <1>4 DEF Secure, Quiet, Asked, Working, DownIsCommands
  <2>2. PICK j \in 1..Len(down) : AnsweredAt(j)
    BY <2>1 DEF Answered
  <2>3. j = 1
    BY <1>1, <1>4, <2>2 DEF AnsweredAt
  <2>4. Head(down).type = "REKEY_RES" /\ Head(down).g = pending[2]
    BY <1>1, <2>2, <2>3 DEF AnsweredAt, REKEY_RES
  <2>5. /\ session_key' = <<pending_ephemeral_key, pending[2]>>
        /\ UNCHANGED phase
    BY <2>1, <2>4 DEF ListenForAcks, Answered
  <2>6. session_key' = pending
    BY <2>1, <2>5, KeyParts DEF Answered, Inv, GksInv
  <2>7. DownIsCommands'
    <3>1. \A i \in 1..Len(down') : down'[i].type = "COMMAND"
      <4> TAKE i \in 1..Len(down')
      <4>1. i + 1 \in 1..Len(down) /\ i + 1 # 1
        BY <1>1
      <4> QED
        BY <4>1, <1>1, <2>2, <2>3 DEF AnsweredAt
    <3> QED
      BY <3>1 DEF DownIsCommands
  <2>8. UpIsTelemetry'
    BY <1>2, <2>1 DEF Answered, UpIsTelemetry
  <2>9. active # pending /\ session_key = active
    BY <2>1 DEF Answered, Secure, Inv, GksInv
  <2>10. \A i \in 1..Len(up) : up[i].type = "TELEMETRY" => up[i].k = active
    BY <2>9 DEF Secure, TelemetryInOrder
  <2>11. TelemetryInOrder'
    BY <1>2, <2>6, <2>9, <2>10 DEF TelemetryInOrder
  <2> QED
    BY <1>2, <2>1, <2>5, <2>6, <2>7, <2>8, <2>11 DEF Secure, Quiet, Answered
<1> QED
  BY <1>3, <1>4

LEMMA SecureReceive ==
  ASSUME Inv, Secure, ReceiveRequest
  PROVE  Secure'
<1>1. /\ up # <<>> /\ up' = Tail(up)
      /\ Len(up) \in Nat /\ Len(up) > 0 /\ Len(up') = Len(up) - 1
      /\ \A i \in 1..Len(up') : up'[i] = up[i + 1]
      /\ Head(up) = up[1]
      /\ up[1].type # "TELEMETRY"
  BY Tailed DEF ReceiveRequest, Inv, ChannelsInv
<1>2. UNCHANGED <<phase, session_key, pending_ephemeral_key, active, pending, down>>
  BY DEF ReceiveRequest, uavVars
<1>3. Asked
  BY <1>1 DEF Secure, Quiet, Working, Answered, UpIsTelemetry
<1>4. PICK j \in 1..Len(up) : AskedAt(j)
  BY <1>3 DEF Asked
<1>5. j = 1
  BY <1>1, <1>4 DEF AskedAt
<1>6. session_key = active
  BY <1>4, <1>5 DEF AskedAt
<1>7. UpIsTelemetry'
  <2>1. \A i \in 1..Len(up') : up'[i].type = "TELEMETRY"
    <3> TAKE i \in 1..Len(up')
    <3>1. i + 1 \in 1..Len(up) /\ i + 1 # 1
      BY <1>1
    <3> QED
      BY <3>1, <1>1, <1>4, <1>5 DEF AskedAt
  <2> QED
    BY <2>1 DEF UpIsTelemetry
<1>8. tasks' = <<REKEY_REQ(pending_ephemeral_key)>>
  <2>1. tasks = <<>> /\ active # None
    BY <1>3 DEF Asked, Secure
  <2>2. Head(up) = REKEY_REQ(pending_ephemeral_key)
    BY <1>1, <1>4, <1>5 DEF AskedAt
  <2> QED
    BY <2>1, <2>2 DEF ReceiveRequest
<1>9. TelemetryInOrder'
  BY <1>1, <1>2, OrderTailed DEF Secure
<1>10. DownIsCommands'
  BY <1>2, <1>3 DEF Asked, DownIsCommands
<1> QED
  BY <1>2, <1>3, <1>6, <1>7, <1>8, <1>9, <1>10 DEF Secure, Asked, Working

LEMMA SecureAnswer ==
  ASSUME Inv, Secure, NEW i \in 1..MaxTasks, AnswerRequest(i)
  PROVE  Secure'
<1>1. Working
  BY DEF AnswerRequest, Secure, Quiet, Asked, Answered
<1> DEFINE e == pending_ephemeral_key
           m == REKEY_RES(FreshGksEph)
<1>2. tasks = <<REKEY_REQ(e)>> /\ i = 1
  BY <1>1 DEF Working, AnswerRequest
<1>3. tasks[i].type = "REKEY_REQ" /\ tasks[i].e = e
  BY <1>2 DEF REKEY_REQ
<1>4. /\ pending' = <<e, FreshGksEph>> /\ down' = Append(down, m)
      /\ UNCHANGED <<phase, session_key, pending_ephemeral_key, active, up>>
  BY <1>3 DEF AnswerRequest, uavVars
<1>5. tasks' = <<>>
  <2>1. tasks \in Seq(Requests) /\ Len(tasks) = 1 /\ tasks' = RemoveAt(tasks, 1)
    BY <1>2 DEF Inv, ChannelsInv, AnswerRequest
  <2> QED
    BY <2>1, RemovedOnly
<1>6. e \in Ephs
  BY <1>1 DEF Working, Inv, UavInv
<1>7. pending' # None /\ pending'[1] = pending_ephemeral_key' /\ m = REKEY_RES(pending'[2])
  BY <1>4, <1>6, FreshKey, KeyParts
<1>8. m \in DownMsgs
  BY FreshGks DEF DownMsgs
<1> HIDE DEF m
<1>9. /\ Len(down') = Len(down) + 1 /\ down'[Len(down) + 1] = m
      /\ \A x \in 1..Len(down) : down'[x] = down[x]
      /\ Len(down) \in Nat
  BY <1>4, <1>8, Appended DEF Inv, ChannelsInv
<1>10. \A x \in 1..Len(down') : x # Len(down) + 1 => down'[x].type = "COMMAND"
  BY <1>9, <1>1 DEF Working, DownIsCommands
<1>11. Len(down) + 1 \in 1..Len(down')
  BY <1>9
<1>12. (\E x \in 1..Len(down) : AnsweredAt(x))'
  BY <1>7, <1>9, <1>10, <1>11 DEF AnsweredAt
<1>13. TelemetryInOrder' /\ UpIsTelemetry'
  BY <1>1, <1>4 DEF Secure, TelemetryInOrder, Working, UpIsTelemetry
<1> QED
  BY <1>1, <1>4, <1>5, <1>7, <1>12, <1>13 DEF Secure, Working, Answered

LEMMA SecureDecrypt ==
  ASSUME Inv, Secure, TelemetryWithSession
  PROVE  Secure'
<1>1. /\ up # <<>> /\ up' = Tail(up)
      /\ Len(up) \in Nat /\ Len(up) > 0 /\ Len(up') = Len(up) - 1
      /\ \A i \in 1..Len(up') : up'[i] = up[i + 1]
      /\ Head(up) = up[1]
      /\ up[1].type = "TELEMETRY"
  BY Tailed DEF TelemetryWithSession, Inv, ChannelsInv
<1> DEFINE k == up[1].k
<1>2. k \in {active, session_key} /\ DecryptPayload(k)
  BY <1>1 DEF Secure, TelemetryInOrder, TelemetryWithSession
<1>3. UNCHANGED <<phase, session_key, pending_ephemeral_key, tasks, down>>
  BY DEF TelemetryWithSession, uavVars
<1>4. UpIsTelemetry => UpIsTelemetry'
  BY <1>1 DEF UpIsTelemetry
<1>5. DownIsCommands => DownIsCommands'
  BY <1>3 DEF DownIsCommands
<1>6. \A i \in 1..Len(up') : i + 1 \in 1..Len(up) /\ up'[i] = up[i + 1]
  BY <1>1
\* A rotation that was asked for is nearer the GKS by one packet.
<1>7. ASSUME Asked, session_key \in {active', pending'},
             session_key # active' => active' = active /\ k = active
      PROVE  Asked'
  <2>1. PICK j \in 1..Len(up) : AskedAt(j)
    BY <1>7 DEF Asked
  <2>2. j # 1
    BY <2>1, <1>1 DEF AskedAt, REKEY_REQ
  <2>3. j - 1 \in 1..Len(up') /\ up'[j - 1] = up[j]
    BY <2>2, <1>1
  <2>4. \A i \in 1..Len(up') : i # j - 1 => up'[i].type = "TELEMETRY"
    BY <2>1, <1>6 DEF AskedAt
  <2>5. ASSUME session_key # active' PROVE \E i \in 1..((j - 1) - 1) : up'[i].k = session_key
    <3>1. session_key # active /\ k = active
      BY <2>5, <1>7
    <3>2. PICK i \in 1..(j - 1) : up[i].k = session_key
      BY <3>1, <2>1 DEF AskedAt
    <3>3. i # 1
      BY <3>1, <3>2
    <3>4. i - 1 \in 1..((j - 1) - 1) /\ up'[i - 1] = up[i]
      BY <3>3, <1>1
    <3> QED
      BY <3>2, <3>4
  <2>6. (\E x \in 1..Len(up) : AskedAt(x))'
    BY <2>1, <2>3, <2>4, <2>5, <1>3 DEF AskedAt
  <2> QED
    BY <1>7, <1>3, <1>5, <2>6 DEF Asked
<1>8. CASE k = active
  <2>1. UNCHANGED <<active, pending>>
    BY <1>2, <1>8 DEF DecryptPayload
  <2>2. TelemetryInOrder'
    BY <1>1, <1>3, <2>1, OrderTailed DEF Secure
  <2>3. Quiet => Quiet'
    BY <1>3, <1>4, <1>5, <2>1 DEF Quiet
  <2>4. Asked => Asked'
    BY <1>7, <1>8, <2>1 DEF Asked
  <2>5. Working => Working'
    BY <1>3, <1>4, <1>5, <2>1 DEF Working
  <2>6. Answered => Answered'
    BY <1>3, <1>4, <2>1 DEF Answered, AnsweredAt
  <2> QED
    BY <1>3, <2>1, <2>2, <2>3, <2>4, <2>5, <2>6 DEF Secure
<1>9. CASE k # active
  <2>1. k = session_key /\ session_key # active
    BY <1>2, <1>9
  <2>2. (Quiet \/ Asked) /\ session_key = pending
    BY <2>1 DEF Secure, Quiet, Asked, Working, Answered
  <2>3. active' = session_key
    BY <1>2, <1>9, <2>1, <2>2 DEF DecryptPayload
  <2>4. active' # None
    BY <2>3 DEF Secure, Inv, UavInv
  <2>5. \A i \in 1..Len(up) : up[i].type = "TELEMETRY" => up[i].k = session_key
    BY <1>1, <2>1 DEF Secure, TelemetryInOrder
  <2>6. TelemetryInOrder'
    <3>1. \A i \in 1..Len(up') : up'[i].type = "TELEMETRY" => up'[i].k = session_key'
      BY <1>3, <1>6, <2>5
    <3>2. \A i \in 1..Len(up') : i..Len(up') \subseteq 1..Len(up')
      BY <1>1
    <3> QED
      BY <3>1, <3>2 DEF TelemetryInOrder
  <2>7. Quiet => Quiet'
    BY <1>3, <1>4, <1>5, <2>3 DEF Quiet
  <2>8. Asked => Asked'
    BY <1>7, <2>3
  <2> QED
    BY <1>3, <2>2, <2>4, <2>6, <2>7, <2>8 DEF Secure
<1> QED
  BY <1>8, <1>9

LEMMA SecureCommand ==
  ASSUME Inv, Secure, SendCommand
  PROVE  Secure'
<1> DEFINE m == COMMAND(active)
<1>1. m.type = "COMMAND" /\ m \in DownMsgs
  BY DEF COMMAND, DownMsgs, SendCommand, Inv, GksInv
<1>2. UNCHANGED <<uavVars, gksVars, up>> /\ down' = Append(down, m)
  BY DEF SendCommand
<1> HIDE DEF m
<1>3. /\ Len(down') = Len(down) + 1 /\ down'[Len(down) + 1] = m
      /\ \A i \in 1..Len(down) : down'[i] = down[i]
      /\ Len(down) \in Nat
  BY <1>1, <1>2, Appended DEF Inv, ChannelsInv
<1>4. \A i \in 1..Len(down') : i \notin 1..Len(down) => down'[i].type = "COMMAND"
  BY <1>1, <1>3
<1>5. DownIsCommands => DownIsCommands'
  BY <1>3, <1>4 DEF DownIsCommands
<1>6. TelemetryInOrder' /\ (UpIsTelemetry => UpIsTelemetry')
  BY <1>2 DEF Secure, TelemetryInOrder, UpIsTelemetry, uavVars, gksVars
<1>7. Quiet => Quiet'
  BY <1>2, <1>5, <1>6 DEF Quiet, uavVars, gksVars
<1>8. Asked => Asked'
  BY <1>2, <1>5 DEF Asked, AskedAt, uavVars, gksVars
<1>9. Working => Working'
  BY <1>2, <1>5, <1>6 DEF Working, uavVars, gksVars
<1>10. ASSUME Answered PROVE Answered'
  <2>1. PICK j \in 1..Len(down) : AnsweredAt(j)
    BY <1>10 DEF Answered
  <2>2. j \in 1..Len(down') /\ down'[j] = down[j]
    BY <1>3
  <2>3. \A i \in 1..Len(down') : i # j => down'[i].type = "COMMAND"
    BY <2>1, <1>3, <1>4 DEF AnsweredAt
  <2>4. (\E x \in 1..Len(down) : AnsweredAt(x))'
    BY <2>1, <2>2, <2>3, <1>2 DEF AnsweredAt, gksVars
  <2> QED
    BY <1>10, <1>2, <1>6, <2>4 DEF Answered, uavVars, gksVars
<1> QED
  BY <1>2, <1>6, <1>7, <1>8, <1>9, <1>10 DEF Secure, uavVars, gksVars

LEMMA SecureCalm ==
  ASSUME Secure, UNCHANGED <<uavVars, active, pending, tasks, up, down>>
  PROVE  Secure'
BY DEF Secure, TelemetryInOrder, Quiet, Asked, AskedAt, Working, Answered, AnsweredAt,
       UpIsTelemetry, DownIsCommands, uavVars

LEMMA SecureStep ==
  ASSUME Inv, Secure, Next, faults' = faults
  PROVE  Secure'
<1>1. ASSUME NEW i \in 1..MaxTasks, AnswerRequest(i) PROVE Secure'
  BY <1>1, SecureAnswer
<1>2. CASE ResetInterval
  BY <1>2, SecureCalm DEF ResetInterval
<1>3. ~ SessionTimeout
  <2>1. Agreed
    BY DEF Agreed, Secure, Quiet, Asked, Working, Answered
  <2> QED
    BY <2>1, SpentNoFault DEF SessionTimeout, FaultUnless
<1>4. ~ PerformHandshake /\ ~ AwaitResponse /\ ~ HandshakeTimeout /\ ~ TelemetryNoSession
  BY DEF Secure, PerformHandshake, AwaitResponse, HandshakeTimeout, TelemetryNoSession
<1>5. ~ Lose /\ ~ Delay /\ ~ GksRestart /\ ~ UavRestart
  BY SpentNoFault DEF Lose, Delay, GksRestart, UavRestart
<1> QED
  BY <1>1, <1>2, <1>3, <1>4, <1>5, SecureTelemetry, SecureListen, SecureReceive,
     SecureDecrypt, SecureCommand DEF Next

LEMMA InitFree == Init => FreeInv
BY DEF Init, FreeInv, Started, NoSession

LEMMA NextFree ==
  ASSUME Inv, FreeInv, [Next]_vars
  PROVE  FreeInv'
<1>1. CASE Next
  <2> SUFFICES ASSUME faults' = 0
               PROVE  (Started \/ RequestUnderWay \/ ResponseUnderWay \/ Secure)'
    BY DEF FreeInv
  <2>1. faults' = faults
    BY <1>1, NextFaults, TheTypes DEF Fault, Inv
  <2>2. Started \/ RequestUnderWay \/ ResponseUnderWay \/ Secure
    BY <2>1 DEF FreeInv
  <2> QED
    BY <1>1, <2>1, <2>2, StartedStep, RequestStep, ResponseStep, SecureStep
<1>2. CASE UNCHANGED vars
  BY <1>2 DEF vars, uavVars, gksVars, FreeInv, Started, RequestUnderWay, ResponseUnderWay,
     NoSession, Secure, TelemetryInOrder, Quiet, Asked, AskedAt, Working, Answered,
     AnsweredAt, UpIsTelemetry, DownIsCommands
<1> QED
  BY <1>1, <1>2

LEMMA FreeAgreed == FreeInv => FaultFreeAgreement
BY DEF FreeInv, FaultFreeAgreement, Agreed, Started, RequestUnderWay, ResponseUnderWay,
       Secure, Quiet, Asked, Working, Answered

\* As long as no packet is lost or late, no process restarts and no timer fires
\* early, the GKS tries the key the UAV uses: across the handshake, every rotation
\* and every promotion (crypto_manager.py:44-78, UdpTransceiver.cpp:134-137,
\* 254-301).  Packets that arrive in order are all that the promotion needs: the
\* UAV switches only after the GKS has the new key, and its last packets with the
\* old key arrive before its first one with the new key.
THEOREM FaultFreeKeysAgree == Spec => []FaultFreeAgreement
BY InitInv, NextInv, InitFree, NextFree, FreeAgreed, PTL DEF Spec

-----------------------------------------------------------------------------
(* After one fault. *)

\* Between two rotations a key is used often enough for the next one: while no
\* fault has happened, at most one packet is sent before a rotation is over, and the
\* first with the new key is in flight until it is promoted.
TwoAhead(j) ==
  \E a, b \in 1..(j - 1) : /\ a # b
                           /\ \A i \in {a, b} : up[i] = TELEMETRY(session_key)
Counted ==
  /\ ~ RekeyQuiet => packets_sent_since_rekey <= 1
  /\ session_key # active =>
       /\ packets_sent_since_rekey >= 2 =>
            \E i \in 1..Len(up) : up[i] = TELEMETRY(session_key)
       /\ \A j \in 1..Len(up) : up[j].type = "REKEY_REQ" => TwoAhead(j)

Counts == faults = 0 /\ phase = "secure" => Counted

OneRequest(e) ==
  \/ tasks = <<HANDSHAKE_REQ(e)>> /\ up = <<>>
  \/ tasks = <<>> /\ up = <<HANDSHAKE_REQ(e)>>
TwoRequests(d, e) ==
  \/ tasks = <<HANDSHAKE_REQ(d), HANDSHAKE_REQ(e)>> /\ up = <<>>
  \/ tasks = <<HANDSHAKE_REQ(d)>> /\ up = <<HANDSHAKE_REQ(e)>>
  \/ tasks = <<>> /\ up = <<HANDSHAKE_REQ(d), HANDSHAKE_REQ(e)>>
NoRequest == tasks = <<>> /\ up = <<>>

\* The UAV asks: its request is the last one.
LastRequest(c) ==
  /\ c # <<>> /\ c[Len(c)] = HANDSHAKE_REQ(ephemeral)
  /\ \A i \in 1..(Len(c) - 1) : c[i].type # "HANDSHAKE_REQ"
Requested ==
  /\ phase = "waiting"
  /\ ~ InFlight(down, "HANDSHAKE_RES")
  /\ \/ LastRequest(up) /\ ~ InFlight(tasks, "HANDSHAKE_REQ")
     \/ LastRequest(tasks) /\ up = <<>>

RespondedAt(j) ==
  /\ down[j].type = "HANDSHAKE_RES"
  /\ \A i \in 1..(j - 1) : down[i].type # "HANDSHAKE_RES"
  /\ \A i \in (j + 1)..Len(down) : down[i].type = "COMMAND"
Responded ==
  /\ phase = "waiting"
  /\ NoRequest
  /\ \E j \in 1..Len(down) : RespondedAt(j)

\* The UAV gave up early: an earlier request or its answer is still under way.
OnlyResponses ==
  \A i \in 1..Len(down) : down[i].type \in {"HANDSHAKE_RES", "COMMAND"}
LateResponse ==
  /\ active # None
  /\ down # <<>> /\ down[1].type = "HANDSHAKE_RES"
  /\ OnlyResponses
Doubled ==
  /\ NoSession
  /\ \/ /\ phase = "idle"
        /\ \/ active = None /\ down = <<>> /\ \E e \in Ephs : OneRequest(e)
           \/ LateResponse /\ NoRequest
     \/ /\ phase = "waiting"
        /\ \/ active = None /\ down = <<>> /\ \E e \in Ephs \ {ephemeral} : TwoRequests(e, ephemeral)
           \/ LateResponse /\ active[1] # ephemeral /\ OneRequest(ephemeral)
           \/ LateResponse /\ NoRequest

Connecting ==
  /\ phase # "secure"
  /\ HandshakeQuiet \/ Requested \/ Responded \/ Doubled

\* A request that the UAV no longer waits for comes first.
FirstRequest(c) ==
  /\ c # <<>> /\ c[1].type = "HANDSHAKE_REQ"
  /\ \A i \in 2..Len(c) : c[i].type # "HANDSHAKE_REQ"
Overtaken ==
  /\ active # None /\ session_key # active /\ pending = None
  /\ OnlyResponses
  /\ \/ FirstRequest(tasks) /\ ~ InFlight(up, "HANDSHAKE_REQ")
     \/ tasks = <<>> /\ FirstRequest(up)
NoLateHandshake ==
  /\ InFlight(tasks, "HANDSHAKE_REQ") \/ InFlight(up, "HANDSHAKE_REQ") => Overtaken
  /\ InFlight(down, "HANDSHAKE_RES") => active # None /\ ~ InFlight(down, "RESET")

AtMostOne(c, type) ==
  \A i, j \in 1..Len(c) : c[i].type = type /\ c[j].type = type => i = j
OneRekey ==
  /\ AtMostOne(tasks, "REKEY_REQ") /\ AtMostOne(up, "REKEY_REQ") /\ AtMostOne(down, "REKEY_RES")
  /\ ~ (InFlight(tasks, "REKEY_REQ") /\ InFlight(up, "REKEY_REQ"))
  /\ InFlight(down, "REKEY_RES") => ~ InFlight(tasks, "REKEY_REQ") /\ ~ InFlight(up, "REKEY_REQ")

RekeyIsPending ==
  /\ \A i \in 1..Len(tasks) : tasks[i].type = "REKEY_REQ" => tasks[i].e = pending_ephemeral_key
  /\ \A i \in 1..Len(up) : up[i].type = "REKEY_REQ" => up[i].e = pending_ephemeral_key
  /\ \A i \in 1..Len(down) : down[i].type = "REKEY_RES" =>
       /\ pending_ephemeral_key # None /\ session_key # pending
       /\ \/ pending = <<pending_ephemeral_key, down[i].g>>
          \/ active = None /\ pending = None

NewKeyUnused ==
  pending # None /\ session_key # pending =>
    \A i \in 1..Len(up) : up[i].type = "TELEMETRY" => up[i].k # pending

PromotedFirst ==
  session_key = pending =>
    /\ ~ InFlight(tasks, "REKEY_REQ")
    /\ active # None =>
         \A j \in 1..Len(up) : up[j].type = "REKEY_REQ" =>
           \E i \in 1..(j - 1) : up[i] = TELEMETRY(session_key)

Going ==
  /\ phase = "secure"
  /\ NoLateHandshake /\ OneRekey /\ RekeyIsPending /\ NewKeyUnused /\ PromotedFirst

OneFault == faults = 1 => Connecting \/ Going

-----------------------------------------------------------------------------
(* The channels: what a step leaves in them. *)

LEMMA Elements ==
  ASSUME NEW S, NEW s \in Seq(S), NEW i \in 1..Len(s)
  PROVE  /\ RemoveAt(s, i) \in Seq(S) /\ Len(RemoveAt(s, i)) = Len(s) - 1
         /\ \A j \in 1..(Len(s) - 1) :
              RemoveAt(s, i)[j] = IF j < i THEN s[j] ELSE s[j + 1]
<1>1. Len(s) \in Nat /\ i \in Nat /\ i >= 1 /\ i <= Len(s)
  OBVIOUS
<1>2. \A j \in 1..Len(s) : s[j] \in S
  BY ElementOfSeq
<1> DEFINE a == SubSeq(s, 1, i - 1)
           b == SubSeq(s, i + 1, Len(s))
<1>3. a \in Seq(S) /\ Len(a) = i - 1 /\ \A j \in 1..(i - 1) : a[j] = s[j]
  BY <1>1, <1>2, SubSeqProperties
<1>4. b \in Seq(S) /\ Len(b) = Len(s) - i /\ \A j \in 1..(Len(s) - i) : b[j] = s[i + j]
  BY <1>1, <1>2, SubSeqProperties
<1>5. RemoveAt(s, i) = a \o b
  BY DEF RemoveAt
<1> HIDE DEF a, b
<1>6. /\ a \o b \in Seq(S) /\ Len(a \o b) = Len(a) + Len(b)
      /\ \A j \in 1..(Len(a) + Len(b)) :
           (a \o b)[j] = IF j <= Len(a) THEN a[j] ELSE b[j - Len(a)]
  BY <1>3, <1>4, ConcatProperties
<1>7. Len(a) + Len(b) = Len(s) - 1
  BY <1>1, <1>3, <1>4
<1>8. ASSUME NEW j \in 1..(Len(s) - 1)
      PROVE  (a \o b)[j] = IF j < i THEN s[j] ELSE s[j + 1]
  <2>1. CASE j < i
    BY <2>1, <1>1, <1>3, <1>6, <1>7
  <2>2. CASE ~ (j < i)
    <3>1. ~ (j <= Len(a)) /\ j - Len(a) \in 1..(Len(s) - i) /\ i + (j - Len(a)) = j + 1
      BY <2>2, <1>1, <1>3
    <3> QED
      BY <2>2, <3>1, <1>4, <1>6, <1>7
  <2> QED
    BY <2>1, <2>2
<1> QED
  BY <1>5, <1>6, <1>7, <1>8

LEMMA RemovedFirst ==
  ASSUME NEW S, NEW s \in Seq(S), s # <<>>
  PROVE  RemoveAt(s, 1) = Tail(s)
<1>1. 1 \in 1..Len(s) /\ Len(s) \in Nat
  OBVIOUS
<1> DEFINE r == RemoveAt(s, 1)
<1>2. /\ r \in Seq(S) /\ Len(r) = Len(s) - 1
      /\ \A j \in 1..(Len(s) - 1) : r[j] = IF j < 1 THEN s[j] ELSE s[j + 1]
  BY <1>1, Elements
<1>3. /\ Tail(s) \in Seq(S) /\ Len(Tail(s)) = Len(s) - 1
      /\ \A i \in 1..Len(Tail(s)) : Tail(s)[i] = s[i + 1]
  BY Tailed
<1> HIDE DEF r
<1>4. \A j \in 1..Len(r) : r[j] = Tail(s)[j]
  BY <1>1, <1>2, <1>3
<1>5. r = Tail(s)
  BY <1>2, <1>3, <1>4, SeqEqual
<1> QED
  BY <1>5 DEF r

LEMMA InTail ==
  ASSUME NEW S, NEW c \in Seq(S), c # <<>>, NEW type
  PROVE  /\ InFlight(Tail(c), type) => InFlight(c, type)
         /\ AtMostOne(c, type) => AtMostOne(Tail(c), type)
         /\ AtMostOne(c, type) /\ c[1].type = type => ~ InFlight(Tail(c), type)
         /\ InFlight(c, type) => c[1].type = type \/ InFlight(Tail(c), type)
<1>1. /\ Len(c) \in Nat /\ Len(c) > 0 /\ Len(Tail(c)) = Len(c) - 1
      /\ \A i \in 1..Len(Tail(c)) : Tail(c)[i] = c[i + 1]
  BY Tailed
<1>2. \A i \in 1..Len(Tail(c)) : i + 1 \in 1..Len(c) /\ i + 1 # 1 /\ Tail(c)[i] = c[i + 1]
  BY <1>1
<1>3. \A i \in 1..Len(c) : i = 1 \/ (i - 1 \in 1..Len(Tail(c)) /\ c[i] = Tail(c)[i - 1])
  BY <1>1
<1>4. 1 \in 1..Len(c)
  BY <1>1
<1>5. AtMostOne(c, type) => AtMostOne(Tail(c), type)
  <2> SUFFICES ASSUME AtMostOne(c, type), NEW i \in 1..Len(Tail(c)), NEW j \in 1..Len(Tail(c)),
                      Tail(c)[i].type = type, Tail(c)[j].type = type
               PROVE  i = j
    BY DEF AtMostOne
  <2>1. i + 1 = j + 1
    BY <1>2 DEF AtMostOne
  <2> QED
    BY <2>1
<1> QED
  BY <1>2, <1>3, <1>4, <1>5 DEF InFlight, AtMostOne

LEMMA InAppended ==
  ASSUME NEW S, NEW c \in Seq(S), NEW m \in S, NEW type
  PROVE  /\ InFlight(Append(c, m), type) <=> InFlight(c, type) \/ m.type = type
         /\ AtMostOne(c, type) /\ (m.type # type \/ ~ InFlight(c, type)) =>
              AtMostOne(Append(c, m), type)
<1> DEFINE d == Append(c, m)
<1>1. /\ Len(c) \in Nat /\ Len(d) = Len(c) + 1
      /\ \A i \in 1..Len(c) : d[i] = c[i]
      /\ d[Len(c) + 1] = m
  BY Appended
<1> HIDE DEF d
<1>2. /\ \A i \in 1..Len(d) : i \in 1..Len(c) \/ i = Len(c) + 1
      /\ \A i \in 1..Len(c) : i \in 1..Len(d)
      /\ Len(c) + 1 \in 1..Len(d)
  BY <1>1
<1>3. InFlight(d, type) <=> InFlight(c, type) \/ m.type = type
  BY <1>1, <1>2 DEF InFlight
<1>4. AtMostOne(c, type) /\ (m.type # type \/ ~ InFlight(c, type)) => AtMostOne(d, type)
  BY <1>1, <1>2 DEF InFlight, AtMostOne
<1> QED
  BY <1>3, <1>4 DEF d

LEMMA NoneInEmpty ==
  ASSUME NEW type
  PROVE  ~ InFlight(<<>>, type) /\ AtMostOne(<<>>, type)
BY DEF InFlight, AtMostOne

-----------------------------------------------------------------------------
(* A secure session after one fault: one action at a time. *)

LEMMA TheChannels ==
  ASSUME Inv
  PROVE  up \in Seq(UpMsgs) /\ down \in Seq(DownMsgs) /\ tasks \in Seq(Requests)
BY DEF Inv, ChannelsInv

LEMMA GoingSame ==
  ASSUME Going, UNCHANGED <<phase, session_key, pending_ephemeral_key, active, pending,
                            tasks, up, down>>
  PROVE  Going'
BY DEF Going, NoLateHandshake, Overtaken, FirstRequest, OnlyResponses, OneRekey,
       RekeyIsPending, NewKeyUnused, PromotedFirst, AtMostOne, InFlight

\* A command is added to the packets in flight.
LEMMA GoingCommand ==
  ASSUME Inv, Going, SendCommand
  PROVE  Going'
<1> DEFINE m == COMMAND(active)
<1>1. m \in DownMsgs /\ m.type = "COMMAND"
  BY DEF DownMsgs, COMMAND, SendCommand, Inv, GksInv
<1>2. down' = Append(down, m) /\ UNCHANGED <<uavVars, gksVars, up>> /\ active # None
  BY DEF SendCommand
<1> HIDE DEF m
<1>3. /\ Len(down) \in Nat /\ Len(down') = Len(down) + 1
      /\ \A i \in 1..Len(down) : down'[i] = down[i]
      /\ down'[Len(down) + 1] = m
  BY <1>1, <1>2, TheChannels, Appended
<1>4. \A i \in 1..Len(down') : \/ i \in 1..Len(down) /\ down'[i] = down[i]
                               \/ down'[i].type = "COMMAND"
  BY <1>1, <1>3
<1>5. \A t \in {"HANDSHAKE_RES", "REKEY_RES", "RESET"} :
         /\ InFlight(down, t)' <=> InFlight(down, t)
         /\ AtMostOne(down, t) => AtMostOne(down, t)'
  BY <1>1, <1>2, TheChannels, InAppended DEF InFlight, AtMostOne
<1>6. NoLateHandshake'
  <2>1. OnlyResponses => OnlyResponses'
    BY <1>4 DEF OnlyResponses
  <2>2. Overtaken => Overtaken'
    BY <2>1, <1>2 DEF Overtaken, FirstRequest, InFlight, uavVars, gksVars
  <2>3. NoLateHandshake
    BY DEF Going
  <2>4. /\ InFlight(tasks, "HANDSHAKE_REQ")' <=> InFlight(tasks, "HANDSHAKE_REQ")
        /\ InFlight(up, "HANDSHAKE_REQ")' <=> InFlight(up, "HANDSHAKE_REQ")
        /\ active' = active
    BY <1>2 DEF InFlight, gksVars
  <2> QED
    BY <2>2, <2>3, <2>4, <1>5 DEF NoLateHandshake
<1>7. OneRekey'
  BY <1>2, <1>5 DEF Going, OneRekey, AtMostOne, InFlight, gksVars
<1>8. RekeyIsPending'
  BY <1>2, <1>4 DEF Going, RekeyIsPending, uavVars, gksVars
<1>9. NewKeyUnused' /\ PromotedFirst'
  BY <1>2 DEF Going, NewKeyUnused, PromotedFirst, InFlight, uavVars, gksVars
<1> QED
  BY <1>2, <1>6, <1>7, <1>8, <1>9 DEF Going, uavVars

LEMMA GoingTimeout ==
  ASSUME Inv, Going, SessionTimeout, faults' = faults
  PROVE  Going'
<1>1. ~ Agreed /\ HandshakeQuiet
  BY SpentNoFault DEF SessionTimeout, FaultUnless
<1>2. active' = None /\ UNCHANGED <<uavVars, pending, tasks, up, down>>
  BY DEF SessionTimeout
<1>3. NoLateHandshake'
  BY <1>1, <1>2 DEF HandshakeQuiet, NoLateHandshake, InFlight
<1>4. session_key # pending
  BY <1>1 DEF Agreed, Going
<1>5. OneRekey' /\ NewKeyUnused' /\ PromotedFirst'
  BY <1>2, <1>4
  DEF Going, OneRekey, NewKeyUnused, PromotedFirst, AtMostOne, InFlight, uavVars
<1>6. RekeyIsPending'
  BY <1>2 DEF Going, RekeyIsPending, uavVars
<1> QED
  BY <1>2, <1>3, <1>5, <1>6 DEF Going, uavVars

\* The GKS reads a packet: the rest of the channel moves up by one place.
LEMMA UpRead ==
  ASSUME Inv, up # <<>>, up' = Tail(up)
  PROVE  /\ Len(up) \in Nat /\ Len(up) > 0 /\ Len(up') = Len(up) - 1
         /\ \A i \in 1..Len(up') : i + 1 \in 1..Len(up) /\ up'[i] = up[i + 1]
         /\ Head(up) = up[1] /\ up[1] \in UpMsgs /\ 1 \in 1..Len(up)
         /\ \A t \in {"HANDSHAKE_REQ", "REKEY_REQ", "TELEMETRY"} :
              /\ InFlight(up, t)' => InFlight(up, t)
              /\ AtMostOne(up, t) => AtMostOne(up, t)'
              /\ AtMostOne(up, t) /\ up[1].type = t => ~ InFlight(up, t)'
              /\ InFlight(up, t) => up[1].type = t \/ InFlight(up, t)'
<1>1. /\ Len(up) \in Nat /\ Len(up) > 0 /\ Len(up') = Len(up) - 1
      /\ \A i \in 1..Len(up') : up'[i] = up[i + 1]
      /\ Head(up) = up[1] /\ up[1] \in UpMsgs
  BY TheChannels, Tailed
<1>2. \A i \in 1..Len(up') : i + 1 \in 1..Len(up)
  BY <1>1
<1>3. ASSUME NEW t
      PROVE  /\ InFlight(up, t)' => InFlight(up, t)
             /\ AtMostOne(up, t) => AtMostOne(up, t)'
             /\ AtMostOne(up, t) /\ up[1].type = t => ~ InFlight(up, t)'
             /\ InFlight(up, t) => up[1].type = t \/ InFlight(up, t)'
  <2>1. /\ InFlight(Tail(up), t) => InFlight(up, t)
        /\ AtMostOne(up, t) => AtMostOne(Tail(up), t)
        /\ AtMostOne(up, t) /\ up[1].type = t => ~ InFlight(Tail(up), t)
        /\ InFlight(up, t) => up[1].type = t \/ InFlight(Tail(up), t)
    BY TheChannels, InTail
  <2> QED
    BY <2>1 DEF InFlight, AtMostOne
<1> QED
  BY <1>1, <1>2, <1>3

\* The same for the UAV.
LEMMA DownRead ==
  ASSUME Inv, down # <<>>, down' = Tail(down)
  PROVE  /\ Len(down) \in Nat /\ Len(down) > 0 /\ Len(down') = Len(down) - 1
         /\ \A i \in 1..Len(down') : i + 1 \in 1..Len(down) /\ down'[i] = down[i + 1]
         /\ Head(down) = down[1] /\ down[1] \in DownMsgs /\ 1 \in 1..Len(down)
         /\ \A t \in {"HANDSHAKE_RES", "REKEY_RES", "RESET"} :
              /\ InFlight(down, t)' => InFlight(down, t)
              /\ AtMostOne(down, t) => AtMostOne(down, t)'
              /\ AtMostOne(down, t) /\ down[1].type = t => ~ InFlight(down, t)'
<1>1. /\ Len(down) \in Nat /\ Len(down) > 0 /\ Len(down') = Len(down) - 1
      /\ \A i \in 1..Len(down') : down'[i] = down[i + 1]
      /\ Head(down) = down[1] /\ down[1] \in DownMsgs
  BY TheChannels, Tailed
<1>2. \A i \in 1..Len(down') : i + 1 \in 1..Len(down)
  BY <1>1
<1>3. ASSUME NEW t
      PROVE  /\ InFlight(down, t)' => InFlight(down, t)
             /\ AtMostOne(down, t) => AtMostOne(down, t)'
             /\ AtMostOne(down, t) /\ down[1].type = t => ~ InFlight(down, t)'
  <2>1. /\ InFlight(Tail(down), t) => InFlight(down, t)
        /\ AtMostOne(down, t) => AtMostOne(Tail(down), t)
        /\ AtMostOne(down, t) /\ down[1].type = t => ~ InFlight(Tail(down), t)
    BY TheChannels, InTail
  <2> QED
    BY <2>1 DEF InFlight, AtMostOne
<1> QED
  BY <1>1, <1>2, <1>3

LEMMA GoingNoSession ==
  ASSUME Inv, Going, TelemetryNoSession
  PROVE  Going'
<1>1. /\ up # <<>> /\ up' = Tail(up) /\ active = None /\ up[1].type = "TELEMETRY"
      /\ UNCHANGED <<uavVars, active, pending, tasks>>
      /\ down' = down \/ down' = Append(down, RESET)
  BY UpRead DEF TelemetryNoSession
<1>2. /\ ~ InFlight(tasks, "HANDSHAKE_REQ") /\ ~ InFlight(up, "HANDSHAKE_REQ")
      /\ ~ InFlight(down, "HANDSHAKE_RES")
  BY <1>1 DEF Going, NoLateHandshake, Overtaken
<1>3. RESET \in DownMsgs /\ RESET.type = "RESET"
  BY DEF DownMsgs, RESET
<1>4. \A t \in {"HANDSHAKE_RES", "REKEY_RES"} :
         /\ InFlight(down, t)' <=> InFlight(down, t)
         /\ AtMostOne(down, t) => AtMostOne(down, t)'
  <2>1. CASE down' = down
    BY <2>1 DEF InFlight, AtMostOne
  <2>2. CASE down' = Append(down, RESET)
    BY <2>2, <1>3, TheChannels, InAppended DEF InFlight, AtMostOne
  <2> QED
    BY <1>1, <2>1, <2>2
<1>5. \A i \in 1..Len(down') : \/ i \in 1..Len(down) /\ down'[i] = down[i]
                               \/ down'[i].type = "RESET"
  <2>1. CASE down' = Append(down, RESET)
    <3>1. /\ Len(down) \in Nat /\ Len(down') = Len(down) + 1
          /\ \A i \in 1..Len(down) : down'[i] = down[i]
          /\ down'[Len(down) + 1] = RESET
      BY <1>3, <2>1, TheChannels, Appended
    <3> QED
      BY <1>3, <3>1
  <2> QED
    BY <1>1, <2>1
<1>6. NoLateHandshake'
  <2>1. ~ InFlight(tasks, "HANDSHAKE_REQ")' /\ ~ InFlight(up, "HANDSHAKE_REQ")'
    BY <1>1, <1>2, UpRead DEF InFlight
  <2> QED
    BY <2>1, <1>2, <1>4 DEF NoLateHandshake
<1>7. OneRekey'
  <2>1. /\ InFlight(tasks, "REKEY_REQ")' <=> InFlight(tasks, "REKEY_REQ")
        /\ AtMostOne(tasks, "REKEY_REQ") => AtMostOne(tasks, "REKEY_REQ")'
    BY <1>1 DEF InFlight, AtMostOne
  <2>2. /\ InFlight(up, "REKEY_REQ")' => InFlight(up, "REKEY_REQ")
        /\ AtMostOne(up, "REKEY_REQ") => AtMostOne(up, "REKEY_REQ")'
    BY <1>1, UpRead
  <2> QED
    BY <2>1, <2>2, <1>4 DEF Going, OneRekey
<1>8. RekeyIsPending'
  <2>1. \A i \in 1..Len(up') : i + 1 \in 1..Len(up) /\ up'[i] = up[i + 1]
    BY <1>1, UpRead
  <2> QED
    BY <2>1, <1>1, <1>5 DEF Going, RekeyIsPending, uavVars
<1>9. NewKeyUnused' /\ PromotedFirst'
  <2>1. \A i \in 1..Len(up') : i + 1 \in 1..Len(up) /\ up'[i] = up[i + 1]
    BY <1>1, UpRead
  <2> QED
    BY <2>1, <1>1 DEF Going, NewKeyUnused, PromotedFirst, InFlight, uavVars
<1> QED
  BY <1>1, <1>6, <1>7, <1>8, <1>9 DEF Going, uavVars

\* A packet with the pending key is one of the UAV's: only its key is promoted.
LEMMA OnlyUsedPromoted ==
  ASSUME Inv, Going, up # <<>>, up[1].type = "TELEMETRY", up[1].k = pending
  PROVE  session_key = pending /\ pending # None
<1>1. up[1] \in UpMsgs /\ 1 \in 1..Len(up)
  BY TheChannels, Tailed
<1>2. pending # None
  BY <1>1, UpFields, KeyParts
<1> QED
  BY <1>1, <1>2 DEF Going, NewKeyUnused

LEMMA GoingSession ==
  ASSUME Inv, Going, TelemetryWithSession
  PROVE  Going'
<1> DEFINE k == up[1].k
<1>1. /\ up # <<>> /\ up' = Tail(up) /\ active # None /\ up[1].type = "TELEMETRY"
      /\ UNCHANGED <<uavVars, tasks, down>> /\ DecryptPayload(k)
  BY UpRead DEF TelemetryWithSession
<1>2. \A i \in 1..Len(up') : i + 1 \in 1..Len(up) /\ up'[i] = up[i + 1]
  BY <1>1, UpRead
<1>3. OneRekey'
  <2>1. /\ InFlight(tasks, "REKEY_REQ")' <=> InFlight(tasks, "REKEY_REQ")
        /\ AtMostOne(tasks, "REKEY_REQ") => AtMostOne(tasks, "REKEY_REQ")'
        /\ InFlight(down, "REKEY_RES")' <=> InFlight(down, "REKEY_RES")
        /\ AtMostOne(down, "REKEY_RES") => AtMostOne(down, "REKEY_RES")'
    BY <1>1 DEF InFlight, AtMostOne
  <2>2. /\ InFlight(up, "REKEY_REQ")' => InFlight(up, "REKEY_REQ")
        /\ AtMostOne(up, "REKEY_REQ") => AtMostOne(up, "REKEY_REQ")'
    BY <1>1, UpRead
  <2> QED
    BY <2>1, <2>2 DEF Going, OneRekey
<1>4. /\ InFlight(up, "HANDSHAKE_REQ")' => InFlight(up, "HANDSHAKE_REQ")
      /\ InFlight(tasks, "HANDSHAKE_REQ")' => InFlight(tasks, "HANDSHAKE_REQ")
      /\ InFlight(down, "HANDSHAKE_RES")' => InFlight(down, "HANDSHAKE_RES")
      /\ InFlight(down, "RESET")' => InFlight(down, "RESET")
  BY <1>1, UpRead DEF InFlight
<1>5. CASE UNCHANGED <<active, pending>> /\ (active = k \/ pending # k)
  <2>1. Overtaken => Overtaken'
    <3> SUFFICES ASSUME Overtaken PROVE Overtaken'
      OBVIOUS
    <3>1. FirstRequest(tasks) /\ ~ InFlight(up, "HANDSHAKE_REQ")
      BY <1>1 DEF Overtaken, FirstRequest
    <3> QED
      BY <3>1, <1>1, <1>4, <1>5 DEF Overtaken, FirstRequest, OnlyResponses, uavVars
  <2>2. NoLateHandshake'
    BY <2>1, <1>4, <1>5 DEF Going, NoLateHandshake
  <2>3. RekeyIsPending' /\ NewKeyUnused'
    BY <1>1, <1>2, <1>5 DEF Going, RekeyIsPending, NewKeyUnused, uavVars
  <2>4. PromotedFirst'
    <3> SUFFICES ASSUME session_key = pending,
                        NEW j \in 1..Len(up'), up'[j].type = "REKEY_REQ"
                 PROVE  ~ InFlight(tasks, "REKEY_REQ") /\
                        \E i \in 1..(j - 1) : up'[i] = TELEMETRY(session_key)
      BY <1>1, <1>5 DEF Going, PromotedFirst, InFlight, uavVars
    <3>1. j + 1 \in 1..Len(up) /\ up[j + 1].type = "REKEY_REQ"
      BY <1>2
    <3>2. PICK i \in 1..((j + 1) - 1) : up[i] = TELEMETRY(session_key)
      BY <3>1, <1>1 DEF Going, PromotedFirst
    <3>3. active # pending
      BY <1>1 DEF Inv, GksInv
    <3>4. i # 1
      BY <3>2, <3>3, <1>5 DEF TELEMETRY
    <3>5. i - 1 \in 1..(j - 1) /\ i - 1 \in 1..Len(up') /\ (i - 1) + 1 = i
      BY <3>2, <3>4
    <3>6. up'[i - 1] = TELEMETRY(session_key)
      BY <3>2, <3>5, <1>2
    <3> QED
      BY <3>5, <3>6 DEF Going, PromotedFirst
  <2> QED
    BY <1>1, <1>3, <2>2, <2>3, <2>4 DEF Going, uavVars
<1>6. CASE pending = k /\ active' = pending /\ pending' = None
  <2>1. session_key = pending /\ pending # None
    BY <1>1, <1>6, OnlyUsedPromoted
  <2>2. NoLateHandshake'
    BY <1>4, <1>6, <2>1 DEF Going, NoLateHandshake, Overtaken
  <2>3. NewKeyUnused' /\ PromotedFirst'
    BY <1>1, <1>6, <2>1 DEF NewKeyUnused, PromotedFirst, uavVars
  <2>4. RekeyIsPending'
    BY <1>1, <1>2, <2>1 DEF Going, RekeyIsPending, uavVars
  <2> QED
    BY <1>1, <1>3, <2>2, <2>3, <2>4 DEF Going, uavVars
<1> QED
  BY <1>1, <1>5, <1>6 DEF DecryptPayload

LEMMA RequestMoved ==
  ASSUME Inv, up # <<>>, up[1].type # "TELEMETRY", tasks' = Append(tasks, up[1])
  PROVE  /\ up[1] \in Requests
         /\ Len(tasks) \in Nat /\ Len(tasks') = Len(tasks) + 1
         /\ \A i \in 1..Len(tasks) : tasks'[i] = tasks[i]
         /\ tasks'[Len(tasks) + 1] = up[1]
         /\ \A t \in {"HANDSHAKE_REQ", "REKEY_REQ"} :
              /\ InFlight(tasks, t)' <=> InFlight(tasks, t) \/ up[1].type = t
              /\ AtMostOne(tasks, t) /\ (up[1].type # t \/ ~ InFlight(tasks, t)) =>
                   AtMostOne(tasks, t)'
<1>1. up[1] \in Requests
  BY TheChannels, Tailed, UpFields
<1>2. /\ Len(tasks) \in Nat /\ Len(tasks') = Len(tasks) + 1
      /\ \A i \in 1..Len(tasks) : tasks'[i] = tasks[i]
      /\ tasks'[Len(tasks) + 1] = up[1]
  BY <1>1, TheChannels, Appended
<1>3. ASSUME NEW t
      PROVE  /\ InFlight(tasks, t)' <=> InFlight(tasks, t) \/ up[1].type = t
             /\ AtMostOne(tasks, t) /\ (up[1].type # t \/ ~ InFlight(tasks, t)) =>
                  AtMostOne(tasks, t)'
  <2>1. /\ InFlight(Append(tasks, up[1]), t) <=> InFlight(tasks, t) \/ up[1].type = t
        /\ AtMostOne(tasks, t) /\ (up[1].type # t \/ ~ InFlight(tasks, t)) =>
             AtMostOne(Append(tasks, up[1]), t)
    BY <1>1, TheChannels, InAppended
  <2> QED
    BY <2>1 DEF InFlight, AtMostOne
<1> QED
  BY <1>1, <1>2, <1>3

LEMMA GoingReceive ==
  ASSUME Inv, Going, ReceiveRequest
  PROVE  Going'
<1> DEFINE r == up[1]
<1>1. /\ up # <<>> /\ up' = Tail(up) /\ r.type \in {"HANDSHAKE_REQ", "REKEY_REQ"}
      /\ UNCHANGED <<uavVars, active, pending, down>>
      /\ tasks' = IF r.type = "REKEY_REQ" /\ active = None THEN tasks ELSE Append(tasks, r)
  BY UpRead DEF ReceiveRequest
<1>2. /\ \A i \in 1..Len(up') : i + 1 \in 1..Len(up) /\ up'[i] = up[i + 1]
      /\ 1 \in 1..Len(up) /\ Len(up) \in Nat
  BY <1>1, UpRead
<1>3. \A t \in {"HANDSHAKE_REQ", "REKEY_REQ"} :
        /\ InFlight(up, t)' => InFlight(up, t)
        /\ AtMostOne(up, t) => AtMostOne(up, t)'
        /\ AtMostOne(up, t) /\ r.type = t => ~ InFlight(up, t)'
  BY <1>1, UpRead
<1>4. /\ InFlight(down, "HANDSHAKE_RES")' <=> InFlight(down, "HANDSHAKE_RES")
      /\ InFlight(down, "RESET")' <=> InFlight(down, "RESET")
      /\ InFlight(down, "REKEY_RES")' <=> InFlight(down, "REKEY_RES")
      /\ AtMostOne(down, "REKEY_RES")' <=> AtMostOne(down, "REKEY_RES")
      /\ OnlyResponses' <=> OnlyResponses
  BY <1>1 DEF InFlight, AtMostOne, OnlyResponses
<1>5. NewKeyUnused'
  BY <1>1, <1>2 DEF Going, NewKeyUnused, uavVars
<1>6. CASE r.type = "HANDSHAKE_REQ"
  <2>1. InFlight(up, "HANDSHAKE_REQ")
    BY <1>2, <1>6 DEF InFlight
  <2>2. Overtaken /\ tasks = <<>> /\ FirstRequest(up)
    BY <2>1 DEF Going, NoLateHandshake, Overtaken
  <2>3. tasks' = <<r>>
    BY <1>1, <1>6, <2>2
  <2>4. Len(tasks') = 1 /\ tasks'[1] = r /\ tasks' # <<>>
    BY <2>3
  <2>5. ~ InFlight(up, "HANDSHAKE_REQ")'
    BY <1>2, <2>2 DEF InFlight, FirstRequest
  <2>6. Overtaken'
    BY <1>1, <1>4, <1>6, <2>2, <2>4, <2>5 DEF Overtaken, FirstRequest, uavVars
  <2>7. NoLateHandshake'
    BY <1>1, <1>4, <2>6 DEF Going, NoLateHandshake
  <2>8. OneRekey'
    <3>1. AtMostOne(tasks, "REKEY_REQ")' /\ ~ InFlight(tasks, "REKEY_REQ")'
      BY <1>6, <2>4 DEF AtMostOne, InFlight
    <3> QED
      BY <3>1, <1>3, <1>4 DEF Going, OneRekey
  <2>9. RekeyIsPending'
    BY <1>1, <1>2, <1>6, <2>4 DEF Going, RekeyIsPending, uavVars
  <2>10. PromotedFirst'
    <3>1. session_key # pending
      BY <2>2 DEF Overtaken, Going, Inv, UavInv
    <3> QED
      BY <3>1, <1>1 DEF PromotedFirst, uavVars
  <2> QED
    BY <1>1, <1>5, <2>7, <2>8, <2>9, <2>10 DEF Going, uavVars
<1>7. CASE r.type = "REKEY_REQ"
  <2>1. InFlight(up, "REKEY_REQ") /\ ~ InFlight(up, "REKEY_REQ")' /\ AtMostOne(up, "REKEY_REQ")'
    BY <1>2, <1>3, <1>7 DEF InFlight, Going, OneRekey
  <2>2. ~ InFlight(tasks, "REKEY_REQ") /\ ~ InFlight(down, "REKEY_RES")
    BY <2>1 DEF Going, OneRekey
  <2>3. r.e = pending_ephemeral_key
    BY <1>2, <1>7 DEF Going, RekeyIsPending
  <2>4. CASE active = None
    <3>1. tasks' = tasks
      BY <1>1, <1>7, <2>4
    <3>2. NoLateHandshake'
      <4>1. ~ InFlight(tasks, "HANDSHAKE_REQ")' /\ ~ InFlight(up, "HANDSHAKE_REQ")'
        BY <3>1, <1>3, <2>4 DEF Going, NoLateHandshake, Overtaken, InFlight
      <4> QED
        BY <4>1, <1>1, <1>4 DEF Going, NoLateHandshake
    <3>3. OneRekey'
      BY <3>1, <2>1, <2>2, <1>4 DEF Going, OneRekey, InFlight, AtMostOne
    <3>4. RekeyIsPending'
      BY <3>1, <1>1, <1>2 DEF Going, RekeyIsPending, uavVars
    <3>5. PromotedFirst'
      BY <3>1, <1>1, <2>4, <2>2 DEF PromotedFirst, InFlight, uavVars
    <3> QED
      BY <1>1, <1>5, <3>2, <3>3, <3>4, <3>5 DEF Going, uavVars
  <2>5. CASE active # None
    <3>1. tasks' = Append(tasks, r)
      BY <1>1, <2>5
    <3>2. /\ Len(tasks) \in Nat /\ Len(tasks') = Len(tasks) + 1
          /\ \A i \in 1..Len(tasks) : tasks'[i] = tasks[i]
          /\ tasks'[Len(tasks) + 1] = r
          /\ InFlight(tasks, "HANDSHAKE_REQ")' <=> InFlight(tasks, "HANDSHAKE_REQ")
          /\ AtMostOne(tasks, "REKEY_REQ") => AtMostOne(tasks, "REKEY_REQ")'
      BY <3>1, <1>1, <1>7, <2>2, RequestMoved
    <3>3. \A i \in 1..Len(tasks') : \/ i \in 1..Len(tasks) /\ tasks'[i] = tasks[i]
                                    \/ tasks'[i] = r
      BY <3>2
    <3>4. Overtaken => Overtaken'
      <4> SUFFICES ASSUME Overtaken PROVE Overtaken'
        OBVIOUS
      <4>1. FirstRequest(tasks) /\ ~ InFlight(up, "HANDSHAKE_REQ")
        BY <1>7 DEF Overtaken, FirstRequest
      <4>2. tasks' # <<>> /\ tasks'[1] = tasks[1]
        BY <4>1, <3>2 DEF FirstRequest
      <4>3. \A i \in 2..Len(tasks') : tasks'[i].type # "HANDSHAKE_REQ"
        BY <4>1, <3>3, <1>7 DEF FirstRequest
      <4>4. FirstRequest(tasks)'
        BY <4>1, <4>2, <4>3 DEF FirstRequest
      <4> QED
        BY <4>1, <4>4, <1>1, <1>3, <1>4 DEF Overtaken, uavVars
    <3>5. NoLateHandshake'
      BY <3>2, <3>4, <1>1, <1>3, <1>4 DEF Going, NoLateHandshake
    <3>6. OneRekey'
      BY <2>1, <2>2, <3>2, <1>4 DEF Going, OneRekey
    <3>7. RekeyIsPending'
      BY <3>3, <1>1, <1>2, <2>3 DEF Going, RekeyIsPending, uavVars
    <3>8. session_key # pending
      <4>1. ~ \E i \in 1..(1 - 1) : up[i] = TELEMETRY(session_key)
        OBVIOUS
      <4> QED
        BY <4>1, <1>2, <1>7, <2>5 DEF Going, PromotedFirst
    <3>9. PromotedFirst'
      BY <3>8, <1>1 DEF PromotedFirst, uavVars
    <3> QED
      BY <1>1, <1>5, <3>5, <3>6, <3>7, <3>9 DEF Going, uavVars
  <2> QED
    BY <2>4, <2>5
<1> QED
  BY <1>1, <1>6, <1>7

\* Without a fault it is the oldest request that is answered.
LEMMA OldestAnswered ==
  ASSUME Inv, NEW i \in 1..MaxTasks, AnswerRequest(i), faults' = faults
  PROVE  /\ i = 1 /\ tasks # <<>> /\ tasks' = Tail(tasks)
         /\ tasks[1] \in Requests /\ tasks[1].e \in Ephs /\ 1 \in 1..Len(tasks)
         /\ Len(tasks) \in Nat /\ Len(tasks') = Len(tasks) - 1
         /\ \A j \in 1..Len(tasks') : j + 1 \in 1..Len(tasks) /\ tasks'[j] = tasks[j + 1]
         /\ \A t \in {"HANDSHAKE_REQ", "REKEY_REQ"} :
              /\ InFlight(tasks, t)' => InFlight(tasks, t)
              /\ AtMostOne(tasks, t) => AtMostOne(tasks, t)'
              /\ AtMostOne(tasks, t) /\ tasks[1].type = t => ~ InFlight(tasks, t)'
<1>1. i = 1
  BY SpentNoFault DEF AnswerRequest, FaultUnless
<1>2. tasks # <<>> /\ 1 \in 1..Len(tasks) /\ tasks' = RemoveAt(tasks, 1)
  BY <1>1 DEF AnswerRequest
<1>3. tasks' = Tail(tasks)
  BY <1>2, TheChannels, RemovedFirst
<1>4. /\ Len(tasks) \in Nat /\ Len(tasks') = Len(tasks) - 1
      /\ tasks[1] \in Requests
      /\ \A j \in 1..Len(tasks') : tasks'[j] = tasks[j + 1]
  BY <1>2, <1>3, TheChannels, Tailed
<1>5. \A j \in 1..Len(tasks') : j + 1 \in 1..Len(tasks)
  BY <1>4
<1>6. ASSUME NEW t
      PROVE  /\ InFlight(tasks, t)' => InFlight(tasks, t)
             /\ AtMostOne(tasks, t) => AtMostOne(tasks, t)'
             /\ AtMostOne(tasks, t) /\ tasks[1].type = t => ~ InFlight(tasks, t)'
  <2>1. /\ InFlight(Tail(tasks), t) => InFlight(tasks, t)
        /\ AtMostOne(tasks, t) => AtMostOne(Tail(tasks), t)
        /\ AtMostOne(tasks, t) /\ tasks[1].type = t => ~ InFlight(Tail(tasks), t)
    BY <1>2, TheChannels, InTail
  <2> QED
    BY <2>1, <1>3 DEF InFlight, AtMostOne
<1> QED
  BY <1>1, <1>2, <1>3, <1>4, <1>5, <1>6, RequestFields

\* What the answer does: the key it makes is one nobody holds.
LEMMA Answering ==
  ASSUME Inv, NEW i \in 1..MaxTasks, AnswerRequest(i), faults' = faults,
         NEW type, tasks[1].type = type
  PROVE  LET k == <<tasks[1].e, FreshGksEph>>
             m == IF type = "REKEY_REQ" THEN REKEY_RES(k[2]) ELSE HANDSHAKE_RES(k[2])
         IN  /\ UNCHANGED <<uavVars, last_seen, reset_ok, up, commands>>
             /\ IF type = "REKEY_REQ" THEN pending' = k /\ active' = active
                                      ELSE active' = k /\ pending' = pending
             /\ k \in Keys /\ k # None /\ k \notin {session_key, active, pending}
             /\ \A j \in 1..Len(up) : up[j].type = "TELEMETRY" => k # up[j].k
             /\ m \in DownMsgs /\ m.g = k[2]
             /\ m.type = IF type = "REKEY_REQ" THEN "REKEY_RES" ELSE "HANDSHAKE_RES"
             /\ down' = Append(down, m)
             /\ Len(down) \in Nat /\ Len(down') = Len(down) + 1
             /\ \A j \in 1..Len(down) : down'[j] = down[j]
             /\ down'[Len(down) + 1] = m
             /\ \A t \in {"HANDSHAKE_RES", "REKEY_RES", "RESET"} :
                  /\ InFlight(down, t)' <=> InFlight(down, t) \/ m.type = t
                  /\ AtMostOne(down, t) /\ (m.type # t \/ ~ InFlight(down, t)) =>
                       AtMostOne(down, t)'
<1> DEFINE k == <<tasks[1].e, FreshGksEph>>
           m == IF type = "REKEY_REQ" THEN REKEY_RES(k[2]) ELSE HANDSHAKE_RES(k[2])
<1>1. i = 1 /\ tasks[1].e \in Ephs /\ type \in {"HANDSHAKE_REQ", "REKEY_REQ"}
  BY OldestAnswered, RequestFields
<1>2. /\ k \in Keys /\ k \notin {session_key, active, pending} /\ k[2] = FreshGksEph
      /\ \A j \in 1..Len(up) : up[j].type = "TELEMETRY" => k # up[j].k
  BY <1>1, FreshKey
<1>3. k # None
  BY <1>2, KeyParts
<1>4. FreshGksEph \in Ephs
  BY FreshGks
<1>5. /\ m \in DownMsgs /\ m.g = k[2]
      /\ m.type = IF type = "REKEY_REQ" THEN "REKEY_RES" ELSE "HANDSHAKE_RES"
  BY <1>2, <1>4 DEF DownMsgs, REKEY_RES, HANDSHAKE_RES
<1>6. /\ UNCHANGED <<uavVars, last_seen, reset_ok, up, commands>>
      /\ IF type = "REKEY_REQ" THEN pending' = k /\ active' = active
                               ELSE active' = k /\ pending' = pending
      /\ down' = Append(down, m)
  <2>1. CASE type = "REKEY_REQ"
    BY <2>1, <1>1 DEF AnswerRequest
  <2>2. CASE type = "HANDSHAKE_REQ"
    BY <2>2, <1>1 DEF AnswerRequest
  <2> QED
    BY <1>1, <2>1, <2>2
<1> HIDE DEF m, k
<1>7. /\ Len(down) \in Nat /\ Len(down') = Len(down) + 1
      /\ \A j \in 1..Len(down) : down'[j] = down[j]
      /\ down'[Len(down) + 1] = m
  BY <1>5, <1>6, TheChannels, Appended
<1>8. ASSUME NEW t
      PROVE  /\ InFlight(down, t)' <=> InFlight(down, t) \/ m.type = t
             /\ AtMostOne(down, t) /\ (m.type # t \/ ~ InFlight(down, t)) =>
                  AtMostOne(down, t)'
  <2>1. /\ InFlight(Append(down, m), t) <=> InFlight(down, t) \/ m.type = t
        /\ AtMostOne(down, t) /\ (m.type # t \/ ~ InFlight(down, t)) =>
             AtMostOne(Append(down, m), t)
    BY <1>5, TheChannels, InAppended
  <2> QED
    BY <2>1, <1>6 DEF InFlight, AtMostOne
<1>9. /\ UNCHANGED <<uavVars, last_seen, reset_ok, up, commands>>
      /\ IF type = "REKEY_REQ" THEN pending' = k /\ active' = active
                               ELSE active' = k /\ pending' = pending
      /\ k \in Keys /\ k # None /\ k \notin {session_key, active, pending}
      /\ \A j \in 1..Len(up) : up[j].type = "TELEMETRY" => k # up[j].k
      /\ m \in DownMsgs /\ m.g = k[2]
      /\ m.type = IF type = "REKEY_REQ" THEN "REKEY_RES" ELSE "HANDSHAKE_RES"
      /\ down' = Append(down, m)
      /\ Len(down) \in Nat /\ Len(down') = Len(down) + 1
      /\ \A j \in 1..Len(down) : down'[j] = down[j]
      /\ down'[Len(down) + 1] = m
      /\ \A t \in {"HANDSHAKE_RES", "REKEY_RES", "RESET"} :
           /\ InFlight(down, t)' <=> InFlight(down, t) \/ m.type = t
           /\ AtMostOne(down, t) /\ (m.type # t \/ ~ InFlight(down, t)) =>
                AtMostOne(down, t)'
  BY <1>2, <1>3, <1>5, <1>6, <1>7, <1>8
<1> QED
  BY <1>9, Zenon DEF m, k

LEMMA GoingAnswer ==
  ASSUME Inv, Going, NEW i \in 1..MaxTasks, AnswerRequest(i), faults' = faults
  PROVE  Going'
<1> DEFINE k == <<tasks[1].e, FreshGksEph>>
<1>1. /\ tasks # <<>> /\ 1 \in 1..Len(tasks) /\ tasks[1] \in Requests
      /\ \A j \in 1..Len(tasks') : j + 1 \in 1..Len(tasks) /\ tasks'[j] = tasks[j + 1]
      /\ \A t \in {"HANDSHAKE_REQ", "REKEY_REQ"} :
           /\ InFlight(tasks, t)' => InFlight(tasks, t)
           /\ AtMostOne(tasks, t) => AtMostOne(tasks, t)'
           /\ AtMostOne(tasks, t) /\ tasks[1].type = t => ~ InFlight(tasks, t)'
  BY OldestAnswered
<1>2. UNCHANGED <<uavVars, up>> /\ k \in Keys /\ k # None /\ k \notin {session_key, active}
  BY Answering
<1>3. /\ InFlight(up, "HANDSHAKE_REQ")' <=> InFlight(up, "HANDSHAKE_REQ")
      /\ InFlight(up, "REKEY_REQ")' <=> InFlight(up, "REKEY_REQ")
      /\ AtMostOne(up, "REKEY_REQ")' <=> AtMostOne(up, "REKEY_REQ")
  BY <1>2 DEF InFlight, AtMostOne
<1>4. CASE tasks[1].type = "REKEY_REQ"
  <2> DEFINE m == REKEY_RES(k[2])
  <2>1. /\ pending' = k /\ active' = active /\ m.type = "REKEY_RES" /\ m.g = k[2]
        /\ \A j \in 1..Len(up) : up[j].type = "TELEMETRY" => k # up[j].k
        /\ Len(down) \in Nat /\ Len(down') = Len(down) + 1
        /\ \A j \in 1..Len(down) : down'[j] = down[j]
        /\ down'[Len(down) + 1] = m
        /\ \A t \in {"HANDSHAKE_RES", "REKEY_RES", "RESET"} :
             /\ InFlight(down, t)' <=> InFlight(down, t) \/ m.type = t
             /\ AtMostOne(down, t) /\ (m.type # t \/ ~ InFlight(down, t)) =>
                  AtMostOne(down, t)'
    BY <1>4, Answering
  <2> HIDE DEF m
  <2>2. InFlight(tasks, "REKEY_REQ") /\ tasks[1].e = pending_ephemeral_key
    BY <1>1, <1>4 DEF InFlight, Going, RekeyIsPending
  <2>3. ~ InFlight(up, "REKEY_REQ") /\ ~ InFlight(down, "REKEY_RES")
    BY <2>2 DEF Going, OneRekey
  <2>4. ~ InFlight(tasks, "REKEY_REQ")' /\ AtMostOne(tasks, "REKEY_REQ")'
    BY <1>1, <1>4 DEF Going, OneRekey
  <2>5. OneRekey'
    BY <1>3, <2>1, <2>3, <2>4 DEF Going, OneRekey
  <2>6. ~ InFlight(tasks, "HANDSHAKE_REQ") /\ ~ InFlight(up, "HANDSHAKE_REQ")
    BY <1>1, <1>4 DEF Going, NoLateHandshake, Overtaken, FirstRequest
  <2>7. NoLateHandshake'
    BY <2>1, <2>6, <1>1, <1>3 DEF Going, NoLateHandshake
  <2>8. pending_ephemeral_key \in Ephs /\ pending_ephemeral_key # None
    BY <2>2, <1>1, RequestFields, NoneAssumption
  <2>9. RekeyIsPending'
    <3>1. \A j \in 1..Len(down') : down'[j].type = "REKEY_RES" => down'[j] = m
      BY <2>1, <2>3 DEF InFlight
    <3>2. k = <<pending_ephemeral_key, m.g>>
      BY <2>1, <2>2
    <3>3. /\ \A j \in 1..Len(tasks') : tasks'[j].type # "REKEY_REQ"
          /\ \A j \in 1..Len(up') : up'[j].type # "REKEY_REQ"
      BY <2>3, <2>4, <1>3 DEF InFlight
    <3> HIDE DEF k
    <3> QED
      BY <3>1, <3>2, <3>3, <2>1, <2>8, <1>2 DEF RekeyIsPending, uavVars
  <2>10. NewKeyUnused' /\ PromotedFirst'
    <3> HIDE DEF k
    <3> QED
      BY <2>1, <1>2 DEF NewKeyUnused, PromotedFirst, uavVars
  <2> QED
    BY <1>2, <2>5, <2>7, <2>9, <2>10 DEF Going, uavVars
<1>5. CASE tasks[1].type = "HANDSHAKE_REQ"
  <2> DEFINE m == HANDSHAKE_RES(k[2])
  <2>1. /\ active' = k /\ pending' = pending /\ m.type = "HANDSHAKE_RES"
        /\ Len(down) \in Nat /\ Len(down') = Len(down) + 1
        /\ \A j \in 1..Len(down) : down'[j] = down[j]
        /\ down'[Len(down) + 1] = m
        /\ \A t \in {"HANDSHAKE_RES", "REKEY_RES", "RESET"} :
             InFlight(down, t)' <=> InFlight(down, t) \/ m.type = t
    BY <1>5, Answering
  <2> HIDE DEF m
  <2>2. InFlight(tasks, "HANDSHAKE_REQ")
    BY <1>1, <1>5 DEF InFlight
  <2>3. Overtaken /\ FirstRequest(tasks) /\ ~ InFlight(up, "HANDSHAKE_REQ")
    BY <2>2, <1>1 DEF Going, NoLateHandshake, Overtaken
  <2>4. ~ InFlight(tasks, "HANDSHAKE_REQ")'
    BY <2>3, <1>1 DEF InFlight, FirstRequest
  <2>5. ~ InFlight(down, "RESET") /\ ~ InFlight(down, "REKEY_RES")
    BY <2>3 DEF Overtaken, OnlyResponses, InFlight
  <2>6. NoLateHandshake'
    BY <1>2, <1>3, <2>1, <2>3, <2>4, <2>5 DEF NoLateHandshake
  <2>7. ~ InFlight(down, "REKEY_RES")'
    BY <2>1, <2>5
  <2>8. OneRekey'
    BY <1>1, <1>3, <2>7 DEF Going, OneRekey, AtMostOne, InFlight
  <2>9. RekeyIsPending'
    BY <1>1, <1>2, <2>7 DEF Going, RekeyIsPending, InFlight, uavVars
  <2>10. NewKeyUnused' /\ PromotedFirst'
    <3>1. session_key # None /\ pending = None
      BY <2>3 DEF Overtaken, Going, Inv, UavInv
    <3> QED
      BY <3>1, <2>1, <1>2 DEF NewKeyUnused, PromotedFirst, uavVars
  <2> QED
    BY <1>2, <2>6, <2>8, <2>9, <2>10 DEF Going, uavVars
<1> QED
  BY <1>1, <1>4, <1>5, RequestFields

\* What sending does: one packet with the key in use, and every now and then, when
\* no rotation is under way, a request for the next one.
LEMMA Sending ==
  ASSUME Inv, SendTelemetry
  PROVE  LET t == TELEMETRY(session_key)
             r == REKEY_REQ(FreshUavEph)
         IN  /\ t.type = "TELEMETRY" /\ t.k = session_key
             /\ r.type = "REKEY_REQ" /\ r.e = FreshUavEph
             /\ UNCHANGED <<phase, ephemeral, session_key, gksVars, down, commands>>
             /\ packets_sent_since_rekey \in Nat
             /\ Len(up) \in Nat
             /\ \A i \in 1..Len(up) : i \in 1..Len(up') /\ up'[i] = up[i]
             /\ Len(up) + 1 \in 1..Len(up') /\ up'[Len(up) + 1] = t
             /\ \/ /\ Len(up') = Len(up) + 1
                   /\ pending_ephemeral_key' = pending_ephemeral_key
                   /\ packets_sent_since_rekey' = packets_sent_since_rekey + 1
                   /\ packets_sent_since_rekey + 1 < RekeyThreshold
                \/ /\ Len(up') = Len(up) + 2 /\ up'[Len(up) + 2] = r
                   /\ pending_ephemeral_key' = FreshUavEph
                   /\ packets_sent_since_rekey + 1 = RekeyThreshold
                   /\ packets_sent_since_rekey' = 0
                   /\ faults' = faults => RekeyQuiet
             /\ \A i \in 1..Len(up') : \/ i \in 1..Len(up) /\ up'[i] = up[i]
                                       \/ i = Len(up) + 1 /\ up'[i] = t
                                       \/ /\ i = Len(up) + 2 /\ up'[i] = r
                                          /\ Len(up') = Len(up) + 2
<1> DEFINE t == TELEMETRY(session_key)
           r == REKEY_REQ(FreshUavEph)
<1>0. Len(up) \in Nat /\ packets_sent_since_rekey \in 0..(RekeyThreshold - 1)
  BY InChannels DEF Inv, UavInv
<1>1. t.type = "TELEMETRY" /\ t.k = session_key /\ r.type = "REKEY_REQ" /\ r.e = FreshUavEph
  BY DEF TELEMETRY, REKEY_REQ
<1>2. t \in UpMsgs /\ r \in UpMsgs
  BY FreshUav DEF UpMsgs, SendTelemetry, Inv, UavInv
<1>3. /\ UNCHANGED <<phase, ephemeral, session_key, gksVars, down, commands>>
      /\ faults' = faults => RekeyQuiet \/ packets_sent_since_rekey = 0
  BY SpentNoFault DEF SendTelemetry, FaultUnless
<1>4. /\ \A i \in 1..Len(up) : up'[i] = up[i]
      /\ up'[Len(up) + 1] = t
      /\ \/ /\ Len(up') = Len(up) + 1
            /\ pending_ephemeral_key' = pending_ephemeral_key
            /\ packets_sent_since_rekey' = packets_sent_since_rekey + 1
            /\ packets_sent_since_rekey + 1 < RekeyThreshold
         \/ /\ Len(up') = Len(up) + 2 /\ up'[Len(up) + 2] = r
            /\ pending_ephemeral_key' = FreshUavEph
            /\ packets_sent_since_rekey + 1 = RekeyThreshold
            /\ packets_sent_since_rekey' = 0
            /\ faults' = faults => RekeyQuiet
  <2>1. CASE packets_sent_since_rekey + 1 < RekeyThreshold
    <3>1. /\ up' = Append(up, t) /\ pending_ephemeral_key' = pending_ephemeral_key
          /\ packets_sent_since_rekey' = packets_sent_since_rekey + 1
      BY <2>1 DEF SendTelemetry
    <3>2. /\ Len(up') = Len(up) + 1 /\ up'[Len(up) + 1] = t
          /\ \A i \in 1..Len(up) : up'[i] = up[i]
      BY <3>1, <1>2, TheChannels, Appended
    <3> QED
      BY <2>1, <3>1, <3>2
  <2>2. CASE ~ (packets_sent_since_rekey + 1 < RekeyThreshold)
    <3>1. packets_sent_since_rekey # 0 /\ packets_sent_since_rekey + 1 = RekeyThreshold
      BY <2>2, <1>0, TheTypes
    <3>2. /\ up' = up \o <<t, r>> /\ pending_ephemeral_key' = FreshUavEph
          /\ packets_sent_since_rekey' = 0
      BY <2>2 DEF SendTelemetry
    <3> HIDE DEF t, r
    <3>3. <<t, r>> \in Seq(UpMsgs) /\ Len(<<t, r>>) = 2
            /\ <<t, r>>[1] = t /\ <<t, r>>[2] = r
      BY <1>2
    <3>4. /\ Len(up') = Len(up) + 2
          /\ \A i \in 1..(Len(up) + 2) :
               up'[i] = IF i <= Len(up) THEN up[i] ELSE <<t, r>>[i - Len(up)]
      BY <3>2, <3>3, TheChannels, ConcatProperties
    <3>5. /\ \A i \in 1..Len(up) : up'[i] = up[i]
          /\ up'[Len(up) + 1] = t /\ up'[Len(up) + 2] = r
      BY <1>0, <3>3, <3>4
    <3> QED
      BY <1>3, <3>1, <3>2, <3>4, <3>5
  <2> QED
    BY <2>1, <2>2
<1> HIDE DEF t, r
<1>5. \A i \in 1..Len(up') : \/ i \in 1..Len(up) /\ up'[i] = up[i]
                             \/ i = Len(up) + 1 /\ up'[i] = t
                             \/ i = Len(up) + 2 /\ up'[i] = r /\ Len(up') = Len(up) + 2
  BY <1>0, <1>4
<1>6. /\ \A i \in 1..Len(up) : i \in 1..Len(up')
      /\ Len(up) + 1 \in 1..Len(up')
  BY <1>0, <1>4
<1>7. packets_sent_since_rekey \in Nat
  BY <1>0, TheTypes
<1> QED
  BY <1>0, <1>1, <1>3, <1>4, <1>5, <1>6, <1>7, Zenon DEF t, r

LEMMA GoingTelemetry ==
  ASSUME Inv, Going, SendTelemetry,
         \/ faults' = faults
         \/ pending_ephemeral_key' = pending_ephemeral_key /\ Len(up') = Len(up) + 1
  PROVE  Going'
<1> DEFINE t == TELEMETRY(session_key)
           r == REKEY_REQ(FreshUavEph)
<1>1. /\ t.type = "TELEMETRY" /\ t.k = session_key
      /\ r.type = "REKEY_REQ" /\ r.e = FreshUavEph
      /\ UNCHANGED <<phase, session_key, active, pending, tasks, down>>
      /\ Len(up) \in Nat
      /\ \A i \in 1..Len(up) : i \in 1..Len(up') /\ up'[i] = up[i]
      /\ Len(up) + 1 \in 1..Len(up') /\ up'[Len(up) + 1] = t
      /\ \/ /\ Len(up') = Len(up) + 1
            /\ pending_ephemeral_key' = pending_ephemeral_key
         \/ /\ Len(up') = Len(up) + 2
            /\ pending_ephemeral_key' = FreshUavEph
            /\ RekeyQuiet
      /\ \A i \in 1..Len(up') : \/ i \in 1..Len(up) /\ up'[i] = up[i]
                                \/ i = Len(up) + 1 /\ up'[i] = t
                                \/ /\ i = Len(up) + 2 /\ up'[i] = r
                                   /\ Len(up') = Len(up) + 2
  BY Sending, TheTypes DEF gksVars
<1> HIDE DEF t, r
<1>2. /\ InFlight(tasks, "HANDSHAKE_REQ")' <=> InFlight(tasks, "HANDSHAKE_REQ")
      /\ InFlight(tasks, "REKEY_REQ")' <=> InFlight(tasks, "REKEY_REQ")
      /\ AtMostOne(tasks, "REKEY_REQ")' <=> AtMostOne(tasks, "REKEY_REQ")
      /\ InFlight(down, "HANDSHAKE_RES")' <=> InFlight(down, "HANDSHAKE_RES")
      /\ InFlight(down, "RESET")' <=> InFlight(down, "RESET")
      /\ InFlight(down, "REKEY_RES")' <=> InFlight(down, "REKEY_RES")
      /\ AtMostOne(down, "REKEY_RES")' <=> AtMostOne(down, "REKEY_RES")
      /\ OnlyResponses' <=> OnlyResponses
  BY <1>1 DEF InFlight, AtMostOne, OnlyResponses
<1>3. InFlight(up, "HANDSHAKE_REQ")' <=> InFlight(up, "HANDSHAKE_REQ")
  BY <1>1 DEF InFlight
<1>4. NoLateHandshake'
  <2>1. FirstRequest(up) => FirstRequest(up)'
    <3> SUFFICES ASSUME FirstRequest(up) PROVE FirstRequest(up)'
      OBVIOUS
    <3>1. Len(up) > 0 /\ 1 \in 1..Len(up) /\ up'[1] = up[1] /\ up' # <<>>
      BY <1>1 DEF FirstRequest
    <3>2. \A i \in 2..Len(up') : up'[i].type # "HANDSHAKE_REQ"
      BY <1>1 DEF FirstRequest
    <3> QED
      BY <3>1, <3>2 DEF FirstRequest
  <2>2. FirstRequest(tasks) => FirstRequest(tasks)'
    BY <1>1 DEF FirstRequest
  <2>3. Overtaken => Overtaken'
    BY <1>1, <1>2, <1>3, <2>1, <2>2 DEF Overtaken
  <2> QED
    BY <1>1, <1>2, <1>3, <2>3 DEF Going, NoLateHandshake
<1>5. CASE Len(up') = Len(up) + 1 /\ pending_ephemeral_key' = pending_ephemeral_key
  <2>1. \A i \in 1..Len(up') : \/ i \in 1..Len(up) /\ up'[i] = up[i]
                               \/ up'[i] = t
    BY <1>1, <1>5
  <2>2. /\ InFlight(up, "REKEY_REQ")' <=> InFlight(up, "REKEY_REQ")
        /\ AtMostOne(up, "REKEY_REQ") => AtMostOne(up, "REKEY_REQ")'
    BY <1>1, <2>1 DEF InFlight, AtMostOne
  <2>3. OneRekey'
    BY <1>2, <2>2 DEF Going, OneRekey
  <2>4. RekeyIsPending'
    BY <1>1, <1>5, <2>1 DEF Going, RekeyIsPending
  <2>5. NewKeyUnused'
    BY <1>1, <2>1 DEF Going, NewKeyUnused
  <2>6. PromotedFirst'
    <3> SUFFICES ASSUME session_key = pending, active # None,
                        NEW j \in 1..Len(up'), up'[j].type = "REKEY_REQ"
                 PROVE  \E i \in 1..(j - 1) : up'[i] = TELEMETRY(session_key)
      BY <1>1, <1>2 DEF Going, PromotedFirst
    <3>1. j \in 1..Len(up) /\ up[j].type = "REKEY_REQ"
      BY <1>1, <2>1
    <3>2. PICK i \in 1..(j - 1) : up[i] = TELEMETRY(session_key)
      BY <3>1 DEF Going, PromotedFirst
    <3>3. i \in 1..Len(up)
      BY <3>1, <3>2, <1>1
    <3> QED
      BY <3>2, <3>3, <1>1
  <2> QED
    BY <1>1, <1>4, <2>3, <2>4, <2>5, <2>6 DEF Going
<1>6. CASE Len(up') = Len(up) + 2 /\ pending_ephemeral_key' = FreshUavEph /\ RekeyQuiet
  <2>1. \A i \in 1..Len(up') : \/ i \in 1..Len(up) /\ up'[i] = up[i] /\ up[i].type # "REKEY_REQ"
                               \/ i = Len(up) + 1 /\ up'[i] = t
                               \/ i = Len(up) + 2 /\ up'[i] = r
    BY <1>1, <1>6 DEF RekeyQuiet, InFlight
  <2>2. AtMostOne(up, "REKEY_REQ")'
    BY <2>1, <1>1 DEF AtMostOne
  <2>3. OneRekey'
    BY <1>2, <1>6, <2>2 DEF Going, OneRekey, RekeyQuiet
  <2>4. RekeyIsPending'
    <3>1. \A j \in 1..Len(up') : up'[j].type = "REKEY_REQ" => up'[j].e = pending_ephemeral_key'
      BY <1>1, <1>6, <2>1
    <3> QED
      BY <3>1, <1>1, <1>6 DEF RekeyIsPending, RekeyQuiet, InFlight
  <2>5. NewKeyUnused'
    BY <1>1, <2>1 DEF Going, NewKeyUnused
  <2>6. PromotedFirst'
    <3>1. \A j \in 1..Len(up') : up'[j].type = "REKEY_REQ" => Len(up) + 1 \in 1..(j - 1)
      BY <1>1, <2>1
    <3> QED
      BY <3>1, <1>1, <1>2, <1>6 DEF PromotedFirst, RekeyQuiet, t
  <2> QED
    BY <1>1, <1>4, <2>3, <2>4, <2>5, <2>6 DEF Going
<1> QED
  BY <1>1, <1>5, <1>6

\* The UAV reads a packet: a RESET ends its session, the answer to its last request
\* gives it the key that the GKS holds as the pending one.
LEMMA GoingListen ==
  ASSUME Inv, Going, ListenForAcks
  PROVE  Connecting' \/ Going'
<1>1. /\ down # <<>> /\ down' = Tail(down)
      /\ UNCHANGED <<active, pending, tasks, up>>
  BY DEF ListenForAcks, gksVars
<1>2. /\ \A i \in 1..Len(down') : i + 1 \in 1..Len(down) /\ down'[i] = down[i + 1]
      /\ Head(down) = down[1] /\ down[1] \in DownMsgs /\ 1 \in 1..Len(down)
      /\ \A t \in {"HANDSHAKE_RES", "REKEY_RES", "RESET"} :
           /\ InFlight(down, t)' => InFlight(down, t)
           /\ AtMostOne(down, t) => AtMostOne(down, t)'
           /\ AtMostOne(down, t) /\ down[1].type = t => ~ InFlight(down, t)'
  BY <1>1, DownRead
<1>3. /\ InFlight(tasks, "HANDSHAKE_REQ")' <=> InFlight(tasks, "HANDSHAKE_REQ")
      /\ InFlight(up, "HANDSHAKE_REQ")' <=> InFlight(up, "HANDSHAKE_REQ")
      /\ InFlight(tasks, "REKEY_REQ")' <=> InFlight(tasks, "REKEY_REQ")
      /\ InFlight(up, "REKEY_REQ")' <=> InFlight(up, "REKEY_REQ")
      /\ AtMostOne(tasks, "REKEY_REQ")' <=> AtMostOne(tasks, "REKEY_REQ")
      /\ AtMostOne(up, "REKEY_REQ")' <=> AtMostOne(up, "REKEY_REQ")
  BY <1>1 DEF InFlight, AtMostOne
<1>4. CASE down[1].type = "RESET"
  <2>1. phase' = "idle"
    BY <1>2, <1>4 DEF ListenForAcks
  <2>2. InFlight(down, "RESET") /\ ~ OnlyResponses
    BY <1>2, <1>4 DEF InFlight, OnlyResponses
  <2>3. HandshakeQuiet
    BY <2>2 DEF Going, NoLateHandshake, Overtaken, HandshakeQuiet
  <2>4. HandshakeQuiet'
    BY <2>3, <1>2, <1>3 DEF HandshakeQuiet
  <2> QED
    BY <2>1, <2>4 DEF Connecting
<1>5. CASE down[1].type = "REKEY_RES" /\ pending_ephemeral_key # None
  <2>1. /\ session_key' = <<pending_ephemeral_key, down[1].g>>
        /\ pending_ephemeral_key' = None /\ phase' = phase
    BY <1>2, <1>5 DEF ListenForAcks
  <2>2. InFlight(down, "REKEY_RES") /\ ~ OnlyResponses
    BY <1>2, <1>5 DEF InFlight, OnlyResponses
  <2>3. /\ ~ InFlight(tasks, "HANDSHAKE_REQ") /\ ~ InFlight(up, "HANDSHAKE_REQ")
        /\ ~ InFlight(tasks, "REKEY_REQ") /\ ~ InFlight(up, "REKEY_REQ")
        /\ ~ InFlight(down, "REKEY_RES")'
    BY <2>2, <1>2, <1>5 DEF Going, NoLateHandshake, Overtaken, OneRekey
  <2>4. pending = session_key' \/ pending = None
    BY <2>1, <1>2, <1>5 DEF Going, RekeyIsPending
  <2>5. NoLateHandshake'
    BY <2>3, <1>1, <1>2, <1>3 DEF Going, NoLateHandshake
  <2>6. OneRekey' /\ RekeyIsPending'
    BY <2>3, <1>2, <1>3 DEF Going, OneRekey, RekeyIsPending, InFlight
  <2>7. NewKeyUnused'
    BY <2>4, <1>1 DEF NewKeyUnused
  <2>8. PromotedFirst'
    BY <2>3, <1>3 DEF PromotedFirst, InFlight
  <2> QED
    BY <2>1, <2>5, <2>6, <2>7, <2>8 DEF Going
<1>6. CASE ~ (down[1].type = "RESET")
           /\ ~ (down[1].type = "REKEY_RES" /\ pending_ephemeral_key # None)
  <2>1. UNCHANGED <<phase, session_key, pending_ephemeral_key>>
    BY <1>2, <1>6 DEF ListenForAcks
  <2>2. OnlyResponses => OnlyResponses'
    BY <1>2 DEF OnlyResponses
  <2>3. Overtaken => Overtaken'
    BY <2>1, <2>2, <1>1, <1>3 DEF Overtaken, FirstRequest
  <2>4. NoLateHandshake'
    BY <2>3, <1>1, <1>2, <1>3 DEF Going, NoLateHandshake
  <2>5. OneRekey'
    BY <1>2, <1>3 DEF Going, OneRekey
  <2>6. RekeyIsPending'
    BY <2>1, <1>1, <1>2 DEF Going, RekeyIsPending
  <2>7. NewKeyUnused' /\ PromotedFirst'
    BY <2>1, <1>1 DEF Going, NewKeyUnused, PromotedFirst, InFlight
  <2> QED
    BY <2>1, <2>4, <2>5, <2>6, <2>7 DEF Going
<1> QED
  BY <1>4, <1>5, <1>6

\* A secure session goes on, until a RESET ends it.
LEMMA GoingStep ==
  ASSUME Inv, Going, Next, faults' = faults
  PROVE  Connecting' \/ Going'
<1>1. ASSUME NEW i \in 1..MaxTasks, AnswerRequest(i) PROVE Going'
  BY <1>1, GoingAnswer
<1>2. ASSUME ResetInterval PROVE Going'
  BY <1>2, GoingSame DEF ResetInterval, uavVars
<1>3. ~ PerformHandshake /\ ~ AwaitResponse /\ ~ HandshakeTimeout
  BY DEF Going, PerformHandshake, AwaitResponse, HandshakeTimeout
<1>4. ~ Lose /\ ~ Delay /\ ~ GksRestart /\ ~ UavRestart
  BY SpentNoFault DEF Lose, Delay, GksRestart, UavRestart
<1> QED
  BY <1>1, <1>2, <1>3, <1>4, GoingTelemetry, GoingListen, GoingReceive, GoingNoSession,
     GoingSession, GoingTimeout, GoingCommand DEF Next

-----------------------------------------------------------------------------
(* Until the session is secure again: one situation at a time. *)

\* A message of another type than the handshake's is added to the packets in flight.
LEMMA DownMore ==
  ASSUME Inv, NEW m \in DownMsgs, down' = Append(down, m)
  PROVE  /\ Len(down) \in Nat /\ Len(down') = Len(down) + 1
         /\ \A i \in 1..Len(down) : down'[i] = down[i]
         /\ down'[Len(down) + 1] = m
         /\ \A i \in 1..Len(down') : \/ i \in 1..Len(down) /\ down'[i] = down[i]
                                     \/ i = Len(down) + 1 /\ down'[i] = m
         /\ down' # <<>> /\ (down # <<>> => down'[1] = down[1])
         /\ m.type # "HANDSHAKE_RES" =>
              (InFlight(down, "HANDSHAKE_RES")' <=> InFlight(down, "HANDSHAKE_RES"))
<1>1. /\ Len(down) \in Nat /\ Len(down') = Len(down) + 1
      /\ \A i \in 1..Len(down) : down'[i] = down[i]
      /\ down'[Len(down) + 1] = m
  BY TheChannels, Appended
<1>2. \A i \in 1..Len(down') : \/ i \in 1..Len(down) /\ down'[i] = down[i]
                               \/ i = Len(down) + 1 /\ down'[i] = m
  BY <1>1
<1>3. down' # <<>> /\ (down # <<>> => down'[1] = down[1])
  <2>1. ASSUME down # <<>> PROVE Len(down) > 0
    BY <2>1, TheChannels
  <2>2. down # <<>> => 1 \in 1..Len(down)
    BY <1>1, <2>1
  <2>3. Len(down') > 0
    BY <1>1
  <2> QED
    BY <1>1, <2>2, <2>3
<1>4. m.type # "HANDSHAKE_RES" =>
        (InFlight(down, "HANDSHAKE_RES")' <=> InFlight(down, "HANDSHAKE_RES"))
  BY TheChannels, InAppended DEF InFlight
<1> QED
  BY <1>1, <1>2, <1>3, <1>4

\* The steps that neither the handshake nor the UAV's packets have a part in.
LEMMA CommandDown ==
  ASSUME Inv, SendCommand
  PROVE  /\ COMMAND(active) \in DownMsgs /\ COMMAND(active).type = "COMMAND"
         /\ down' = Append(down, COMMAND(active)) /\ active # None
         /\ UNCHANGED <<uavVars, active, pending, last_seen, tasks, up>>
BY DEF SendCommand, gksVars, DownMsgs, COMMAND, Inv, GksInv

LEMMA NoSessionDown ==
  ASSUME Inv, TelemetryNoSession
  PROVE  /\ \/ down' = down
            \/ RESET \in DownMsgs /\ RESET.type = "RESET" /\ down' = Append(down, RESET)
         /\ UNCHANGED <<uavVars, active, pending, last_seen, tasks>>
         /\ up # <<>> /\ up' = Tail(up) /\ Head(up).type = "TELEMETRY" /\ active = None
BY DEF TelemetryNoSession, DownMsgs, RESET

LEMMA NoFaultHere ==
  ASSUME Inv, Next, faults' = faults
  PROVE  /\ ~ Lose /\ ~ Delay /\ ~ GksRestart /\ ~ UavRestart
         /\ HandshakeTimeout => HandshakeQuiet
         /\ SessionTimeout => HandshakeQuiet
BY SpentNoFault DEF Lose, Delay, GksRestart, UavRestart, HandshakeTimeout, SessionTimeout,
   FaultUnless

LEMMA QuietStep ==
  ASSUME Inv, phase # "secure", HandshakeQuiet, Next, faults' = faults
  PROVE  Connecting'
<1>1. CASE PerformHandshake
  <2> DEFINE m == HANDSHAKE_REQ(FreshUavEph)
  <2>1. m \in UpMsgs /\ m.type = "HANDSHAKE_REQ"
    BY <1>1, FreshUav DEF UpMsgs, HANDSHAKE_REQ, PerformHandshake
  <2>2. /\ up' = Append(up, m) /\ phase' = "waiting" /\ m = HANDSHAKE_REQ(ephemeral')
        /\ UNCHANGED <<tasks, down>>
    BY <1>1 DEF PerformHandshake, gksVars
  <2> HIDE DEF m
  <2>3. /\ Len(up) \in Nat /\ Len(up') = Len(up) + 1
        /\ \A i \in 1..Len(up) : up'[i] = up[i]
        /\ up'[Len(up) + 1] = m
    BY <2>1, <2>2, TheChannels, Appended
  <2>4. \A i \in 1..(Len(up') - 1) : up'[i].type # "HANDSHAKE_REQ"
    BY <2>3 DEF HandshakeQuiet, InFlight
  <2>5. up' # <<>> /\ up'[Len(up')] = HANDSHAKE_REQ(ephemeral')
    BY <2>2, <2>3
  <2>6. LastRequest(up)'
    BY <2>4, <2>5 DEF LastRequest
  <2> QED
    BY <2>2, <2>6 DEF Connecting, Requested, HandshakeQuiet, InFlight
<1>2. CASE AwaitResponse
  <2>1. /\ down # <<>> /\ down' = Tail(down) /\ UNCHANGED <<up, tasks>>
    BY <1>2 DEF AwaitResponse, gksVars
  <2>2. /\ Head(down) = down[1] /\ 1 \in 1..Len(down)
        /\ InFlight(down, "HANDSHAKE_RES")' => InFlight(down, "HANDSHAKE_RES")
    BY <2>1, DownRead
  <2>3. phase' = phase
    BY <2>2, <1>2 DEF AwaitResponse, HandshakeQuiet, InFlight
  <2> QED
    BY <2>1, <2>2, <2>3 DEF Connecting, HandshakeQuiet, InFlight
<1>3. CASE HandshakeTimeout
  BY <1>3 DEF HandshakeTimeout, gksVars, Connecting, HandshakeQuiet, InFlight
<1>4. CASE ReceiveRequest
  <2>1. up # <<>> /\ up' = Tail(up) /\ UNCHANGED <<uavVars, down>>
    BY <1>4 DEF ReceiveRequest
  <2>2. /\ Head(up) = up[1] /\ 1 \in 1..Len(up)
        /\ InFlight(up, "HANDSHAKE_REQ")' => InFlight(up, "HANDSHAKE_REQ")
    BY <2>1, UpRead
  <2>3. up[1].type = "REKEY_REQ"
    BY <1>4, <2>2 DEF ReceiveRequest, HandshakeQuiet, InFlight
  <2>4. ~ InFlight(tasks, "HANDSHAKE_REQ")'
    <3>1. tasks' = tasks \/ tasks' = Append(tasks, up[1])
      BY <1>4, <2>2 DEF ReceiveRequest
    <3>2. CASE tasks' = Append(tasks, up[1])
      BY <3>2, <2>1, <2>3, RequestMoved DEF HandshakeQuiet
    <3> QED
      BY <3>1, <3>2 DEF HandshakeQuiet, InFlight
  <2> QED
    BY <2>1, <2>2, <2>4 DEF Connecting, HandshakeQuiet, InFlight, uavVars
<1>5. ASSUME NEW i \in 1..MaxTasks, AnswerRequest(i) PROVE Connecting'
  <2>1. /\ tasks[1] \in Requests /\ 1 \in 1..Len(tasks)
        /\ InFlight(tasks, "HANDSHAKE_REQ")' => InFlight(tasks, "HANDSHAKE_REQ")
    BY <1>5, OldestAnswered
  <2>2. tasks[1].type = "REKEY_REQ"
    BY <2>1, RequestFields DEF HandshakeQuiet, InFlight
  <2>3. /\ InFlight(down, "HANDSHAKE_RES")' => InFlight(down, "HANDSHAKE_RES")
        /\ UNCHANGED <<uavVars, up>>
    BY <1>5, <2>2, Answering
  <2> QED
    BY <2>1, <2>3 DEF Connecting, HandshakeQuiet, InFlight, uavVars
<1>6. CASE TelemetryNoSession
  <2>1. InFlight(down, "HANDSHAKE_RES")' => InFlight(down, "HANDSHAKE_RES")
    BY <1>6, NoSessionDown, DownMore DEF InFlight
  <2>2. InFlight(up, "HANDSHAKE_REQ")' => InFlight(up, "HANDSHAKE_REQ")
    BY <1>6, NoSessionDown, UpRead
  <2> QED
    BY <1>6, <2>1, <2>2, NoSessionDown DEF Connecting, HandshakeQuiet, InFlight, uavVars
<1>7. CASE TelemetryWithSession
  <2>1. InFlight(up, "HANDSHAKE_REQ")' => InFlight(up, "HANDSHAKE_REQ")
    BY <1>7, UpRead DEF TelemetryWithSession
  <2> QED
    BY <1>7, <2>1 DEF TelemetryWithSession, Connecting, HandshakeQuiet, InFlight, uavVars
<1>8. CASE ResetInterval \/ SessionTimeout
  BY <1>8 DEF ResetInterval, SessionTimeout, Connecting, HandshakeQuiet, InFlight, uavVars
<1>9. CASE SendCommand
  <2>1. InFlight(down, "HANDSHAKE_RES")' => InFlight(down, "HANDSHAKE_RES")
    BY <1>9, CommandDown, DownMore
  <2> QED
    BY <1>9, <2>1, CommandDown DEF Connecting, HandshakeQuiet, InFlight, uavVars
<1>10. ~ SendTelemetry /\ ~ ListenForAcks
  BY DEF SendTelemetry, ListenForAcks
<1> QED
  BY <1>1, <1>2, <1>3, <1>4, <1>5, <1>6, <1>7, <1>8, <1>9, <1>10, NoFaultHere DEF Next

\* The last request of a channel is still the last when a packet before it is read.
LEMMA LastRead ==
  ASSUME Inv, NEW c \in Seq(UpMsgs), LastRequest(c)
  PROVE  /\ Len(c) \in Nat /\ Len(c) > 0 /\ InFlight(c, "HANDSHAKE_REQ")
         /\ c[1].type # "HANDSHAKE_REQ" => LastRequest(Tail(c))
         /\ c[1].type = "HANDSHAKE_REQ" => c = <<HANDSHAKE_REQ(ephemeral)>>
<1> DEFINE r == HANDSHAKE_REQ(ephemeral)
<1>1. r.type = "HANDSHAKE_REQ"
  BY DEF HANDSHAKE_REQ
<1>2. c # <<>> /\ c[Len(c)] = r /\ \A i \in 1..(Len(c) - 1) : c[i].type # "HANDSHAKE_REQ"
  BY DEF LastRequest
<1>3. /\ Len(c) \in Nat /\ Len(c) > 0 /\ Len(Tail(c)) = Len(c) - 1
      /\ \A i \in 1..Len(Tail(c)) : Tail(c)[i] = c[i + 1]
  BY <1>2, Tailed
<1> HIDE DEF r
<1>4. ASSUME c[1].type # "HANDSHAKE_REQ"
      PROVE  LastRequest(Tail(c))
  <2>1. Len(c) > 1
    BY <1>1, <1>2, <1>3, <1>4
  <2>2. Len(Tail(c)) > 0 /\ Tail(c)[Len(Tail(c))] = r
    BY <2>1, <1>2, <1>3
  <2>3. \A i \in 1..(Len(Tail(c)) - 1) : Tail(c)[i].type # "HANDSHAKE_REQ"
    BY <1>2, <1>3
  <2> DEFINE d == Tail(c)
  <2>4. Len(d) > 0
    BY <2>2
  <2> HIDE DEF d
  <2>5. d # <<>>
    BY <2>4
  <2> HIDE DEF r
  <2> QED
    BY <2>2, <2>3, <2>5, Zenon DEF LastRequest, r, d
<1>5. ASSUME c[1].type = "HANDSHAKE_REQ"
      PROVE  c = <<r>>
  <2>1. Len(c) = 1
    BY <1>2, <1>3, <1>5
  <2>2. c[1] = r
    BY <2>1, <1>2
  <2> QED
    BY <2>1, <2>2
<1>6. InFlight(c, "HANDSHAKE_REQ")
  <2>1. Len(c) \in 1..Len(c)
    BY <1>3
  <2> QED
    BY <2>1, <1>1, <1>2 DEF InFlight
<1> QED
  BY <1>3, <1>4, <1>5, <1>6 DEF r

LEMMA RequestedStep ==
  ASSUME Inv, Requested, Next, faults' = faults
  PROVE  Connecting'
<1> DEFINE r == HANDSHAKE_REQ(ephemeral)
<1>0. r.type = "HANDSHAKE_REQ" /\ r.e = ephemeral
  BY DEF HANDSHAKE_REQ
<1>1. phase = "waiting" /\ ~ InFlight(down, "HANDSHAKE_RES")
  BY DEF Requested
<1>2. /\ up \in Seq(UpMsgs) /\ down \in Seq(DownMsgs) /\ tasks \in Seq(Requests)
      /\ tasks \in Seq(UpMsgs)
  <2>1. Requests \subseteq UpMsgs
    BY RequestFields
  <2> QED
    BY <2>1, TheChannels
<1> HIDE DEF r
\* The request is in flight still, ...
<1>3. ASSUME UNCHANGED <<phase, ephemeral, tasks>>, ~ InFlight(down, "HANDSHAKE_RES")',
             up' = up \/ (up # <<>> /\ up[1].type # "HANDSHAKE_REQ" /\ up' = Tail(up))
      PROVE  Connecting'
  <2>1. CASE LastRequest(up) /\ ~ InFlight(tasks, "HANDSHAKE_REQ")
    <3>1. LastRequest(up) /\ (up[1].type # "HANDSHAKE_REQ" => LastRequest(Tail(up)))
      BY <2>1, <1>2, LastRead
    <3>2. LastRequest(up)'
      <4>1. CASE up' = up
        BY <4>1, <3>1, <1>3 DEF LastRequest
      <4>2. CASE up[1].type # "HANDSHAKE_REQ" /\ up' = Tail(up)
        BY <4>2, <3>1, <1>3 DEF LastRequest
      <4> QED
        BY <4>1, <4>2, <1>3
    <3> QED
      BY <3>2, <2>1, <1>1, <1>3 DEF Connecting, Requested, InFlight
  <2>2. CASE LastRequest(tasks) /\ up = <<>>
    BY <2>2, <1>1, <1>3 DEF Connecting, Requested, LastRequest
  <2> QED
    BY <2>1, <2>2 DEF Requested
<1>4. CASE AwaitResponse
  <2>1. /\ down # <<>> /\ down' = Tail(down) /\ UNCHANGED <<up, tasks>>
    BY <1>4 DEF AwaitResponse, gksVars
  <2>2. /\ Head(down) = down[1] /\ 1 \in 1..Len(down)
        /\ InFlight(down, "HANDSHAKE_RES")' => InFlight(down, "HANDSHAKE_RES")
    BY <2>1, DownRead
  <2>3. UNCHANGED <<phase, ephemeral>>
    BY <2>2, <1>1, <1>4 DEF AwaitResponse, InFlight
  <2> QED
    BY <2>1, <2>2, <2>3, <1>1, <1>3
\* ... or the GKS reads it, ...
<1>5. CASE ReceiveRequest
  <2>1. /\ up # <<>> /\ up' = Tail(up) /\ UNCHANGED <<uavVars, down>> /\ Head(up) = up[1]
        /\ tasks' = IF up[1].type = "REKEY_REQ" /\ active = None
                      THEN tasks ELSE Append(tasks, up[1])
        /\ up[1].type \in {"HANDSHAKE_REQ", "REKEY_REQ"}
    BY <1>5, UpRead DEF ReceiveRequest
  <2>2. LastRequest(up) /\ ~ InFlight(tasks, "HANDSHAKE_REQ")
    BY <2>1 DEF Requested
  <2>3. ~ InFlight(down, "HANDSHAKE_RES")' /\ UNCHANGED <<phase, ephemeral>>
    BY <2>1, <1>1 DEF InFlight, uavVars
  <2>4. CASE up[1].type = "REKEY_REQ"
    <3>1. LastRequest(up)'
      <4>1. LastRequest(Tail(up))
        BY <2>2, <2>4, <1>2, LastRead
      <4> QED
        BY <4>1, <2>1, <2>3 DEF LastRequest
    <3>2. ~ InFlight(tasks, "HANDSHAKE_REQ")'
      <4>1. CASE tasks' = Append(tasks, up[1])
        BY <4>1, <2>1, <2>2, <2>4, RequestMoved
      <4> QED
        BY <4>1, <2>1, <2>2 DEF InFlight
    <3> QED
      BY <3>1, <3>2, <2>3, <1>1 DEF Connecting, Requested
  <2>5. CASE up[1].type = "HANDSHAKE_REQ"
    <3>1. up = <<r>>
      BY <2>2, <2>5, <1>2, LastRead DEF r
    <3>2. up' = <<>> /\ up[1] = r
      BY <2>1, <3>1
    <3>3. /\ Len(tasks) \in Nat /\ Len(tasks') = Len(tasks) + 1
          /\ \A i \in 1..Len(tasks) : tasks'[i] = tasks[i]
          /\ tasks'[Len(tasks) + 1] = r
      BY <2>1, <2>5, <3>2, RequestMoved
    <3>4. \A i \in 1..(Len(tasks') - 1) : tasks'[i].type # "HANDSHAKE_REQ"
      BY <3>3, <2>2 DEF InFlight
    <3>5. tasks' # <<>> /\ tasks'[Len(tasks')] = r
      BY <3>3
    <3>6. LastRequest(tasks)'
      BY <3>4, <3>5, <2>3 DEF LastRequest, r
    <3> QED
      BY <3>2, <3>6, <2>3, <1>1 DEF Connecting, Requested
  <2> QED
    BY <2>1, <2>4, <2>5
\* ... or answers it, when it is the oldest one.
<1>6. ASSUME NEW i \in 1..MaxTasks, AnswerRequest(i) PROVE Connecting'
  <2>1. /\ tasks[1] \in Requests /\ 1 \in 1..Len(tasks) /\ tasks # <<>>
        /\ tasks' = Tail(tasks)
        /\ InFlight(tasks, "HANDSHAKE_REQ")' => InFlight(tasks, "HANDSHAKE_REQ")
    BY <1>6, OldestAnswered
  <2>2. UNCHANGED <<uavVars, up>>
    BY <1>6, Answering
  <2>3. CASE tasks[1].type = "REKEY_REQ"
    <3>1. ~ InFlight(down, "HANDSHAKE_RES")'
      BY <1>1, <1>6, <2>3, Answering
    <3>2. CASE LastRequest(up) /\ ~ InFlight(tasks, "HANDSHAKE_REQ")
      <4>1. LastRequest(up)'
        BY <3>2, <2>2 DEF LastRequest, uavVars
      <4> QED
        BY <4>1, <3>1, <3>2, <2>1, <2>2, <1>1 DEF Connecting, Requested, uavVars
    <3>3. CASE LastRequest(tasks) /\ up = <<>>
      <4>1. LastRequest(Tail(tasks))
        BY <3>3, <2>3, <1>2, LastRead
      <4>2. LastRequest(tasks)'
        BY <4>1, <2>1, <2>2 DEF LastRequest, uavVars
      <4> QED
        BY <4>2, <3>1, <3>3, <2>2, <1>1 DEF Connecting, Requested, uavVars
    <3> QED
      BY <3>2, <3>3 DEF Requested
  <2>4. CASE tasks[1].type = "HANDSHAKE_REQ"
    <3>1. LastRequest(tasks) /\ up = <<>>
      BY <2>1, <2>4 DEF Requested, InFlight
    <3>2. tasks = <<r>>
      BY <3>1, <2>4, <1>2, LastRead DEF r
    <3>3. tasks' = <<>> /\ up' = <<>>
      BY <3>1, <3>2, <2>1, <2>2
    <3> DEFINE m == HANDSHAKE_RES(<<tasks[1].e, FreshGksEph>>[2])
    <3>4. m.type = "HANDSHAKE_RES" /\ m \in DownMsgs /\ down' = Append(down, m)
      BY <1>6, <2>4, Answering
    <3> HIDE DEF m
    <3>5. /\ Len(down) \in Nat /\ Len(down') = Len(down) + 1
          /\ down'[Len(down) + 1] = m
          /\ \A j \in 1..Len(down) : down'[j] = down[j]
      BY <3>4, DownMore
    <3> DEFINE n == Len(down) + 1
    <3>6. /\ n \in 1..Len(down') /\ down'[n].type = "HANDSHAKE_RES"
          /\ \A j \in 1..(n - 1) : down'[j].type # "HANDSHAKE_RES"
          /\ \A j \in (n + 1)..Len(down') : down'[j].type = "COMMAND"
      BY <3>4, <3>5, <1>1 DEF InFlight
    <3> HIDE DEF n
    <3>7. (\E j \in 1..Len(down) : RespondedAt(j))'
      BY <3>6 DEF RespondedAt
    <3> QED
      BY <3>3, <3>7, <2>2, <1>1 DEF Connecting, Responded, NoRequest, uavVars
  <2> QED
    BY <2>1, <2>3, <2>4, RequestFields
<1>7. CASE TelemetryNoSession
  <2>1. InFlight(down, "HANDSHAKE_RES")' => InFlight(down, "HANDSHAKE_RES")
    BY <1>7, NoSessionDown, DownMore DEF InFlight
  <2>2. up # <<>> /\ up[1].type = "TELEMETRY" /\ up' = Tail(up)
    BY <1>7, NoSessionDown, UpRead
  <2> QED
    BY <1>1, <1>3, <1>7, <2>1, <2>2, NoSessionDown DEF uavVars
<1>8. CASE TelemetryWithSession
  <2>1. up # <<>> /\ up[1].type = "TELEMETRY" /\ up' = Tail(up)
    BY <1>8, UpRead DEF TelemetryWithSession
  <2> QED
    BY <1>1, <1>3, <1>8, <2>1 DEF TelemetryWithSession, InFlight, uavVars
<1>9. CASE ResetInterval
  BY <1>1, <1>3, <1>9 DEF ResetInterval, InFlight, uavVars
<1>10. CASE SendCommand
  <2>1. ~ InFlight(down, "HANDSHAKE_RES")'
    BY <1>1, <1>10, CommandDown, DownMore
  <2> QED
    BY <1>3, <1>10, <2>1, CommandDown DEF uavVars
<1>11. ~ HandshakeQuiet
  BY <1>2, LastRead DEF Requested, HandshakeQuiet
<1>12. ~ PerformHandshake /\ ~ SendTelemetry /\ ~ ListenForAcks
  BY <1>1 DEF PerformHandshake, SendTelemetry, ListenForAcks
<1> QED
  BY <1>4, <1>5, <1>6, <1>7, <1>8, <1>9, <1>10, <1>11, <1>12, NoFaultHere DEF Next

LEMMA RespondedStep ==
  ASSUME Inv, Responded, Next, faults' = faults
  PROVE  Connecting' \/ Going'
<1>1. /\ phase = "waiting" /\ tasks = <<>> /\ up = <<>>
      /\ Len(down) \in Nat
  BY TheChannels DEF Responded, NoRequest
<1>2. PICK j \in 1..Len(down) : RespondedAt(j)
  BY DEF Responded
<1>3. /\ down[j].type = "HANDSHAKE_RES"
      /\ \A i \in 1..(j - 1) : down[i].type # "HANDSHAKE_RES"
      /\ \A i \in (j + 1)..Len(down) : down[i].type = "COMMAND"
  BY <1>2 DEF RespondedAt
<1>4. ASSUME UNCHANGED <<phase, tasks, up>>, NEW n \in 1..Len(down'),
             /\ down'[n].type = "HANDSHAKE_RES"
             /\ \A i \in 1..(n - 1) : down'[i].type # "HANDSHAKE_RES"
             /\ \A i \in (n + 1)..Len(down') : down'[i].type = "COMMAND"
      PROVE  Connecting'
  <2>1. (\E x \in 1..Len(down) : RespondedAt(x))'
    BY <1>4 DEF RespondedAt
  <2> QED
    BY <2>1, <1>1, <1>4 DEF Connecting, Responded, NoRequest
<1>5. CASE AwaitResponse
  <2>1. /\ down # <<>> /\ down' = Tail(down) /\ UNCHANGED <<up, tasks>>
    BY <1>5 DEF AwaitResponse, gksVars
  <2>2. /\ Head(down) = down[1] /\ Len(down') = Len(down) - 1
        /\ \A i \in 1..Len(down') : i + 1 \in 1..Len(down) /\ down'[i] = down[i + 1]
    BY <2>1, DownRead
  <2>3. CASE j = 1
    <3>1. phase' = "secure"
      BY <2>2, <2>3, <1>3, <1>5 DEF AwaitResponse
    <3>2. \A i \in 1..Len(down') : down'[i].type = "COMMAND"
      BY <2>2, <2>3, <1>3
    <3>3. up' = <<>> /\ tasks' = <<>>
      BY <2>1, <1>1
    <3>4. NoLateHandshake' /\ OneRekey' /\ RekeyIsPending'
      BY <3>2, <3>3 DEF NoLateHandshake, OneRekey, RekeyIsPending, AtMostOne, InFlight
    <3>5. NewKeyUnused' /\ PromotedFirst'
      BY <3>3 DEF NewKeyUnused, PromotedFirst, InFlight
    <3> QED
      BY <3>1, <3>4, <3>5 DEF Going
  <2>4. CASE j # 1
    <3>1. j - 1 \in 1..Len(down') /\ (j - 1) + 1 = j /\ 1 \in 1..(j - 1)
      BY <2>2, <2>4, <1>1
    <3>2. phase' = phase
      BY <2>2, <3>1, <1>3, <1>5 DEF AwaitResponse
    <3>3. down'[j - 1].type = "HANDSHAKE_RES"
      BY <2>2, <3>1, <1>3
    <3>4. \A i \in 1..((j - 1) - 1) : down'[i].type # "HANDSHAKE_RES"
      <4> TAKE i \in 1..((j - 1) - 1)
      <4>1. i \in 1..Len(down') /\ i + 1 \in 1..(j - 1)
        BY <3>1
      <4> QED
        BY <4>1, <2>2, <1>3
    <3>5. \A i \in ((j - 1) + 1)..Len(down') : down'[i].type = "COMMAND"
      <4> TAKE i \in ((j - 1) + 1)..Len(down')
      <4>1. i \in 1..Len(down') /\ i + 1 \in (j + 1)..Len(down)
        BY <2>2, <3>1, <1>1
      <4> QED
        BY <4>1, <2>2, <1>3
    <3> QED
      BY <2>1, <3>1, <3>2, <3>3, <3>4, <3>5, <1>4
  <2> QED
    BY <2>3, <2>4
<1>6. CASE ResetInterval
  BY <1>3, <1>4, <1>6 DEF ResetInterval, uavVars
<1>7. CASE SendCommand
  <2> DEFINE m == COMMAND(active)
  <2>1. m \in DownMsgs /\ m.type = "COMMAND" /\ down' = Append(down, m)
    BY <1>7, CommandDown
  <2> HIDE DEF m
  <2>2. /\ Len(down') = Len(down) + 1 /\ down'[Len(down) + 1] = m
        /\ \A i \in 1..Len(down) : down'[i] = down[i]
    BY <2>1, DownMore
  <2>3. /\ j \in 1..Len(down') /\ down'[j].type = "HANDSHAKE_RES"
        /\ \A i \in 1..(j - 1) : down'[i].type # "HANDSHAKE_RES"
        /\ \A i \in (j + 1)..Len(down') : down'[i].type = "COMMAND"
    BY <2>1, <2>2, <1>1, <1>3
  <2> QED
    BY <1>4, <1>7, <2>3, CommandDown DEF uavVars
<1>8. ~ HandshakeQuiet
  BY <1>2, <1>3 DEF HandshakeQuiet, InFlight
<1>9. ~ \E i \in 1..MaxTasks : AnswerRequest(i)
  BY <1>1 DEF AnswerRequest
<1>10. /\ ~ PerformHandshake /\ ~ SendTelemetry /\ ~ ListenForAcks
       /\ ~ ReceiveRequest /\ ~ TelemetryNoSession /\ ~ TelemetryWithSession
  BY <1>1 DEF PerformHandshake, SendTelemetry, ListenForAcks, ReceiveRequest,
     TelemetryNoSession, TelemetryWithSession
<1> QED
  BY <1>5, <1>6, <1>7, <1>8, <1>9, <1>10, NoFaultHere DEF Next

LEMMA TwoInARow ==
  ASSUME NEW q, NEW r
  PROVE  Append(<<q>>, r) = <<q, r>> /\ Tail(<<q, r>>) = <<r>>
<1> DEFINE a == <<q>>
           b == <<q, r>>
           S == {q, r}
<1>1. a \in Seq(S) /\ b \in Seq(S) /\ <<r>> \in Seq(S) /\ q \in S /\ r \in S
  OBVIOUS
<1>2. a # <<>> /\ b # <<>> /\ Len(a) = 1 /\ Len(b) = 2 /\ Len(<<r>>) = 1
      /\ a[1] = q /\ b[1] = q /\ b[2] = r /\ <<r>>[1] = r
  OBVIOUS
<1> HIDE DEF a, b, S
<1>3. /\ Append(a, r) \in Seq(S) /\ Len(Append(a, r)) = 2
      /\ Append(a, r)[1] = q /\ Append(a, r)[2] = r
  <2>1. /\ Append(a, r) \in Seq(S) /\ Len(Append(a, r)) = Len(a) + 1
        /\ \A i \in 1..Len(a) : Append(a, r)[i] = a[i]
        /\ Append(a, r)[Len(a) + 1] = r
    BY <1>1, Appended
  <2>2. Append(a, r)[1] = q
    BY <2>1, <1>2
  <2> QED
    BY <2>1, <2>2, <1>2
<1>4. Append(a, r) = b
  <2> DEFINE c == Append(a, r)
  <2>1. c \in Seq(S) /\ Len(c) = 2 /\ c[1] = q /\ c[2] = r
    BY <1>3
  <2> HIDE DEF c
  <2>2. \A i \in 1..Len(c) : c[i] = b[i]
    BY <2>1, <1>2
  <2>3. c = b
    BY <2>1, <2>2, <1>1, <1>2, SeqEqual
  <2> QED
    BY <2>3 DEF c
<1>5. /\ Tail(b) \in Seq(S) /\ Len(Tail(b)) = 1 /\ Tail(b)[1] = r
  <2>1. /\ Tail(b) \in Seq(S) /\ Len(Tail(b)) = Len(b) - 1
        /\ \A i \in 1..Len(Tail(b)) : Tail(b)[i] = b[i + 1]
    BY <1>1, <1>2, Tailed
  <2> QED
    BY <2>1, <1>2
<1>6. Tail(b) = <<r>>
  <2> DEFINE c == Tail(b)
             d == <<r>>
  <2>1. c \in Seq(S) /\ Len(c) = 1 /\ c[1] = r
    BY <1>5
  <2>2. d \in Seq(S) /\ Len(d) = 1 /\ d[1] = r
    BY <1>1, <1>2
  <2> HIDE DEF c, d
  <2>3. c = d
    BY <2>1, <2>2, SeqEqual
  <2> QED
    BY <2>3 DEF c, d
<1> QED
  BY <1>4, <1>6, Zenon DEF a, b

LEMMA OneRequestStep ==
  ASSUME Inv, NEW e \in Ephs, OneRequest(e), ReceiveRequest
  PROVE  OneRequest(e)' /\ UNCHANGED <<uavVars, active, pending, last_seen, down>>
<1> DEFINE r == HANDSHAKE_REQ(e)
<1>1. r.type = "HANDSHAKE_REQ"
  BY DEF HANDSHAKE_REQ
<1>2. up # <<>> /\ up' = Tail(up) /\ UNCHANGED <<uavVars, active, pending, last_seen, down>>
  BY DEF ReceiveRequest
<1>3. up = <<r>> /\ tasks = <<>>
  BY <1>2 DEF OneRequest
<1>4. up' = <<>> /\ tasks' = <<r>>
  BY <1>1, <1>3 DEF ReceiveRequest
<1> QED
  BY <1>2, <1>4 DEF OneRequest

LEMMA TwoRequestsStep ==
  ASSUME Inv, NEW d \in Ephs, NEW e \in Ephs, TwoRequests(d, e), ReceiveRequest
  PROVE  TwoRequests(d, e)' /\ UNCHANGED <<uavVars, active, pending, last_seen, down>>
<1> DEFINE q == HANDSHAKE_REQ(d)
           r == HANDSHAKE_REQ(e)
<1>1. q.type = "HANDSHAKE_REQ" /\ r.type = "HANDSHAKE_REQ"
  BY DEF HANDSHAKE_REQ
<1>2. up # <<>> /\ up' = Tail(up) /\ UNCHANGED <<uavVars, active, pending, last_seen, down>>
  BY DEF ReceiveRequest
<1>3. (up = <<q, r>> /\ tasks = <<>>) \/ (up = <<r>> /\ tasks = <<q>>)
  BY <1>2 DEF TwoRequests
<1> HIDE DEF q, r
<1>4. CASE up = <<q, r>> /\ tasks = <<>>
  <2>1. up' = <<r>> /\ tasks' = <<q>>
    BY <1>1, <1>2, <1>4 DEF ReceiveRequest
  <2> QED
    BY <1>2, <2>1 DEF TwoRequests, q, r
<1>5. CASE up = <<r>> /\ tasks = <<q>>
  <2>1. Head(up) = r /\ up' = <<>>
    BY <1>2, <1>5
  <2>2. tasks' = Append(<<q>>, r)
    BY <1>1, <1>5, <2>1 DEF ReceiveRequest
  <2>3. tasks' = <<q, r>>
    BY <2>2, TwoInARow
  <2> QED
    BY <1>2, <2>1, <2>3 DEF TwoRequests, q, r
<1> QED
  BY <1>3, <1>4, <1>5

\* The GKS answers a request of the UAV: it takes the key it makes for its active one.
LEMMA Answered1 ==
  ASSUME Inv, NEW i \in 1..MaxTasks, AnswerRequest(i), faults' = faults,
         NEW e \in Ephs, tasks[1] = HANDSHAKE_REQ(e), OnlyResponses, NoSession
  PROVE  /\ tasks # <<>> /\ tasks' = Tail(tasks)
         /\ LateResponse' \/ (down # <<>> /\ down[1].type # "HANDSHAKE_RES")
         /\ active'[1] = e /\ NoSession'
         /\ UNCHANGED <<phase, ephemeral, up>>
<1>1. tasks[1].type = "HANDSHAKE_REQ" /\ tasks[1].e = e
  BY DEF HANDSHAKE_REQ
<1> DEFINE k == <<tasks[1].e, FreshGksEph>>
           m == HANDSHAKE_RES(k[2])
<1>2. /\ UNCHANGED <<uavVars, last_seen, pending, up>> /\ active' = k /\ k # None
      /\ m.type = "HANDSHAKE_RES" /\ m \in DownMsgs /\ down' = Append(down, m)
  BY <1>1, Answering
<1>3. tasks # <<>> /\ tasks' = Tail(tasks)
  BY OldestAnswered
<1>4. active'[1] = e /\ active' # None
  BY <1>1, <1>2
<1> HIDE DEF k, m
<1>5. /\ Len(down) \in Nat /\ Len(down') = Len(down) + 1
      /\ down'[Len(down) + 1] = m
      /\ \A j \in 1..Len(down') : \/ j \in 1..Len(down) /\ down'[j] = down[j]
                                  \/ j = Len(down) + 1 /\ down'[j] = m
      /\ down' # <<>> /\ (down # <<>> => down'[1] = down[1])
  BY <1>2, DownMore
<1>6. OnlyResponses'
  BY <1>2, <1>5 DEF OnlyResponses
<1>7. down = <<>> => down'[1] = m
  BY <1>5
<1> QED
  BY <1>2, <1>3, <1>4, <1>5, <1>6, <1>7 DEF LateResponse, NoSession, uavVars

\* The answer to the request that the UAV gave up is read in the place of the answer
\* to its last one: the UAV's key is one that the GKS does not have.
LEMMA LateAnswerRead ==
  ASSUME Inv, NoSession, phase = "waiting", LateResponse, AwaitResponse,
         \/ active[1] # ephemeral /\ OneRequest(ephemeral)
         \/ NoRequest
  PROVE  Going'
<1>1. /\ down # <<>> /\ down' = Tail(down)
      /\ UNCHANGED <<pending_ephemeral_key, active, pending, up, tasks>>
  BY DEF AwaitResponse, gksVars
<1>2. /\ Head(down) = down[1] /\ down[1] \in DownMsgs
      /\ \A i \in 1..Len(down') : i + 1 \in 1..Len(down) /\ down'[i] = down[i + 1]
  BY <1>1, DownRead
<1>3. down[1].type = "HANDSHAKE_RES" /\ active # None /\ OnlyResponses
  BY DEF LateResponse
<1>4. session_key' = <<ephemeral, down[1].g>> /\ phase' = "secure"
  BY <1>2, <1>3 DEF AwaitResponse
<1>5. OnlyResponses'
  BY <1>2, <1>3 DEF OnlyResponses
<1>6. ~ InFlight(down, "RESET")' /\ ~ InFlight(down, "REKEY_RES")'
  BY <1>5 DEF OnlyResponses, InFlight
<1>7. pending' = None
  BY <1>1 DEF NoSession
<1>8. session_key' # None
  <2>1. ephemeral \in Ephs /\ down[1].g \in Ephs
    BY <1>2, <1>3, DownFields DEF Inv, UavInv
  <2> QED
    BY <2>1, <1>4, KeyParts DEF Keys
<1>9. ~ InFlight(tasks, "REKEY_REQ")' /\ ~ InFlight(up, "REKEY_REQ")'
  BY <1>1 DEF OneRequest, NoRequest, HANDSHAKE_REQ, InFlight
<1>10. InFlight(tasks, "HANDSHAKE_REQ") \/ InFlight(up, "HANDSHAKE_REQ") => Overtaken'
  <2> SUFFICES ASSUME InFlight(tasks, "HANDSHAKE_REQ") \/ InFlight(up, "HANDSHAKE_REQ")
               PROVE  Overtaken'
    OBVIOUS
  <2>1. active[1] # ephemeral /\ OneRequest(ephemeral)
    BY DEF NoRequest, InFlight
  <2>2. session_key' # active'
    BY <1>1, <1>4, <2>1
  <2>3. \/ FirstRequest(tasks) /\ ~ InFlight(up, "HANDSHAKE_REQ")
        \/ tasks = <<>> /\ FirstRequest(up)
    <3> DEFINE r == HANDSHAKE_REQ(ephemeral)
    <3>1. r.type = "HANDSHAKE_REQ"
      BY DEF HANDSHAKE_REQ
    <3>2. (tasks = <<r>> /\ up = <<>>) \/ (tasks = <<>> /\ up = <<r>>)
      BY <2>1 DEF OneRequest
    <3> HIDE DEF r
    <3> QED
      BY <3>1, <3>2 DEF FirstRequest, InFlight
  <2>4. \/ FirstRequest(tasks)' /\ ~ InFlight(up, "HANDSHAKE_REQ")'
        \/ tasks' = <<>> /\ FirstRequest(up)'
    BY <2>3, <1>1 DEF FirstRequest, InFlight
  <2> QED
    BY <2>2, <2>4, <1>1, <1>3, <1>5, <1>7 DEF Overtaken
<1>11. NoLateHandshake'
  BY <1>1, <1>3, <1>6, <1>10 DEF NoLateHandshake, InFlight
<1>12. OneRekey' /\ RekeyIsPending'
  BY <1>6, <1>9 DEF OneRekey, RekeyIsPending, AtMostOne, InFlight
<1>13. NewKeyUnused' /\ PromotedFirst'
  BY <1>7, <1>8 DEF NewKeyUnused, PromotedFirst
<1> QED
  BY <1>4, <1>11, <1>12, <1>13 DEF Going

LEMMA DoubledStep ==
  ASSUME Inv, Doubled, Next, faults' = faults
  PROVE  Connecting' \/ Going'
<1>1. NoSession /\ phase \in {"idle", "waiting"}
  BY DEF Doubled
<1>2. ASSUME Doubled' PROVE Connecting'
  BY <1>2 DEF Connecting, Doubled
<1>3. ASSUME UNCHANGED <<uavVars, active, pending, last_seen>>
      PROVE  NoSession' /\ phase' = phase
  BY <1>1, <1>3 DEF NoSession, uavVars
<1>4. ASSUME ResetInterval PROVE Connecting'
  <2>1. UNCHANGED <<uavVars, active, pending, last_seen, tasks, up, down>>
    BY <1>4 DEF ResetInterval
  <2>2. Doubled'
    BY <2>1, <1>3
    DEF Doubled, LateResponse, OnlyResponses, NoRequest, OneRequest, TwoRequests, uavVars
  <2> QED
    BY <1>2, <2>2
<1>5. ASSUME SendCommand PROVE Connecting'
  <2> DEFINE m == COMMAND(active)
  <2>1. /\ m \in DownMsgs /\ m.type = "COMMAND" /\ down' = Append(down, m) /\ active # None
        /\ UNCHANGED <<uavVars, active, pending, last_seen, tasks, up>>
    BY <1>5, CommandDown
  <2> HIDE DEF m
  <2>2. /\ down' # <<>> /\ (down # <<>> => down'[1] = down[1])
        /\ \A j \in 1..Len(down') : \/ j \in 1..Len(down) /\ down'[j] = down[j]
                                    \/ j = Len(down) + 1 /\ down'[j] = m
    BY <2>1, DownMore
  <2>3. LateResponse
    BY <2>1 DEF Doubled
  <2>4. LateResponse'
    BY <2>1, <2>2, <2>3 DEF LateResponse, OnlyResponses
  <2>5. Doubled'
    BY <2>1, <2>4, <1>3 DEF Doubled, NoRequest, OneRequest, uavVars
  <2> QED
    BY <1>2, <2>5
<1>6. ~ SessionTimeout /\ ~ SendTelemetry /\ ~ ListenForAcks
  BY <1>1 DEF NoSession, SessionTimeout, SendTelemetry, ListenForAcks
<1>7. ASSUME NEW e, OneRequest(e)
      PROVE  InFlight(up, "HANDSHAKE_REQ") \/ InFlight(tasks, "HANDSHAKE_REQ")
  BY <1>7 DEF OneRequest, InFlight, HANDSHAKE_REQ
<1>8. ASSUME NEW d, NEW e, TwoRequests(d, e)
      PROVE  InFlight(up, "HANDSHAKE_REQ") \/ InFlight(tasks, "HANDSHAKE_REQ")
  BY <1>8 DEF TwoRequests, InFlight, HANDSHAKE_REQ
<1>9. ASSUME LateResponse PROVE InFlight(down, "HANDSHAKE_RES")
  <2>1. 1 \in 1..Len(down)
    <3>1. down # <<>>
      BY <1>9 DEF LateResponse
    <3>2. Len(down) \in Nat /\ Len(down) > 0
      BY <3>1, TheChannels
    <3> QED
      BY <3>2
  <2> QED
    BY <2>1, <1>9 DEF LateResponse, InFlight
<1>10. ~ HandshakeTimeout
  <2>1. ~ HandshakeQuiet
    BY <1>7, <1>8, <1>9 DEF Doubled, HandshakeQuiet
  <2> QED
    BY <2>1, NoFaultHere
<1>11. ~ TelemetryNoSession /\ ~ TelemetryWithSession
  BY DEF TelemetryNoSession, TelemetryWithSession, Doubled, OneRequest, TwoRequests,
         NoRequest, HANDSHAKE_REQ
\* Idle, with a request under way.
<1>12. ASSUME phase = "idle", active = None, down = <<>>, NEW e \in Ephs, OneRequest(e)
       PROVE  Connecting'
  <2> DEFINE q == HANDSHAKE_REQ(e)
             r == HANDSHAKE_REQ(FreshUavEph)
  <2>1. q.type = "HANDSHAKE_REQ" /\ q.e = e
    BY DEF HANDSHAKE_REQ
  <2>2. (tasks = <<q>> /\ up = <<>>) \/ (tasks = <<>> /\ up = <<q>>)
    BY <1>12 DEF OneRequest
  <2> HIDE DEF q
  <2>3. CASE PerformHandshake
    <3>1. /\ phase' = "waiting" /\ ephemeral' = FreshUavEph /\ up' = Append(up, r)
          /\ UNCHANGED <<active, tasks, down>> /\ NoSession'
      BY <2>3, <1>1 DEF PerformHandshake, NoSession, gksVars
    <3>2. e \in UavEphsInUse
      <4>1. CASE tasks = <<q>>
        BY <4>1, <2>1 DEF UavEphsInUse
      <4>2. CASE up = <<q>>
        BY <4>2, <2>1 DEF UavEphsInUse
      <4> QED
        BY <4>1, <4>2, <2>2
    <3>3. e # ephemeral'
      BY <3>1, <3>2, FreshUav
    <3> HIDE DEF r
    <3>4. \/ tasks' = <<q>> /\ up' = <<r>>
          \/ tasks' = <<>> /\ up' = <<q, r>>
      <4>1. CASE tasks = <<q>> /\ up = <<>>
        BY <3>1, <4>1
      <4>2. CASE tasks = <<>> /\ up = <<q>>
        BY <3>1, <4>2, TwoInARow
      <4> QED
        BY <2>2, <4>1, <4>2
    <3>5. TwoRequests(e, ephemeral)'
      BY <3>1, <3>4 DEF TwoRequests, q, r
    <3> QED
      BY <1>2, <1>12, <3>1, <3>3, <3>5 DEF Doubled
  <2>4. CASE ReceiveRequest
    BY <1>2, <1>3, <1>12, <2>4, OneRequestStep DEF Doubled
  <2>5. ASSUME NEW i \in 1..MaxTasks, AnswerRequest(i) PROVE Connecting'
    <3>1. tasks = <<q>> /\ up = <<>>
      BY <2>2, <2>5 DEF AnswerRequest
    <3>2. tasks[1] = HANDSHAKE_REQ(e) /\ OnlyResponses
      BY <3>1, <1>12 DEF q, OnlyResponses
    <3>3. LateResponse' /\ NoSession' /\ tasks' = Tail(tasks) /\ UNCHANGED <<phase, up>>
      BY <1>1, <1>12, <2>5, <3>2, Answered1
    <3>4. tasks' = <<>>
      BY <3>1, <3>3
    <3> QED
      BY <1>2, <1>12, <3>1, <3>3, <3>4 DEF Doubled, NoRequest
  <2> QED
    BY <1>4, <1>5, <1>6, <1>10, <1>11, <1>12, <2>3, <2>4, <2>5, NoFaultHere
    DEF Next, AwaitResponse
\* Idle, with its answer under way.
<1>13. ASSUME phase = "idle", LateResponse, NoRequest
       PROVE  Connecting'
  <2>1. CASE PerformHandshake
    <3>1. /\ phase' = "waiting" /\ ephemeral' = FreshUavEph
          /\ up' = Append(up, HANDSHAKE_REQ(FreshUavEph))
          /\ UNCHANGED <<active, tasks, down>> /\ NoSession'
      BY <2>1, <1>1 DEF PerformHandshake, NoSession, gksVars
    <3>2. active[1] \in UavEphsInUse
      BY <1>13 DEF LateResponse, UavEphsInUse, LiveKeys
    <3>3. active'[1] # ephemeral'
      BY <3>1, <3>2, FreshUav
    <3>4. up' = <<HANDSHAKE_REQ(ephemeral')>> /\ tasks' = <<>>
      BY <3>1, <1>13 DEF NoRequest
    <3>5. OneRequest(ephemeral)' /\ LateResponse'
      BY <3>1, <3>4, <1>13 DEF OneRequest, LateResponse, OnlyResponses
    <3> QED
      BY <1>2, <3>1, <3>3, <3>5 DEF Doubled
  <2>2. ~ ReceiveRequest /\ ~ \E i \in 1..MaxTasks : AnswerRequest(i)
    BY <1>13 DEF NoRequest, ReceiveRequest, AnswerRequest
  <2> QED
    BY <1>4, <1>5, <1>6, <1>10, <1>11, <1>13, <2>1, <2>2, NoFaultHere DEF Next, AwaitResponse
\* Waiting, with both requests under way.
<1>14. ASSUME phase = "waiting", active = None, down = <<>>,
              NEW d \in Ephs \ {ephemeral}, TwoRequests(d, ephemeral)
       PROVE  Connecting'
  <2>1. ephemeral \in Ephs
    BY <1>14 DEF Inv, UavInv
  <2>2. CASE ReceiveRequest
    <3>1. TwoRequests(d, ephemeral)'
      BY <1>14, <2>1, <2>2, TwoRequestsStep DEF TwoRequests, uavVars
    <3>2. UNCHANGED <<uavVars, active, pending, last_seen, down>>
      BY <2>2 DEF ReceiveRequest
    <3> QED
      BY <1>2, <1>3, <1>14, <3>1, <3>2 DEF Doubled, uavVars
  <2>3. ASSUME NEW i \in 1..MaxTasks, AnswerRequest(i) PROVE Connecting'
    <3>1. tasks[1] = HANDSHAKE_REQ(d) /\ OnlyResponses
      BY <1>14, <2>3 DEF TwoRequests, AnswerRequest, OnlyResponses
    <3>2. /\ LateResponse' /\ NoSession' /\ tasks' = Tail(tasks) /\ active'[1] = d
          /\ tasks # <<>> /\ UNCHANGED <<phase, ephemeral, up>>
      BY <1>1, <1>14, <2>3, <3>1, Answered1
    <3>3. OneRequest(ephemeral)'
      <4> DEFINE q == HANDSHAKE_REQ(d)
                 r == HANDSHAKE_REQ(ephemeral)
      <4>1. (tasks = <<q, r>> /\ up = <<>>) \/ (tasks = <<q>> /\ up = <<r>>)
        BY <1>14, <3>2 DEF TwoRequests
      <4> HIDE DEF q, r
      <4>2. (tasks' = <<r>> /\ up' = <<>>) \/ (tasks' = <<>> /\ up' = <<r>>)
        <5>1. CASE tasks = <<q, r>> /\ up = <<>>
          BY <3>2, <5>1, TwoInARow
        <5>2. CASE tasks = <<q>> /\ up = <<r>>
          BY <3>2, <5>2
        <5> QED
          BY <4>1, <5>1, <5>2
      <4> QED
        BY <3>2, <4>2 DEF OneRequest, r
    <3> QED
      BY <1>2, <1>14, <3>2, <3>3 DEF Doubled
  <2> QED
    BY <1>4, <1>5, <1>6, <1>10, <1>11, <1>14, <2>2, <2>3, NoFaultHere
    DEF Next, AwaitResponse, PerformHandshake
\* Waiting, with the answer to the first and the second, or both answers, under way.
<1>15. ASSUME phase = "waiting", LateResponse,
              (active[1] # ephemeral /\ OneRequest(ephemeral)) \/ NoRequest
       PROVE  Connecting' \/ Going'
  <2>1. ephemeral \in Ephs
    BY <1>15 DEF Inv, UavInv
  <2>2. CASE AwaitResponse
    BY <1>1, <1>15, <2>2, LateAnswerRead
  <2>3. CASE ReceiveRequest
    <3>1. active[1] # ephemeral /\ OneRequest(ephemeral)
      BY <1>15, <2>3 DEF NoRequest, ReceiveRequest
    <3>2. UNCHANGED <<uavVars, active, pending, last_seen, down>>
      BY <2>3 DEF ReceiveRequest
    <3>3. OneRequest(ephemeral)'
      BY <2>1, <2>3, <3>1, OneRequestStep DEF OneRequest, uavVars
    <3>4. LateResponse'
      BY <1>15, <3>2 DEF LateResponse, OnlyResponses
    <3> QED
      BY <1>2, <1>3, <1>15, <3>1, <3>2, <3>3, <3>4 DEF Doubled, uavVars
  <2>4. ASSUME NEW i \in 1..MaxTasks, AnswerRequest(i) PROVE Connecting'
    <3>1. tasks = <<HANDSHAKE_REQ(ephemeral)>> /\ up = <<>>
      BY <1>15, <2>4 DEF NoRequest, OneRequest, AnswerRequest
    <3>2. tasks[1] = HANDSHAKE_REQ(ephemeral) /\ OnlyResponses
      BY <3>1, <1>15 DEF LateResponse
    <3>3. LateResponse' /\ NoSession' /\ tasks' = Tail(tasks) /\ UNCHANGED <<phase, up>>
      BY <1>1, <1>15, <2>1, <2>4, <3>2, Answered1 DEF LateResponse
    <3>4. tasks' = <<>>
      BY <3>1, <3>3
    <3> QED
      BY <1>2, <1>15, <3>1, <3>3, <3>4 DEF Doubled, NoRequest
  <2> QED
    BY <1>4, <1>5, <1>6, <1>10, <1>11, <1>15, <2>2, <2>3, <2>4, NoFaultHere
    DEF Next, PerformHandshake
<1> QED
  BY <1>12, <1>13, <1>14, <1>15 DEF Doubled

LEMMA ConnectingStep ==
  ASSUME Inv, Connecting, Next, faults' = faults
  PROVE  Connecting' \/ Going'
BY QuietStep, RequestedStep, RespondedStep, DoubledStep DEF Connecting

-----------------------------------------------------------------------------
(* How many packets are sent between two rotations. *)

LEMMA CountedTelemetry ==
  ASSUME Inv, Secure, Counted, SendTelemetry, faults' = faults, RekeyThreshold > 2
  PROVE  Counted'
<1> DEFINE t == TELEMETRY(session_key)
           r == REKEY_REQ(FreshUavEph)
<1>1. /\ t.type = "TELEMETRY" /\ r.type = "REKEY_REQ"
      /\ UNCHANGED <<session_key, active, tasks, down>>
      /\ packets_sent_since_rekey \in Nat /\ Len(up) \in Nat
      /\ \A i \in 1..Len(up) : i \in 1..Len(up') /\ up'[i] = up[i]
      /\ Len(up) + 1 \in 1..Len(up') /\ up'[Len(up) + 1] = t
      /\ \/ /\ Len(up') = Len(up) + 1
            /\ packets_sent_since_rekey' = packets_sent_since_rekey + 1
         \/ /\ Len(up') = Len(up) + 2 /\ up'[Len(up) + 2] = r
            /\ packets_sent_since_rekey + 1 = RekeyThreshold
            /\ packets_sent_since_rekey' = 0
            /\ RekeyQuiet
      /\ \A i \in 1..Len(up') : \/ i \in 1..Len(up) /\ up'[i] = up[i]
                                \/ i = Len(up) + 1 /\ up'[i] = t
                                \/ /\ i = Len(up) + 2 /\ up'[i] = r
                                   /\ Len(up') = Len(up) + 2
  BY Sending DEF gksVars
<1>2. RekeyQuiet \/ packets_sent_since_rekey = 0
  BY SpentNoFault DEF SendTelemetry, FaultUnless
<1>3. t = TELEMETRY(session_key')
  BY <1>1
<1> HIDE DEF t, r
<1>4. CASE Len(up') = Len(up) + 1 /\ packets_sent_since_rekey' = packets_sent_since_rekey + 1
  <2>1. \A i \in 1..Len(up') : \/ i \in 1..Len(up) /\ up'[i] = up[i]
                               \/ up'[i] = t
    BY <1>1, <1>4
  <2>2. ASSUME ~ RekeyQuiet'
        PROVE  packets_sent_since_rekey' <= 1
    <3>1. ~ RekeyQuiet
      BY <2>2, <2>1, <1>1 DEF RekeyQuiet, InFlight
    <3> QED
      BY <3>1, <1>2, <1>4
  <2>3. \E i \in 1..Len(up') : up'[i] = TELEMETRY(session_key')
    BY <1>1, <1>3
  <2>4. ASSUME session_key' # active', NEW j \in 1..Len(up'), up'[j].type = "REKEY_REQ"
        PROVE  TwoAhead(j)'
    <3>1. j \in 1..Len(up) /\ up[j].type = "REKEY_REQ"
      BY <2>1, <2>4, <1>1
    <3>2. PICK a \in 1..(j - 1), b \in 1..(j - 1) :
            a # b /\ \A i \in {a, b} : up[i] = TELEMETRY(session_key)
      BY <2>4, <3>1, <1>1 DEF Counted, TwoAhead
    <3>3. \A i \in {a, b} : i \in 1..Len(up)
      BY <3>1, <1>1
    <3> QED
      BY <3>2, <3>3, <1>1 DEF TwoAhead
  <2> QED
    BY <2>2, <2>3, <2>4 DEF Counted
<1>5. CASE /\ Len(up') = Len(up) + 2 /\ up'[Len(up) + 2] = r
           /\ packets_sent_since_rekey + 1 = RekeyThreshold
           /\ packets_sent_since_rekey' = 0
           /\ RekeyQuiet
  <2>1. packets_sent_since_rekey >= 2
    BY <1>1, <1>5, TheTypes
  <2>2. ASSUME session_key' # active', NEW j \in 1..Len(up'), up'[j].type = "REKEY_REQ"
        PROVE  TwoAhead(j)'
    <3>1. j = Len(up) + 2
      BY <2>2, <1>1, <1>5 DEF RekeyQuiet, InFlight
    <3>2. PICK a \in 1..Len(up) : up[a] = TELEMETRY(session_key)
      BY <2>1, <2>2, <1>1 DEF Counted
    <3> DEFINE b == Len(up) + 1
    <3>3. a \in 1..(j - 1) /\ b \in 1..(j - 1) /\ a # b
      BY <3>1, <1>1
    <3>4. \A i \in {a, b} : up'[i] = TELEMETRY(session_key')
      BY <3>2, <1>1, <1>3
    <3> HIDE DEF b
    <3> QED
      BY <3>3, <3>4 DEF TwoAhead
  <2> QED
    BY <2>2, <1>5 DEF Counted
<1> QED
  BY <1>1, <1>4, <1>5

LEMMA CountedListen ==
  ASSUME Inv, Secure, Counted, ListenForAcks
  PROVE  Counted'
<1>1. /\ down # <<>> /\ down' = Tail(down)
      /\ UNCHANGED <<packets_sent_since_rekey, active, tasks, up>>
  BY DEF ListenForAcks, gksVars
<1>2. /\ Head(down) = down[1] /\ 1 \in 1..Len(down)
      /\ InFlight(down, "REKEY_RES")' => InFlight(down, "REKEY_RES")
  BY <1>1, DownRead
<1>3. ~ RekeyQuiet' => ~ RekeyQuiet
  BY <1>1, <1>2 DEF RekeyQuiet, InFlight
<1>4. CASE session_key' = session_key
  BY <1>1, <1>3, <1>4 DEF Counted, TwoAhead
<1>5. CASE session_key' # session_key
  <2>1. down[1].type = "REKEY_RES"
    BY <1>2, <1>5 DEF ListenForAcks
  <2>2. ~ RekeyQuiet
    BY <1>2, <2>1 DEF RekeyQuiet, InFlight
  <2>3. Answered
    BY <1>2, <2>1 DEF Secure, Quiet, Asked, Working, DownIsCommands
  <2>4. \A j \in 1..Len(up) : up[j].type # "REKEY_REQ"
    BY <2>3 DEF Answered, UpIsTelemetry
  <2>5. packets_sent_since_rekey \in Nat /\ ~ (packets_sent_since_rekey >= 2)
    BY <2>2, TheTypes DEF Counted, Inv, UavInv
  <2> QED
    BY <1>1, <2>2, <2>4, <2>5 DEF Counted
<1> QED
  BY <1>4, <1>5

LEMMA CountedSession ==
  ASSUME Inv, Secure, Counted, TelemetryWithSession
  PROVE  Counted'
<1>1. /\ up # <<>> /\ up' = Tail(up) /\ up[1].type = "TELEMETRY"
      /\ UNCHANGED <<packets_sent_since_rekey, session_key, tasks, down>>
      /\ DecryptPayload(up[1].k)
  BY UpRead DEF TelemetryWithSession, uavVars
<1>2. /\ \A i \in 1..Len(up') : i + 1 \in 1..Len(up) /\ up'[i] = up[i + 1]
      /\ Len(up) \in Nat /\ Len(up') = Len(up) - 1
      /\ InFlight(up, "REKEY_REQ")' => InFlight(up, "REKEY_REQ")
      /\ 1 \in 1..Len(up)
  BY <1>1, UpRead
<1>3. ~ RekeyQuiet' => ~ RekeyQuiet
  BY <1>1, <1>2 DEF RekeyQuiet, InFlight
<1>4. up[1].k \in {active, session_key}
  BY <1>1, <1>2 DEF Secure, TelemetryInOrder
<1>5. CASE active' = active /\ up[1].k = active
  <2>1. ASSUME session_key # active, NEW i \in 1..Len(up), up[i] = TELEMETRY(session_key)
        PROVE  i - 1 \in 1..Len(up') /\ up'[i - 1] = TELEMETRY(session_key) /\ i \in Nat
    <3>1. i # 1
      BY <2>1, <1>5 DEF TELEMETRY
    <3>2. i - 1 \in 1..Len(up') /\ (i - 1) + 1 = i
      BY <3>1, <1>2
    <3> QED
      BY <3>2, <2>1, <1>2
  <2>2. ASSUME session_key' # active', packets_sent_since_rekey' >= 2
        PROVE  \E i \in 1..Len(up') : up'[i] = TELEMETRY(session_key')
    <3>1. PICK i \in 1..Len(up) : up[i] = TELEMETRY(session_key)
      BY <2>2, <1>1, <1>5 DEF Counted
    <3> QED
      BY <3>1, <2>1, <2>2, <1>1, <1>5
  <2>3. ASSUME session_key' # active', NEW j \in 1..Len(up'), up'[j].type = "REKEY_REQ"
        PROVE  TwoAhead(j)'
    <3>1. j + 1 \in 1..Len(up) /\ up[j + 1].type = "REKEY_REQ"
      BY <2>3, <1>2
    <3>2. TwoAhead(j + 1)
      BY <2>3, <3>1, <1>1, <1>5 DEF Counted
    <3>3. PICK a \in 1..((j + 1) - 1), b \in 1..((j + 1) - 1) :
            a # b /\ \A i \in {a, b} : up[i] = TELEMETRY(session_key)
      BY <3>2 DEF TwoAhead
    <3>4. a \in 1..Len(up) /\ b \in 1..Len(up)
      BY <3>1, <1>2
    <3>5. /\ a - 1 \in 1..Len(up') /\ up'[a - 1] = TELEMETRY(session_key)
          /\ b - 1 \in 1..Len(up') /\ up'[b - 1] = TELEMETRY(session_key)
      BY <3>3, <3>4, <2>1, <2>3, <1>1, <1>5
    <3>6. a - 1 \in 1..(j - 1) /\ b - 1 \in 1..(j - 1) /\ a - 1 # b - 1
      BY <3>3, <3>5
    <3>7. \A i \in {a - 1, b - 1} : up'[i] = TELEMETRY(session_key')
      BY <3>5, <1>1
    <3> QED
      BY <3>6, <3>7 DEF TwoAhead
  <2> QED
    BY <2>2, <2>3, <1>1, <1>3 DEF Counted
<1>6. CASE active' = session_key
  BY <1>1, <1>3, <1>6 DEF Counted
<1>7. up[1].k # active => active' = session_key
  <2>1. ASSUME up[1].k # active PROVE pending = session_key
    BY <2>1, <1>4 DEF Secure, Quiet, Asked, Working, Answered
  <2> QED
    BY <2>1, <1>1, <1>4 DEF DecryptPayload
<1> QED
  BY <1>1, <1>5, <1>6, <1>7 DEF DecryptPayload

LEMMA CountedStep ==
  ASSUME Inv, Secure, Counted, Next, faults' = faults, RekeyThreshold > 2
  PROVE  Counted'
\* In the rotation, until the GKS answers, the UAV's key is the active one.
<1>1. ASSUME session_key = active, ~ RekeyQuiet,
             UNCHANGED <<session_key, active, packets_sent_since_rekey>>
      PROVE  Counted'
  BY <1>1 DEF Counted
<1>2. CASE ReceiveRequest
  <2>1. /\ up # <<>> /\ Head(up) = up[1] /\ up[1].type # "TELEMETRY" /\ 1 \in 1..Len(up)
        /\ UNCHANGED <<uavVars, active>>
    BY <1>2, TheChannels, Tailed, UpRead DEF ReceiveRequest
  <2>2. Asked
    BY <2>1 DEF Secure, Quiet, Working, Answered, UpIsTelemetry
  <2>3. PICK j \in 1..Len(up) : AskedAt(j)
    BY <2>2 DEF Asked
  <2>4. j = 1 /\ ~ RekeyQuiet
    BY <2>1, <2>3 DEF AskedAt, RekeyQuiet, InFlight, REKEY_REQ
  <2>5. session_key = active
    BY <2>3, <2>4 DEF AskedAt
  <2> QED
    BY <1>1, <2>1, <2>4, <2>5 DEF uavVars
<1>3. ASSUME NEW i \in 1..MaxTasks, AnswerRequest(i) PROVE Counted'
  <2>1. Working
    BY <1>3 DEF AnswerRequest, Secure, Quiet, Asked, Answered
  <2>2. tasks = <<REKEY_REQ(pending_ephemeral_key)>> /\ session_key = active
    BY <2>1 DEF Working
  <2>3. 1 \in 1..Len(tasks) /\ tasks[1].type = "REKEY_REQ"
    BY <2>2 DEF REKEY_REQ
  <2>4. ~ RekeyQuiet
    BY <2>3 DEF RekeyQuiet, InFlight
  <2>5. UNCHANGED <<uavVars, active>>
    BY <1>3, <2>3, Answering
  <2> QED
    BY <1>1, <2>2, <2>4, <2>5 DEF uavVars
<1>4. CASE SendCommand
  <2> DEFINE m == COMMAND(active)
  <2>m. m \in DownMsgs /\ m.type = "COMMAND" /\ down' = Append(down, m)
    BY <1>4, CommandDown
  <2> HIDE DEF m
  <2>1. InFlight(down, "REKEY_RES")' <=> InFlight(down, "REKEY_RES")
    BY <2>m, TheChannels, InAppended DEF InFlight
  <2> QED
    BY <1>4, <2>1, CommandDown DEF Counted, TwoAhead, RekeyQuiet, InFlight, uavVars
<1>5. CASE ResetInterval
  BY <1>5 DEF ResetInterval, Counted, TwoAhead, RekeyQuiet, InFlight, uavVars
<1>6. /\ ~ PerformHandshake /\ ~ AwaitResponse /\ ~ HandshakeTimeout /\ ~ TelemetryNoSession
      /\ ~ SessionTimeout
  <2>1. Agreed
    BY DEF Agreed, Secure, Quiet, Asked, Working, Answered
  <2> QED
    BY <2>1, SpentNoFault DEF SessionTimeout, FaultUnless, Secure, PerformHandshake,
       AwaitResponse, HandshakeTimeout, TelemetryNoSession
<1> QED
  BY <1>2, <1>3, <1>4, <1>5, <1>6, CountedTelemetry, CountedListen, CountedSession,
     NoFaultHere DEF Next

LEMMA NextCounts ==
  ASSUME Inv, FreeInv, Counts, [Next]_vars, RekeyThreshold > 2
  PROVE  Counts'
<1>1. CASE Next
  <2> SUFFICES ASSUME faults' = 0, phase' = "secure"
               PROVE  Counted'
    BY DEF Counts
  <2>1. faults' = faults /\ faults = 0
    BY <1>1, NextFaults, TheTypes DEF Fault, Inv
  <2>2. CASE Secure
    <3>1. Counted
      BY <2>1, <2>2 DEF Counts, Secure
    <3> QED
      BY <1>1, <2>1, <2>2, <3>1, CountedStep
  <2>3. ~ Started /\ ~ RequestUnderWay
    BY <1>1, <2>1, StartedStep, RequestStep
    DEF Started, RequestUnderWay, ResponseUnderWay
  <2>4. CASE ResponseUnderWay
    <3>1. AwaitResponse
      BY <1>1, <2>4, NoFaultHere, <2>1
      DEF ResponseUnderWay, Next, PerformHandshake, HandshakeTimeout, SendTelemetry,
          ListenForAcks, ReceiveRequest, AnswerRequest, TelemetryNoSession,
          TelemetryWithSession, ResetInterval, SessionTimeout, SendCommand, uavVars
    <3>2. /\ packets_sent_since_rekey' = 0 /\ up' = <<>>
      BY <2>4, <3>1 DEF AwaitResponse, ResponseUnderWay, NoSession, gksVars
    <3> QED
      BY <3>2 DEF Counted
  <2> QED
    BY <2>1, <2>2, <2>3, <2>4 DEF FreeInv
<1>2. CASE UNCHANGED vars
  BY <1>2 DEF vars, uavVars, gksVars, Counts, Counted, TwoAhead, RekeyQuiet, InFlight
<1> QED
  BY <1>1, <1>2

-----------------------------------------------------------------------------
(* The first fault. *)

LEMMA SecureIsGoing ==
  ASSUME Inv, Secure
  PROVE  Going /\ HandshakeQuiet
<1>1. UpIsTelemetry \/ Asked
  BY DEF Secure, Quiet, Working, Answered
<1>2. /\ \A i \in 1..Len(up) : up[i].type # "HANDSHAKE_REQ"
      /\ \A i, j \in 1..Len(up) : up[i].type = "REKEY_REQ" /\ up[j].type = "REKEY_REQ" => i = j
      /\ \A i \in 1..Len(up) : up[i].type = "REKEY_REQ" => up[i].e = pending_ephemeral_key
  <2>1. CASE UpIsTelemetry
    BY <2>1 DEF UpIsTelemetry
  <2>2. CASE Asked
    <3>1. PICK j \in 1..Len(up) : AskedAt(j)
      BY <2>2 DEF Asked
    <3> QED
      BY <3>1 DEF AskedAt, REKEY_REQ
  <2> QED
    BY <1>1, <2>1, <2>2
<1>3. tasks = <<>> \/ (tasks = <<REKEY_REQ(pending_ephemeral_key)>> /\ Working)
  BY DEF Secure, Quiet, Asked, Working, Answered
<1>4. \A i \in 1..Len(tasks) : i = 1 /\ tasks[i].type = "REKEY_REQ"
                                     /\ tasks[i].e = pending_ephemeral_key
  <2> DEFINE r == REKEY_REQ(pending_ephemeral_key)
  <2>1. r.type = "REKEY_REQ" /\ r.e = pending_ephemeral_key
    BY DEF REKEY_REQ
  <2>2. tasks = <<>> \/ tasks = <<r>>
    BY <1>3
  <2> HIDE DEF r
  <2>3. CASE tasks = <<>>
    BY <2>3
  <2>4. CASE tasks = <<r>>
    <3>1. Len(tasks) = 1 /\ tasks[1] = r
      BY <2>4
    <3> QED
      BY <3>1, <2>1
  <2> QED
    BY <2>2, <2>3, <2>4
<1>5. DownIsCommands \/ Answered
  BY DEF Secure, Quiet, Asked, Working
<1>6. /\ \A i \in 1..Len(down) : down[i].type # "HANDSHAKE_RES"
      /\ \A i, j \in 1..Len(down) :
           down[i].type = "REKEY_RES" /\ down[j].type = "REKEY_RES" => i = j
      /\ \A i \in 1..Len(down) : down[i].type = "REKEY_RES" =>
           Answered /\ pending = <<pending_ephemeral_key, down[i].g>>
  <2>1. CASE DownIsCommands
    BY <2>1 DEF DownIsCommands
  <2>2. CASE Answered
    <3>1. PICK j \in 1..Len(down) : AnsweredAt(j)
      BY <2>2 DEF Answered
    <3>2. /\ down[j].type = "REKEY_RES" /\ down[j].g = pending[2]
          /\ \A i \in 1..Len(down) : i # j => down[i].type = "COMMAND"
      BY <3>1 DEF AnsweredAt, REKEY_RES
    <3>3. pending = <<pending[1], pending[2]>> /\ pending[1] = pending_ephemeral_key
      BY <2>2, KeyParts DEF Answered, Inv, GksInv
    <3>4. pending = <<pending_ephemeral_key, down[j].g>>
      BY <3>2, <3>3
    <3> QED
      BY <2>2, <3>2, <3>4
  <2> QED
    BY <1>5, <2>1, <2>2
<1>7. HandshakeQuiet /\ NoLateHandshake
  BY <1>2, <1>4, <1>6 DEF HandshakeQuiet, NoLateHandshake, InFlight
<1>8. OneRekey
  <2>1. InFlight(tasks, "REKEY_REQ") => Working
    BY <1>3 DEF InFlight
  <2>2. InFlight(up, "REKEY_REQ") => ~ UpIsTelemetry
    BY DEF InFlight, UpIsTelemetry
  <2>3. InFlight(down, "REKEY_RES") => Answered
    BY <1>6 DEF InFlight
  <2>4. Working => UpIsTelemetry /\ DownIsCommands
    BY DEF Working
  <2>5. Answered => UpIsTelemetry /\ tasks = <<>>
    BY DEF Answered
  <2>6. /\ AtMostOne(tasks, "REKEY_REQ") /\ AtMostOne(up, "REKEY_REQ")
        /\ AtMostOne(down, "REKEY_RES")
    BY <1>2, <1>4, <1>6 DEF AtMostOne
  <2>7. tasks = <<>> => ~ InFlight(tasks, "REKEY_REQ")
    BY DEF InFlight
  <2> QED
    BY <2>1, <2>2, <2>3, <2>4, <2>5, <2>6, <2>7 DEF OneRekey
<1>9. RekeyIsPending
  BY <1>2, <1>4, <1>6 DEF RekeyIsPending, Answered, Secure, Inv, GksInv
<1>10. NewKeyUnused
  BY DEF NewKeyUnused, Secure, TelemetryInOrder, Inv, GksInv
<1>11. PromotedFirst
  <2> SUFFICES ASSUME session_key = pending
               PROVE  /\ ~ InFlight(tasks, "REKEY_REQ")
                      /\ \A j \in 1..Len(up) : up[j].type = "REKEY_REQ" =>
                           \E i \in 1..(j - 1) : up[i] = TELEMETRY(session_key)
    BY DEF PromotedFirst
  <2>1. session_key # active
    BY DEF Secure, Inv, GksInv
  <2>2. ~ InFlight(tasks, "REKEY_REQ")
    BY <1>3, <2>1 DEF Working, InFlight
  <2>3. ASSUME NEW j \in 1..Len(up), up[j].type = "REKEY_REQ"
        PROVE  \E i \in 1..(j - 1) : up[i] = TELEMETRY(session_key)
    <3>1. Asked
      BY <1>1, <2>3 DEF UpIsTelemetry
    <3>2. PICK n \in 1..Len(up) : AskedAt(n)
      BY <3>1 DEF Asked
    <3>3. n = j
      BY <2>3, <3>2 DEF AskedAt
    <3>4. PICK i \in 1..(j - 1) : up[i].k = session_key
      BY <2>1, <3>2, <3>3 DEF AskedAt
    <3>5. i \in 1..Len(up) /\ i # j
      BY InChannels
    <3>6. up[i].type = "TELEMETRY" /\ up[i] \in UpMsgs
      BY <3>2, <3>3, <3>5, InChannels DEF AskedAt
    <3>7. up[i] = TELEMETRY(session_key)
      BY <3>4, <3>6, UpMessage DEF TELEMETRY, HANDSHAKE_REQ, REKEY_REQ
    <3> QED
      BY <3>7
  <2> QED
    BY <2>2, <2>3
<1> QED
  BY <1>7, <1>8, <1>9, <1>10, <1>11 DEF Going, Secure

\* A packet that is lost or late leaves the others in their order: position j of
\* the channel was position Place(j, i, n), where i is the packet's and n the last.
Place(j, i, n) == IF j < i THEN j ELSE IF j < n THEN j + 1 ELSE i

\* Places are distinct, and of any two before a packet's at least one is still before it.
InPlace(m, i, n) ==
  /\ \A j \in 1..m : Place(j, i, n) \in 1..n
  /\ \A j, k \in 1..m : Place(j, i, n) = Place(k, i, n) => j = k
  /\ \A y \in 1..m : \A a, b \in 1..(Place(y, i, n) - 1) : a # b =>
       \E z \in 1..(y - 1) : Place(z, i, n) \in {a, b}

LEMMA Places ==
  ASSUME NEW n \in Nat, NEW i \in 1..n, NEW m \in {n - 1, n}
  PROVE  InPlace(m, i, n)
<1>1. \A j \in 1..m : Place(j, i, n) \in 1..n
  BY DEF Place
<1>2. \A j, k \in 1..m : Place(j, i, n) = Place(k, i, n) => j = k
  BY DEF Place
<1>3. ASSUME NEW y \in 1..m, NEW c \in 1..(Place(y, i, n) - 1), c # i
      PROVE  \E z \in 1..(y - 1) : Place(z, i, n) = c
  <2>1. CASE c < i
    <3>1. c \in 1..(y - 1) /\ Place(c, i, n) = c
      BY <2>1, <1>3 DEF Place
    <3> QED
      BY <3>1
  <2>2. CASE c > i
    <3>1. c - 1 \in 1..(y - 1) /\ Place(c - 1, i, n) = c
      BY <2>2, <1>3 DEF Place
    <3> QED
      BY <3>1
  <2>3. c \in Int /\ i \in Int
    BY <1>1
  <2> QED
    BY <1>3, <2>1, <2>2, <2>3
<1>4. ASSUME NEW y \in 1..m, NEW a \in 1..(Place(y, i, n) - 1),
             NEW b \in 1..(Place(y, i, n) - 1), a # b
      PROVE  \E z \in 1..(y - 1) : Place(z, i, n) \in {a, b}
  <2>1. CASE a # i
    <3>1. \E z \in 1..(y - 1) : Place(z, i, n) = a
      BY <2>1, <1>3
    <3> QED
      BY <3>1
  <2>2. CASE b # i
    <3>1. \E z \in 1..(y - 1) : Place(z, i, n) = b
      BY <2>2, <1>3
    <3> QED
      BY <3>1
  <2> QED
    BY <2>1, <2>2, <1>4
<1> QED
  BY <1>1, <1>2, <1>4 DEF InPlace

LEMMA ChannelFault ==
  ASSUME NEW S, NEW s \in Seq(S), NEW i \in 1..Len(s), NEW d,
         d = RemoveAt(s, i) \/ d = Append(RemoveAt(s, i), s[i])
  PROVE  /\ d \in Seq(S) /\ Len(d) \in Nat /\ Len(d) \in {Len(s) - 1, Len(s)}
         /\ \A j \in 1..Len(d) : d[j] = s[Place(j, i, Len(s))]
<1>1. Len(s) \in Nat /\ i \in Nat /\ i >= 1 /\ i <= Len(s) /\ s[i] \in S
  BY ElementOfSeq
<1> DEFINE r == RemoveAt(s, i)
<1>2. /\ r \in Seq(S) /\ Len(r) = Len(s) - 1
      /\ \A j \in 1..(Len(s) - 1) : r[j] = IF j < i THEN s[j] ELSE s[j + 1]
  BY Elements
<1>3. d = r \/ d = Append(r, s[i])
  OBVIOUS
<1> HIDE DEF r
<1>4. \A j \in 1..Len(r) : r[j] = s[Place(j, i, Len(s))]
  BY <1>1, <1>2 DEF Place
<1>5. CASE d = r
  BY <1>1, <1>2, <1>4, <1>5
<1>6. CASE d = Append(r, s[i])
  <2>1. /\ d \in Seq(S) /\ Len(d) = Len(r) + 1
        /\ \A j \in 1..Len(r) : d[j] = r[j]
        /\ d[Len(r) + 1] = s[i]
    BY <1>1, <1>2, <1>6, Appended
  <2>2. Place(Len(s), i, Len(s)) = i
    BY <1>1 DEF Place
  <2>3. \A j \in 1..Len(d) : j \in 1..Len(r) \/ j = Len(s)
    BY <2>1, <1>1, <1>2
  <2>4. Len(r) + 1 = Len(s) /\ Len(d) = Len(s)
    BY <2>1, <1>1, <1>2
  <2>5. ASSUME NEW j \in 1..Len(d) PROVE d[j] = s[Place(j, i, Len(s))]
    <3>1. CASE j \in 1..Len(r)
      BY <3>1, <2>1, <1>4
    <3>2. CASE j = Len(s)
      BY <3>2, <2>1, <2>2, <2>4
    <3> QED
      BY <3>1, <3>2, <2>3
  <2> QED
    BY <2>1, <2>4, <2>5, <1>1
<1> QED
  BY <1>3, <1>5, <1>6

\* One packet of the UAV's less, or later.
LEMMA UpFault ==
  ASSUME Inv, Secure, Counted, NEW i \in 1..Len(up),
         up' = RemoveAt(up, i) \/ up' = Append(RemoveAt(up, i), up[i]),
         UNCHANGED <<uavVars, gksVars, down>>
  PROVE  Going'
<1> DEFINE p(j) == Place(j, i, Len(up))
<1>1. Going /\ HandshakeQuiet
  BY SecureIsGoing
<1>2. Len(up) \in Nat
  BY InChannels
<1>3. /\ Len(up') \in Nat /\ Len(up') \in {Len(up) - 1, Len(up)}
      /\ \A j \in 1..Len(up') : up'[j] = up[p(j)]
  BY TheChannels, ChannelFault
<1>4. /\ \A j \in 1..Len(up') : p(j) \in 1..Len(up)
      /\ \A j, k \in 1..Len(up') : p(j) = p(k) => j = k
      /\ \A y \in 1..Len(up') : \A a, b \in 1..(p(y) - 1) : a # b =>
           \E z \in 1..(y - 1) : p(z) \in {a, b}
  <2> DEFINE n == Len(up)
             m == Len(up')
  <2>1. n \in Nat /\ i \in 1..n /\ m \in {n - 1, n}
    BY <1>2, <1>3
  <2> HIDE DEF n, m
  <2>2. InPlace(m, i, n)
    BY <2>1, Places
  <2> QED
    BY <2>2, Zenon DEF InPlace, n, m
<1> HIDE DEF p
<1>5. UNCHANGED <<phase, session_key, pending_ephemeral_key, active, pending, tasks, down>>
  BY DEF uavVars, gksVars
<1>6. \A t : InFlight(up, t)' => InFlight(up, t)
  BY <1>3, <1>4 DEF InFlight
<1>7. AtMostOne(up, "REKEY_REQ")'
  BY <1>1, <1>3, <1>4 DEF AtMostOne, Going, OneRekey
<1>8. NoLateHandshake'
  BY <1>1, <1>5, <1>6 DEF NoLateHandshake, HandshakeQuiet, InFlight
<1>9. OneRekey'
  BY <1>1, <1>5, <1>6, <1>7 DEF Going, OneRekey, InFlight, AtMostOne
<1>10. RekeyIsPending' /\ NewKeyUnused'
  <2>1. RekeyIsPending'
    BY <1>1, <1>3, <1>4, <1>5 DEF Going, RekeyIsPending
  <2>2. NewKeyUnused'
    BY <1>1, <1>3, <1>4, <1>5 DEF Going, NewKeyUnused
  <2> QED
    BY <2>1, <2>2
<1>11. PromotedFirst'
  <2> SUFFICES ASSUME session_key = pending, NEW y \in 1..Len(up'), up'[y].type = "REKEY_REQ"
               PROVE  \E z \in 1..(y - 1) : up'[z] = TELEMETRY(session_key)
    BY <1>1, <1>5 DEF Going, PromotedFirst, InFlight
  <2>1. session_key # active
    BY DEF Secure, Inv, GksInv
  <2>2. p(y) \in 1..Len(up) /\ up[p(y)].type = "REKEY_REQ"
    BY <1>3, <1>4
  <2>3. PICK a \in 1..(p(y) - 1), b \in 1..(p(y) - 1) :
          a # b /\ \A x \in {a, b} : up[x] = TELEMETRY(session_key)
    BY <2>1, <2>2 DEF Counted, TwoAhead
  <2>4. PICK z \in 1..(y - 1) : p(z) \in {a, b}
    BY <2>3, <1>4
  <2>5. z \in 1..Len(up')
    BY <1>3
  <2> QED
    BY <2>3, <2>4, <2>5, <1>3
<1> QED
  BY <1>1, <1>5, <1>8, <1>9, <1>10, <1>11 DEF Going

\* One packet of the ground station's less, or later.
LEMMA DownFault ==
  ASSUME Inv, Secure, NEW i \in 1..Len(down),
         down' = RemoveAt(down, i) \/ down' = Append(RemoveAt(down, i), down[i]),
         UNCHANGED <<uavVars, gksVars, up>>
  PROVE  Going'
<1> DEFINE p(j) == Place(j, i, Len(down))
<1>1. Going /\ HandshakeQuiet
  BY SecureIsGoing
<1>2. Len(down) \in Nat
  BY InChannels
<1>3. /\ Len(down') \in Nat /\ Len(down') \in {Len(down) - 1, Len(down)}
      /\ \A j \in 1..Len(down') : down'[j] = down[p(j)]
  BY TheChannels, ChannelFault
<1>4. /\ \A j \in 1..Len(down') : p(j) \in 1..Len(down)
      /\ \A j, k \in 1..Len(down') : p(j) = p(k) => j = k
  <2> DEFINE n == Len(down)
             m == Len(down')
  <2>1. n \in Nat /\ i \in 1..n /\ m \in {n - 1, n}
    BY <1>2, <1>3
  <2> HIDE DEF n, m
  <2>2. InPlace(m, i, n)
    BY <2>1, Places
  <2> QED
    BY <2>2, Zenon DEF InPlace, n, m
<1> HIDE DEF p
<1>5. UNCHANGED <<phase, session_key, pending_ephemeral_key, active, pending, tasks, up>>
  BY DEF uavVars, gksVars
<1>6. \A t : InFlight(down, t)' => InFlight(down, t)
  BY <1>3, <1>4 DEF InFlight
<1>7. AtMostOne(down, "REKEY_RES")'
  BY <1>1, <1>3, <1>4 DEF AtMostOne, Going, OneRekey
<1>8. NoLateHandshake'
  BY <1>1, <1>5, <1>6 DEF NoLateHandshake, HandshakeQuiet, InFlight
<1>9. OneRekey'
  BY <1>1, <1>5, <1>6, <1>7 DEF Going, OneRekey, InFlight, AtMostOne
<1>10. RekeyIsPending'
  BY <1>1, <1>3, <1>4, <1>5 DEF Going, RekeyIsPending
<1>11. NewKeyUnused' /\ PromotedFirst'
  BY <1>1, <1>5 DEF Going, NewKeyUnused, PromotedFirst, InFlight
<1> QED
  BY <1>1, <1>5, <1>8, <1>9, <1>10, <1>11 DEF Going

LEMMA SecureFault ==
  ASSUME Inv, Secure, Counted, Next, faults' # faults, RekeyThreshold > 2
  PROVE  Connecting' \/ Going'
<1>1. Going /\ HandshakeQuiet
  BY SecureIsGoing
\* A timer of the UAV's that fires early: it sends one packet more, but not a request.
<1>2. CASE SendTelemetry
  <2>1. packets_sent_since_rekey <= 1 /\ packets_sent_since_rekey \in Nat
    BY <1>2, TheTypes DEF SendTelemetry, FaultUnless, Counted, Inv, UavInv
  <2>2. packets_sent_since_rekey + 1 < RekeyThreshold
    BY <2>1, TheTypes
  <2>3. /\ up' = Append(up, TELEMETRY(session_key))
        /\ pending_ephemeral_key' = pending_ephemeral_key
    BY <1>2, <2>2 DEF SendTelemetry
  <2>4. Len(up') = Len(up) + 1
    BY <1>2, <2>1, <2>2, Sending
  <2> QED
    BY <1>1, <1>2, <2>3, <2>4, GoingTelemetry
<1>3. CASE SessionTimeout
  <2>1. active' = None /\ UNCHANGED <<uavVars, pending, tasks, up, down>>
    BY <1>3 DEF SessionTimeout
  <2>2. NoLateHandshake'
    BY <1>1, <2>1 DEF HandshakeQuiet, NoLateHandshake, InFlight
  <2>3. OneRekey' /\ NewKeyUnused' /\ PromotedFirst'
    BY <1>1, <2>1
    DEF Going, OneRekey, NewKeyUnused, PromotedFirst, AtMostOne, InFlight, uavVars
  <2>4. RekeyIsPending'
    BY <1>1, <2>1 DEF Going, RekeyIsPending, uavVars
  <2> QED
    BY <1>1, <2>1, <2>2, <2>3, <2>4 DEF Going, uavVars
<1>4. CASE ResetInterval
  BY <1>1, <1>4, GoingSame DEF ResetInterval, uavVars
<1>5. ~ \E i \in 1..MaxTasks : AnswerRequest(i)
  <2> SUFFICES ASSUME NEW i \in 1..MaxTasks, AnswerRequest(i)
               PROVE  FALSE
    OBVIOUS
  <2>1. tasks = <<>> \/ tasks = <<REKEY_REQ(pending_ephemeral_key)>>
    BY DEF Secure, Quiet, Asked, Working, Answered
  <2>2. i = 1
    BY <2>1 DEF AnswerRequest
  <2> QED
    BY <2>2 DEF AnswerRequest, FaultUnless
<1>6. CASE Lose
  <2>1. UNCHANGED <<uavVars, gksVars>>
    BY <1>6 DEF Lose
  <2>2. CASE (\E i \in 1..Len(up) : up' = RemoveAt(up, i)) /\ UNCHANGED down
    BY <2>1, <2>2, UpFault
  <2>3. CASE (\E i \in 1..Len(down) : down' = RemoveAt(down, i)) /\ UNCHANGED up
    BY <2>1, <2>3, DownFault
  <2> QED
    BY <1>6, <2>2, <2>3 DEF Lose
<1>7. CASE Delay
  <2>1. UNCHANGED <<uavVars, gksVars>>
    BY <1>7 DEF Delay
  <2>2. CASE /\ \E i \in 1..(Len(up) - 1) : up' = Append(RemoveAt(up, i), up[i])
             /\ UNCHANGED down
    <3>1. PICK i \in 1..(Len(up) - 1) : up' = Append(RemoveAt(up, i), up[i])
      BY <2>2
    <3>2. i \in 1..Len(up)
      BY InChannels
    <3> QED
      BY <2>1, <2>2, <3>1, <3>2, UpFault
  <2>3. CASE /\ \E i \in 1..(Len(down) - 1) : down' = Append(RemoveAt(down, i), down[i])
             /\ UNCHANGED up
    <3>1. PICK i \in 1..(Len(down) - 1) : down' = Append(RemoveAt(down, i), down[i])
      BY <2>3
    <3>2. i \in 1..Len(down)
      BY InChannels
    <3> QED
      BY <2>1, <2>3, <3>1, <3>2, DownFault
  <2> QED
    BY <1>7, <2>2, <2>3 DEF Delay
<1>8. CASE GksRestart
  <2>1. /\ active' = None /\ pending' = None /\ tasks' = <<>>
        /\ UNCHANGED <<uavVars, up, down>>
    BY <1>8 DEF GksRestart
  <2>2. NoLateHandshake'
    BY <1>1, <2>1 DEF HandshakeQuiet, NoLateHandshake, InFlight
  <2>3. OneRekey'
    BY <1>1, <2>1 DEF Going, OneRekey, AtMostOne, InFlight
  <2>4. session_key' # None
    BY <2>1 DEF Inv, UavInv, Secure, uavVars
  <2>5. RekeyIsPending'
    BY <1>1, <2>1, <2>4 DEF Going, RekeyIsPending, uavVars
  <2>6. NewKeyUnused' /\ PromotedFirst'
    BY <2>1, <2>4 DEF NewKeyUnused, PromotedFirst
  <2> QED
    BY <1>1, <2>1, <2>2, <2>3, <2>5, <2>6 DEF Going, uavVars
<1>9. CASE UavRestart
  <2>1. phase' = "idle" /\ down' = <<>> /\ UNCHANGED <<tasks, up>>
    BY <1>9 DEF UavRestart, gksVars
  <2> QED
    BY <1>1, <2>1 DEF Connecting, HandshakeQuiet, InFlight
<1>10. ~ PerformHandshake /\ ~ AwaitResponse /\ ~ HandshakeTimeout
  BY DEF Secure, PerformHandshake, AwaitResponse, HandshakeTimeout
<1>11. /\ ~ ListenForAcks /\ ~ ReceiveRequest /\ ~ TelemetryNoSession
       /\ ~ TelemetryWithSession /\ ~ SendCommand
  BY DEF ListenForAcks, ReceiveRequest, TelemetryNoSession, TelemetryWithSession,
         SendCommand
<1> QED
  BY <1>2, <1>3, <1>4, <1>5, <1>6, <1>7, <1>8, <1>9, <1>10, <1>11 DEF Next

\* The actions that spend no fault, whatever the state.
LEMMA NeverAFault ==
  ASSUME faults' # faults
  PROVE  /\ ~ PerformHandshake /\ ~ AwaitResponse /\ ~ ListenForAcks /\ ~ ReceiveRequest
         /\ ~ TelemetryNoSession /\ ~ TelemetryWithSession /\ ~ SendCommand
BY DEF PerformHandshake, AwaitResponse, ListenForAcks, ReceiveRequest, TelemetryNoSession,
       TelemetryWithSession, SendCommand

LEMMA StartedFault ==
  ASSUME Inv, Started, Next, faults' # faults
  PROVE  Connecting'
<1>1. HandshakeQuiet /\ phase = "idle"
  BY DEF Started, HandshakeQuiet, InFlight
<1>2. CASE GksRestart \/ UavRestart
  BY <1>1, <1>2 DEF GksRestart, UavRestart, Connecting, HandshakeQuiet, InFlight,
     uavVars, gksVars
<1>3. CASE ResetInterval
  BY <1>1, <1>3 DEF ResetInterval, Connecting, HandshakeQuiet, InFlight, uavVars
<1>4. ~ HandshakeTimeout /\ ~ SendTelemetry /\ ~ SessionTimeout
  BY DEF Started, NoSession, HandshakeTimeout, SendTelemetry, SessionTimeout
<1>5. ~ Lose /\ ~ Delay
  BY DEF Started, Lose, Delay
<1>6. ~ \E i \in 1..MaxTasks : AnswerRequest(i)
  BY DEF Started, AnswerRequest
<1> QED
  BY <1>2, <1>3, <1>4, <1>5, <1>6, NeverAFault DEF Next

LEMMA RequestFault ==
  ASSUME Inv, RequestUnderWay, Next, faults' # faults
  PROVE  Connecting'
<1> DEFINE r == HANDSHAKE_REQ(ephemeral)
<1>1. /\ r.type = "HANDSHAKE_REQ" /\ ephemeral \in Ephs
      /\ NoSession /\ phase = "waiting" /\ active = None /\ down = <<>>
      /\ (up = <<r>> /\ tasks = <<>>) \/ (tasks = <<r>> /\ up = <<>>)
  BY DEF HANDSHAKE_REQ, RequestUnderWay, Inv, UavInv
<1>2. OneRequest(ephemeral)
  BY <1>1 DEF OneRequest
<1>3. Requested
  <2> HIDE DEF r
  <2>1. CASE up = <<r>> /\ tasks = <<>>
    <3>1. up # <<>> /\ Len(up) = 1 /\ up[1] = r
      BY <2>1
    <3>2. LastRequest(up)
      BY <3>1 DEF LastRequest, r
    <3> QED
      BY <1>1, <2>1, <3>2 DEF Requested, InFlight
  <2>2. CASE tasks = <<r>> /\ up = <<>>
    <3>1. tasks # <<>> /\ Len(tasks) = 1 /\ tasks[1] = r
      BY <2>2
    <3>2. LastRequest(tasks)
      BY <3>1 DEF LastRequest, r
    <3> QED
      BY <1>1, <2>2, <3>2 DEF Requested, InFlight
  <2> QED
    BY <1>1, <2>1, <2>2
<1> HIDE DEF r
\* Given up, by the UAV or with it.
<1>4. CASE HandshakeTimeout \/ UavRestart
  <2>1. /\ phase' = "idle" /\ down' = <<>> /\ UNCHANGED <<active, pending, last_seen, tasks, up>>
        /\ NoSession'
    BY <1>1, <1>4 DEF HandshakeTimeout, UavRestart, NoSession, gksVars
  <2>2. (\E e \in Ephs : OneRequest(e))'
    BY <1>1, <1>2, <2>1 DEF OneRequest
  <2> QED
    BY <1>1, <2>1, <2>2 DEF Connecting, Doubled
<1>5. CASE Lose
  <2>1. \E i \in 1..Len(up) : up' = RemoveAt(up, i)
    BY <1>1, <1>5 DEF Lose
  <2>2. up = <<r>> /\ tasks = <<>>
    BY <1>1, <2>1
  <2>3. Len(up) = 1
    BY <2>2
  <2>4. up' = <<>>
    BY <2>1, <2>3, TheChannels, RemovedOnly
  <2>5. UNCHANGED <<uavVars, gksVars>> /\ down' = <<>>
    BY <1>1, <1>5, <2>1, <2>2, <2>4 DEF Lose
  <2> QED
    BY <1>1, <2>2, <2>4, <2>5 DEF Connecting, HandshakeQuiet, InFlight, uavVars, gksVars
<1>6. CASE GksRestart
  <2>1. tasks' = <<>> /\ UNCHANGED <<uavVars, up, down>>
    BY <1>6 DEF GksRestart
  <2>2. CASE up = <<>>
    BY <1>1, <2>1, <2>2 DEF Connecting, HandshakeQuiet, InFlight, uavVars
  <2>3. CASE up # <<>>
    <3>1. LastRequest(up)
      BY <1>1, <1>3, <2>3 DEF Requested
    <3>2. LastRequest(up)' /\ ~ InFlight(tasks, "HANDSHAKE_REQ")'
      BY <2>1, <3>1 DEF LastRequest, InFlight, uavVars
    <3> QED
      BY <1>1, <2>1, <3>2 DEF Connecting, Requested, InFlight, uavVars
  <2> QED
    BY <2>2, <2>3
<1>7. CASE ResetInterval
  BY <1>1, <1>3, <1>7 DEF ResetInterval, Connecting, Requested, LastRequest, InFlight, uavVars
<1>8. ~ Delay
  <2>1. Len(up) <= 1 /\ Len(up) \in Nat /\ Len(down) = 0
    <3>1. Len(<<>>) = 0 /\ Len(<<r>>) = 1
      OBVIOUS
    <3>2. Len(up) = 0 \/ Len(up) = 1
      BY <1>1, <3>1
    <3>3. Len(down) = 0
      BY <1>1
    <3>4. Len(up) <= 1 /\ Len(up) \in Nat
      <4> DEFINE n == Len(up)
      <4>1. n = 0 \/ n = 1
        BY <3>2
      <4> HIDE DEF n
      <4>2. n <= 1 /\ n \in Nat
        BY <4>1
      <4> QED
        BY <4>2 DEF n
    <3> QED
      BY <3>3, <3>4
  <2>2. ~ \E i \in 1..(Len(up) - 1) : TRUE
    BY <2>1
  <2> QED
    BY <2>1, <2>2 DEF Delay
<1>9. ~ \E i \in 1..MaxTasks : AnswerRequest(i)
  <2> SUFFICES ASSUME NEW i \in 1..MaxTasks, AnswerRequest(i)
               PROVE  FALSE
    OBVIOUS
  <2>1. i = 1
    BY <1>1 DEF AnswerRequest
  <2> QED
    BY <2>1 DEF AnswerRequest, FaultUnless
<1>10. ~ SendTelemetry /\ ~ SessionTimeout
  BY <1>1 DEF NoSession, SendTelemetry, SessionTimeout
<1> QED
  BY <1>4, <1>5, <1>6, <1>7, <1>8, <1>9, <1>10, NeverAFault DEF Next

LEMMA ResponseFault ==
  ASSUME Inv, ResponseUnderWay, Next, faults' # faults
  PROVE  Connecting'
<1>1. /\ NoSession /\ phase = "waiting" /\ active # None
      /\ up = <<>> /\ tasks = <<>> /\ down # <<>>
      /\ down[1].type = "HANDSHAKE_RES"
      /\ \A i \in 2..Len(down) : down[i].type = "COMMAND"
      /\ Len(down) \in Nat
  BY InChannels DEF ResponseUnderWay, HANDSHAKE_RES
<1>2. Len(down) > 0 /\ 1 \in 1..Len(down)
  BY <1>1, TheChannels
\* The answer and commands, in some order.
<1>3. ASSUME UNCHANGED phase, up' = <<>>, tasks' = <<>>, NEW j \in 1..Len(down'),
             down'[j].type = "HANDSHAKE_RES",
             \A i \in 1..Len(down') : i # j => down'[i].type = "COMMAND"
      PROVE  Connecting'
  <2>1. (\E x \in 1..Len(down) : RespondedAt(x))'
    BY <1>3 DEF RespondedAt
  <2> QED
    BY <1>1, <1>3, <2>1 DEF Connecting, Responded, NoRequest
<1>4. CASE HandshakeTimeout
  <2>1. phase' = "idle" /\ UNCHANGED <<active, pending, last_seen, tasks, up, down>> /\ NoSession'
    BY <1>1, <1>4 DEF HandshakeTimeout, NoSession, gksVars
  <2>2. OnlyResponses
    BY <1>1 DEF OnlyResponses
  <2>3. LateResponse' /\ NoRequest'
    BY <1>1, <2>1, <2>2 DEF LateResponse, OnlyResponses, NoRequest
  <2> QED
    BY <2>1, <2>3 DEF Connecting, Doubled
<1>5. CASE UavRestart
  BY <1>1, <1>5 DEF UavRestart, Connecting, HandshakeQuiet, InFlight, gksVars
<1>6. CASE GksRestart
  <2>1. UNCHANGED <<phase, down>> /\ up' = <<>> /\ tasks' = <<>>
    BY <1>1, <1>6 DEF GksRestart, uavVars
  <2>2. \A i \in 1..Len(down) : i # 1 => down[i].type = "COMMAND"
    BY <1>1
  <2> QED
    BY <1>1, <1>2, <1>3, <2>1, <2>2
<1>7. ASSUME NEW i \in 1..Len(down), UNCHANGED <<uavVars, gksVars, up>>,
             \/ down' = RemoveAt(down, i)
             \/ i < Len(down) /\ down' = Append(RemoveAt(down, i), down[i])
      PROVE  Connecting'
  <2> DEFINE p(j) == Place(j, i, Len(down))
  <2>1. /\ Len(down') \in Nat /\ Len(down') \in {Len(down) - 1, Len(down)}
        /\ \A j \in 1..Len(down') : down'[j] = down[p(j)]
    BY <1>7, TheChannels, ChannelFault
  <2>2. InPlace(Len(down'), i, Len(down))
    <3> DEFINE n == Len(down)
               m == Len(down')
    <3>1. n \in Nat /\ i \in 1..n /\ m \in {n - 1, n}
      BY <1>1, <2>1
    <3> HIDE DEF n, m
    <3>2. InPlace(m, i, n)
      BY <3>1, Places
    <3> QED
      BY <3>2 DEF n, m
  <2>3. /\ \A j \in 1..Len(down') : p(j) \in 1..Len(down)
        /\ \A j, k \in 1..Len(down') : p(j) = p(k) => j = k
    BY <2>2, Zenon DEF InPlace
  <2> HIDE DEF p
  <2>4. UNCHANGED phase /\ up' = <<>> /\ tasks' = <<>>
    BY <1>1, <1>7 DEF uavVars, gksVars
  <2>5. \A j \in 1..Len(down') : p(j) # 1 => down'[j].type = "COMMAND"
    BY <1>1, <2>1, <2>3
  <2>6. CASE \E j \in 1..Len(down') : p(j) = 1
    <3>1. PICK j \in 1..Len(down') : p(j) = 1
      BY <2>6
    <3>2. \A k \in 1..Len(down') : k # j => down'[k].type = "COMMAND"
      BY <2>3, <2>5, <3>1
    <3>3. down'[j].type = "HANDSHAKE_RES"
      BY <1>1, <2>1, <3>1
    <3> QED
      BY <1>3, <2>4, <3>2, <3>3
  <2>7. CASE ~ \E j \in 1..Len(down') : p(j) = 1
    <3>1. \A j \in 1..Len(down') : down'[j].type = "COMMAND"
      BY <2>5, <2>7
    <3> QED
      BY <1>1, <2>4, <3>1 DEF Connecting, HandshakeQuiet, InFlight
  <2> QED
    BY <2>6, <2>7
<1>8. CASE Lose
  <2>1. UNCHANGED <<uavVars, gksVars, up>> /\ \E i \in 1..Len(down) : down' = RemoveAt(down, i)
    BY <1>1, <1>8 DEF Lose
  <2> QED
    BY <1>7, <2>1
<1>9. CASE Delay
  <2>1. /\ UNCHANGED <<uavVars, gksVars, up>>
        /\ \E i \in 1..(Len(down) - 1) : down' = Append(RemoveAt(down, i), down[i])
    BY <1>1, <1>9 DEF Delay
  <2>2. PICK i \in 1..(Len(down) - 1) : down' = Append(RemoveAt(down, i), down[i])
    BY <2>1
  <2>3. i \in 1..Len(down) /\ i < Len(down)
    BY <1>1
  <2> QED
    BY <1>7, <2>1, <2>2, <2>3
<1>10. CASE ResetInterval
  <2>1. UNCHANGED <<phase, down>> /\ up' = <<>> /\ tasks' = <<>>
    BY <1>1, <1>10 DEF ResetInterval, uavVars
  <2>2. \A i \in 1..Len(down) : i # 1 => down[i].type = "COMMAND"
    BY <1>1
  <2> QED
    BY <1>1, <1>2, <1>3, <2>1, <2>2
<1>11. ~ SendTelemetry /\ ~ SessionTimeout
  BY <1>1 DEF NoSession, SendTelemetry, SessionTimeout
<1>12. ~ \E i \in 1..MaxTasks : AnswerRequest(i)
  BY <1>1 DEF AnswerRequest
<1> QED
  BY <1>4, <1>5, <1>6, <1>8, <1>9, <1>10, <1>11, <1>12, NeverAFault DEF Next
-----------------------------------------------------------------------------
(* The ground station makes before it breaks. *)

LEMMA NextOne ==
  ASSUME Inv, FreeInv, Counts, OneFault, [Next]_vars, RekeyThreshold > 2
  PROVE  OneFault'
<1>1. CASE Next
  <2> SUFFICES ASSUME faults' = 1
               PROVE  Connecting' \/ Going'
    BY DEF OneFault
  <2>1. CASE faults' = faults
    BY <1>1, <2>1, ConnectingStep, GoingStep DEF OneFault
  <2>2. CASE faults' # faults
    <3>1. faults = 0
      BY <1>1, <2>2, NextFaults, TheTypes DEF Fault, Inv
    <3>2. Secure => Counted
      BY <3>1 DEF Counts, Secure
    <3> QED
      BY <1>1, <2>2, <3>1, <3>2, StartedFault, RequestFault, ResponseFault, SecureFault
      DEF FreeInv
  <2> QED
    BY <2>1, <2>2
<1>2. CASE UNCHANGED vars
  <2>1. Connecting => Connecting'
    BY <1>2 DEF vars, uavVars, gksVars, Connecting, HandshakeQuiet, Requested, LastRequest,
       Responded, RespondedAt, NoRequest, Doubled, NoSession, OneRequest, TwoRequests,
       LateResponse, OnlyResponses, InFlight
  <2>2. Going => Going'
    BY <1>2, GoingSame DEF vars, uavVars, gksVars
  <2> QED
    BY <1>2, <2>1, <2>2 DEF vars, OneFault
<1> QED
  BY <1>1, <1>2

LEMMA NotBroken ==
  ASSUME Inv, FreeInv, FreeInv', OneFault, [Next]_vars,
         Agreed, faults <= 1, faults' = faults, UNCHANGED uavVars
  PROVE  Agreed'
<1>0. UNCHANGED <<phase, session_key>> /\ phase = "secure" /\ session_key # None
  BY DEF uavVars, Agreed, Inv, UavInv
<1>1. CASE faults = 0
  BY <1>0, <1>1, FreeAgreed DEF FreeInv, FaultFreeAgreement, Agreed, Started,
     RequestUnderWay, ResponseUnderWay, Secure, Quiet, Asked, Working, Answered
<1>2. CASE faults = 1
  <2>1. Going
    BY <1>0, <1>2 DEF OneFault, Connecting
  <2>2. CASE UNCHANGED <<active, pending>>
    BY <1>0, <2>2 DEF Agreed
\* The answer replaces the key that is not used.
  <2>3. ASSUME NEW i \in 1..MaxTasks, AnswerRequest(i) PROVE Agreed'
    <3>1. /\ tasks # <<>> /\ 1 \in 1..Len(tasks)
          /\ tasks[1].type \in {"HANDSHAKE_REQ", "REKEY_REQ"}
      BY <2>3, OldestAnswered, RequestFields
    <3>2. CASE tasks[1].type = "HANDSHAKE_REQ"
      <4>1. Overtaken
        BY <2>1, <3>1, <3>2 DEF Going, NoLateHandshake, InFlight
      <4> QED
        BY <4>1, <1>0 DEF Overtaken, Agreed
    <3>3. CASE tasks[1].type = "REKEY_REQ"
      <4>1. active' = active
        BY <2>3, <3>3, Answering
      <4>2. session_key # pending
        BY <2>1, <3>1, <3>3 DEF Going, PromotedFirst, InFlight
      <4> QED
        BY <4>1, <4>2, <1>0 DEF Agreed
    <3> QED
      BY <3>1, <3>2, <3>3
\* Only the key that is used is promoted.
  <2>4. CASE TelemetryWithSession
    <3>1. up # <<>> /\ up[1].type = "TELEMETRY" /\ DecryptPayload(up[1].k)
      BY <2>4, UpRead DEF TelemetryWithSession
    <3>2. up[1].k = pending => session_key = pending
      BY <2>1, <3>1, OnlyUsedPromoted
    <3> QED
      BY <1>0, <3>1, <3>2 DEF DecryptPayload, Agreed
  <2>5. ~ SessionTimeout
    BY SpentNoFault DEF SessionTimeout, FaultUnless
  <2>6. ~ GksRestart
    BY SpentNoFault DEF GksRestart
  <2> QED
    BY <2>2, <2>3, <2>4, <2>5, <2>6
    DEF Next, vars, gksVars, PerformHandshake, AwaitResponse, HandshakeTimeout,
        SendTelemetry, ListenForAcks, ReceiveRequest, TelemetryNoSession, ResetInterval,
        SendCommand, Lose, Delay, UavRestart
<1>3. faults \in Nat
  BY TheTypes DEF Inv
<1> QED
  BY <1>1, <1>2, <1>3

\* The GKS makes before it breaks: whatever single fault the network, a timer or a
\* restart has caused so far, neither the answer to a handshake or a rekey nor a
\* promotion takes from the GKS the key that the UAV uses (crypto_manager.py:51-54,
\* 58-72).  The UAV must send more than two packets between rotations (the code:
\* REKEY_PACKET_THRESHOLD = 100, Constants.hpp:17): with two, the loss of the
\* one packet that promotes a key lets the next request arrive before the
\* promotion, and its answer replaces the pending key, which is the one in use.
THEOREM GksMakesBeforeItBreaks ==
  ASSUME RekeyThreshold > 2
  PROVE  Spec => MakeBeforeBreak
<1> DEFINE All == Inv /\ FreeInv /\ Counts /\ OneFault
           Kept == Agreed /\ faults <= 1 /\ faults' = faults /\ UNCHANGED uavVars => Agreed'
<1>1. Init => All
  BY InitInv, InitFree DEF Init, Counts, OneFault
<1>2. All /\ [Next]_vars => All'
  BY NextInv, NextFree, NextCounts, NextOne
<1>3. All /\ All' /\ [Next]_vars => [Kept]_vars
  BY NotBroken
<1> QED
  BY <1>1, <1>2, <1>3, PTL DEF Spec, MakeBeforeBreak
=============================================================================
