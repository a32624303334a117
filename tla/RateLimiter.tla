---------------------------- MODULE RateLimiter ----------------------------
(***************************************************************************)
(* The flood protection of the ground station: one token bucket per source *)
(* address, created by the first datagram of that address                  *)
(* (AegisUdpProtocol.datagram_received and TokenBucketRateLimiter of       *)
(* GKS_Server/server.py).                                                  *)
(*                                                                         *)
(* The bucket measures time with time.time(), the wall clock, which an     *)
(* adjustment of the host's clock may set back.  The clock the code reads  *)
(* is real - skew, where real is physical time and skew is the sum of all  *)
(* the backward steps so far.                                              *)
(*                                                                         *)
(* Tokens are counted in units small enough to make every quantity an      *)
(* integer: a datagram costs Cost units and one tick of the clock brings   *)
(* Rate units.  (The code's 150 tokens at 100 tokens/s are Capacity = 300, *)
(* Cost = 2, Rate = 1 with a tick of 5 ms.)                                *)
(***************************************************************************)
EXTENDS Integers

CONSTANTS
  IPs,       \* source addresses
  Capacity,  \* capacity of a bucket, in units
  Cost,      \* units one datagram consumes
  Rate,      \* units refilled per tick
  MaxReal,   \* bound on physical time
  MaxSkew    \* bound on the sum of the backward steps of the wall clock

ASSUME RateLimiterAssumption ==
  /\ Capacity \in Nat
  /\ Cost \in Nat \ {0}
  /\ Cost <= Capacity
  /\ Rate \in Nat \ {0}
  /\ MaxReal \in Nat
  /\ MaxSkew \in Nat

VARIABLES
  real,         \* physical time, in ticks
  skew,         \* how far the wall clock has been set back in total
  ip_limiters,  \* the addresses that have a bucket
  tokens,       \* tokens[ip]: units in the bucket; may become negative
  last_update,  \* last_update[ip]: wall clock at the last consume()
  winStart,     \* history: physical time at which the observer began to count
  passed        \* history: datagrams of ip let through since winStart

limiterVars == <<real, skew, ip_limiters, tokens, last_update, winStart, passed>>

\* What time.time() returns.
WallClock == real - skew

\* The bucket of ip as consume() finds it: a new one is full and up to date.
Held(ip)  == IF ip \in ip_limiters THEN tokens[ip] ELSE Capacity
Since(ip) == IF ip \in ip_limiters THEN last_update[ip] ELSE WallClock

\* Variant, not the code: a step back of the clock refills the bucket too.
AbsoluteRefill(ip) ==
  LET dt == IF WallClock >= Since(ip) THEN WallClock - Since(ip)
                                      ELSE Since(ip) - WallClock
      t  == Held(ip) + Rate * dt
  IN  IF t > Capacity THEN Capacity ELSE t

\* The refill at the start of consume().
Refilled(ip) ==
  LET t == Held(ip) + Rate * (WallClock - Since(ip))
  IN  IF t > Capacity THEN Capacity ELSE t

LimiterTypeOK ==
  /\ real \in Nat
  /\ skew \in Nat
  /\ ip_limiters \subseteq IPs
  /\ tokens \in [IPs -> Int]
  /\ \A ip \in IPs : tokens[ip] <= Capacity
  /\ last_update \in [IPs -> Int]
  /\ winStart \in Nat
  /\ passed \in [IPs -> Nat]

LimiterInit ==
  /\ real = 0
  /\ skew = 0
  /\ ip_limiters = {}
  /\ tokens = [ip \in IPs |-> Capacity]
  /\ last_update = [ip \in IPs |-> 0]
  /\ winStart = 0
  /\ passed = [ip \in IPs |-> 0]

\* Variant, not the code: a refused datagram is charged as well.
DatagramChargesRefused(ip) ==
  /\ ip_limiters' = ip_limiters \cup {ip}
  /\ last_update' = [last_update EXCEPT ![ip] = WallClock]
  /\ tokens' = [tokens EXCEPT ![ip] = Refilled(ip) - Cost]
  /\ passed' = [passed EXCEPT ![ip] = IF Refilled(ip) >= Cost THEN @ + 1 ELSE @]
  /\ UNCHANGED <<real, skew, winStart>>

\* datagram_received + consume(1): the refill is kept whether or not the
\* datagram passes; only a datagram that passes pays.
Datagram(ip) ==
  /\ ip_limiters' = ip_limiters \cup {ip}
  /\ last_update' = [last_update EXCEPT ![ip] = WallClock]
  /\ \/ /\ Refilled(ip) >= Cost
        /\ tokens' = [tokens EXCEPT ![ip] = Refilled(ip) - Cost]
        /\ passed' = [passed EXCEPT ![ip] = @ + 1]
     \/ /\ Refilled(ip) < Cost
        /\ tokens' = [tokens EXCEPT ![ip] = Refilled(ip)]
        /\ UNCHANGED passed
  /\ UNCHANGED <<real, skew, winStart>>

\* Physical time passes.
Tick ==
  /\ real < MaxReal
  /\ real' = real + 1
  /\ UNCHANGED <<skew, ip_limiters, tokens, last_update, winStart, passed>>

\* The host's clock is set back by d ticks.
StepBack(d) ==
  /\ skew + d <= MaxSkew
  /\ skew' = skew + d
  /\ UNCHANGED <<real, ip_limiters, tokens, last_update, winStart, passed>>

\* The observer starts to count afresh: the bound must hold from any moment.
OpenWindow ==
  /\ winStart' = real
  /\ passed' = [ip \in IPs |-> 0]
  /\ UNCHANGED <<real, skew, ip_limiters, tokens, last_update>>

LimiterNext ==
  \/ \E ip \in IPs : Datagram(ip)
  \/ Tick
  \/ \E d \in 1..MaxSkew : StepBack(d)
  \/ OpenWindow

LimiterSpec == LimiterInit /\ [][LimiterNext]_limiterVars

-----------------------------------------------------------------------------
\* Over every interval of physical time, wherever it starts, a source gets at
\* most one full bucket plus what the rate earns in that interval, also when
\* the wall clock is set back in between (server.py:25-34 keeps the refill and
\* the time of a refused datagram, and caps the bucket).
RateBound ==
  \A ip \in IPs : Cost * passed[ip] <= Capacity + Rate * (real - winStart)

\* A source that has been silent for the time of one token plus all the time
\* the clock was set back is let through.  A backward step makes the next
\* refill negative (server.py:28 has no lower bound on time_passed) and can put
\* a bucket into debt; the debt never exceeds what the steps are worth.
QuietSourcePasses ==
  \A ip \in ip_limiters :
    Rate * (WallClock - last_update[ip]) >= Cost + Rate * skew
      => Refilled(ip) >= Cost
=============================================================================
