--------------------------- MODULE MCRateLimiter ---------------------------
(* RateLimiter on two source addresses.  The cfg gives a bucket of three   *)
(* datagrams that earns half a datagram per tick, so that emptying it,     *)
(* refusing, earning and capping all happen within MaxReal.                *)
EXTENDS RateLimiter, TLC

\* Addresses are interchangeable.
Symmetry == Permutations(IPs)
=============================================================================
