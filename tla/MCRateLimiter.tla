---------------------------- MODULE MCRateLimiter ----------------------------
(* TLC instances of RateLimiter: the limits 100, 20, 50 and 10 scaled down, their order
   kept. *)
EXTENDS RateLimiter

ScaledLimit == [name \in Name |->
    CASE name = "default" -> 4 [] name = "auth" -> 2 [] name = "transactions" -> 3
      [] name = "strict" -> 1]
=============================================================================
