---------------------------- MODULE MCApiEdge ----------------------------
(***************************************************************************)
(* RateLimiter and AgentChannel, which share no state: the first state     *)
(* says which of them moves, and the other one stays as it began.          *)
(***************************************************************************)
EXTENDS RateLimiter, AgentChannel

VARIABLE part   \* "limiter" or "channel"

EdgeInit ==
  /\ part \in {"limiter", "channel"}
  /\ LimiterInit /\ Init
  /\ part = "limiter" => producer /\ \A c \in Connections : path[c] = "delta"

EdgeNext ==
  \/ part = "limiter" /\ LimiterNext /\ UNCHANGED <<part, vars>>
  \/ part = "channel" /\ Next /\ UNCHANGED <<part, limiterVars>>

EdgeSpec ==
  /\ EdgeInit /\ [][EdgeNext]_<<part, limiterVars, vars>>
  /\ \A c \in Connections : WF_vars(Handling(c))
=============================================================================
