---------------------------- MODULE MCChangeFeed ----------------------------
(* The change feed for TLC, and beside it the wire server, each alone.     *)
EXTENDS ChangeFeed, Wire

CONSTANT Machines   \* the machines that are run

VARIABLE machine

mvars == <<machine, vars, wvars>>

MCInit ==
  /\ Init /\ WireInit /\ machine \in Machines
  /\ machine = "feed" => \A max \in ConnLimits : server.maxConns <= max

MCNext ==
  /\ UNCHANGED machine
  /\ \/ machine = "feed" /\ Next /\ UNCHANGED wvars
     \/ machine = "wire" /\ WireNext /\ UNCHANGED vars

MCSpec == MCInit /\ [][MCNext]_mvars /\ Fairness /\ WireFairness
=============================================================================
