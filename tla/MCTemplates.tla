----------------------------- MODULE MCTemplates -----------------------------
(* Instances of Templates for TLC: with a cache, without one, and with a     *)
(* vote, which bypasses it.  With a cache the bridge fee, which multiplies   *)
(* the states, is left to MCGbtCache.                                        *)
EXTENDS Templates

CONSTANTS w1, Bridge

MCConfigs ==
    {[caching |-> TRUE, poll |-> FALSE, vote |-> FALSE, fee |-> FALSE],
     [caching |-> FALSE, poll |-> FALSE, vote |-> FALSE, fee |-> TRUE],
     [caching |-> TRUE, poll |-> TRUE, vote |-> TRUE, fee |-> FALSE]}
==============================================================================
