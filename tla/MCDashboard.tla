----------------------------- MODULE MCDashboard -----------------------------
(***************************************************************************)
(* Instances for TLC of what the bridge serves over HTTP: the stats page,   *)
(* the rolling counters shown on it, and the rewards of a miner.  They      *)
(* share no state that a request changes, so a behaviour follows one of     *)
(* them and the others stay as they were.                                   *)
(***************************************************************************)
EXTENDS Dashboard, RollingStats, MinerRewards

VARIABLE served  \* the one that is followed

allVars == <<served, vars, rollingVars, rewardVars>>

MCInit ==
    /\ served \in {"page", "counters", "rewards"}
    /\ Init /\ (served # "page" => view = "table")
    /\ RollingInit
    /\ RewardsInit /\ (served # "rewards" => db[1] = NoRig)

MCNext ==
    /\ UNCHANGED served
    /\ \/ served = "page" /\ Next /\ UNCHANGED <<rollingVars, rewardVars>>
       \/ served = "counters" /\ RollingNext /\ UNCHANGED <<vars, rewardVars>>
       \/ served = "rewards" /\ RewardsNext /\ UNCHANGED <<vars, rollingVars>>

MCSpec == MCInit /\ [][MCNext]_allVars /\ Fairness

==============================================================================
