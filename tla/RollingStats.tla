---------------------------- MODULE RollingStats ----------------------------
(***************************************************************************)
(* The rolling counters of a worker (updateRollingCounters and its readers  *)
(* in share_handler.go): shares counted per minute in maps from which the   *)
(* minutes of the past day are read, and the older ones deleted whenever a  *)
(* share comes in.  They feed the page's hashrates and the stats table.     *)
(***************************************************************************)
EXTENDS Naturals, Sequences, FiniteSets, Functions

CONSTANTS
    Window,    \* minutes of the day: 1440
    Hour,      \* minutes of the hour: 60
    Diffs,     \* difficulties of shares
    MaxShares, \* bound on the shares of a row
    MaxMinute  \* bound on the clock

ASSUME RollingAssumption ==
    /\ Window \in Nat \ {0} /\ Hour \in 1..Window
    /\ Diffs \subseteq Nat /\ MaxShares \in Nat /\ MaxMinute \in Nat

VARIABLES
    minute,  \* now.Unix() / 60
    rolling, \* RollingShares, RollingSharesDiff, RollingStaleShares, RollingInvalidShares
    shares   \* history: the shares of the row

rollingVars == <<minute, rolling, shares>>

(* The empty maps of a new row *)
NoShares == [kind \in {"valid", "diff", "stale", "invalid"} |-> <<>>]

(* f[k] += n, where an absent key counts as zero *)
Add(f, k, n) ==
    [m \in DOMAIN f \union {k} |-> (IF m \in DOMAIN f THEN f[m] ELSE 0) + (IF m = k THEN n ELSE 0)]

(* Mutant of Prune: the maps are cut to the hour. *)
PruneMutant(f, now) == [m \in {k \in DOMAIN f : k + Hour >= now} |-> f[m]]

(* delete every key below now - 1440 *)
Prune(f, now) == [m \in {k \in DOMAIN f : k + Window >= now} |-> f[m]]

(* updateRollingCounters *)
UpdateRollingCounters(kind, diff) ==
    LET counted ==
        [m \in DOMAIN rolling |->
            CASE m = kind                    -> Add(rolling[m], minute, 1)
              [] m = "diff" /\ kind = "valid" -> Add(rolling[m], minute, diff)
              [] OTHER                       -> rolling[m]]
    IN  rolling' = [m \in DOMAIN rolling |-> Prune(counted[m], minute)]

(* The sum over the last n minutes: GetRollingShares and, of the map of       *)
(* difficulties, GetRollingAverageHashrateGHs and                             *)
(* GetOneHourAverageHashrateGHs before the division by the seconds.           *)
SumLast(f, n) == SumFunctionOnSet(f, {k \in DOMAIN f : k <= minute /\ k + n > minute})

-----------------------------------------------------------------------------
RollingInit ==
    /\ minute = 0
    /\ rolling = NoShares
    /\ shares = <<>>

Share(kind, diff) ==
    /\ Len(shares) < MaxShares
    /\ UpdateRollingCounters(kind, diff)
    /\ shares' = Append(shares, [at |-> minute, kind |-> kind, diff |-> diff])
    /\ UNCHANGED minute

Minute ==
    /\ minute < MaxMinute
    /\ minute' = minute + 1
    /\ UNCHANGED <<rolling, shares>>

(* The worker reconnects: removeStats, then a new row in getCreateStats.  Only   *)
(* times within a row are compared, so the clock is counted from there.         *)
NewRow ==
    /\ rolling' = NoShares
    /\ shares' = <<>>
    /\ minute' = 0

RollingNext ==
    \/ \E kind \in {"valid", "stale", "invalid"}, diff \in Diffs : Share(kind, diff)
    \/ Minute
    \/ NewRow

RollingSpec == RollingInit /\ [][RollingNext]_rollingVars

-----------------------------------------------------------------------------
(* Properties                                                               *)

SharesIn(kind, n) ==
    {i \in DOMAIN shares : shares[i].kind = kind /\ shares[i].at + n > minute}

DiffIn(n) ==
    SumFunctionOnSet([i \in DOMAIN shares |-> shares[i].diff], SharesIn("valid", n))

(* The counters of the day and of the hour are those of all the shares of     *)
(* that day or hour, counted from the history itself: deleting minutes, which *)
(* happens in all four maps whatever kind of share comes in, loses none that  *)
(* is still to be read, and the maps keep no more than a day's and one.       *)
RollingIsWindow ==
    /\ \A kind \in {"valid", "stale", "invalid"} :
          SumLast(rolling[kind], Window) = Cardinality(SharesIn(kind, Window))
    /\ \A n \in {Window, Hour} : SumLast(rolling["diff"], n) = DiffIn(n)
    /\ \A m \in DOMAIN rolling : Cardinality(DOMAIN rolling[m]) <= Window + 1

=============================================================================
