------------------------------ MODULE JobRing ------------------------------
(***************************************************************************)
(* One connection's job ring under the goroutines that use it: the pushers  *)
(* (one goroutine per NewBlockAvailable call, client_handler.go) add jobs,  *)
(* the connection's reader removes the jobs whose block was submitted or    *)
(* was stale (HandleSubmit, share_handler.go).                              *)
(*                                                                          *)
(* AddJob draws the job number before it takes JobLock, and with no lock at *)
(* all: ms.jobCounter++ is a load and a store, and idx := ms.jobCounter     *)
(* another load.  They are separate steps here.                             *)
(***************************************************************************)
EXTENDS MiningState

CONSTANTS
    Pushers, \* goroutines that may be in AddJob for this connection at once
    MaxId    \* bound on the job numbers explored

ASSUME JobRingAssumption == MaxId \in Nat

VARIABLES
    ms,      \* Jobs and FeeJobs
    counter, \* jobCounter
    pusher,  \* the goroutines inside AddJob
    issued,  \* history: the job last filed under each number
    gone,    \* history: numbers whose slot was emptied since
    clash    \* history: a number was filed twice, or a whole lap of the ring late

vars == <<ms, counter, pusher, issued, gone, clash>>

Ids == 1..MaxId

Pusher == [pc : {"idle", "store", "draw", "file"}, tmp : 0..MaxId, idx : 0..MaxId]

(* The numbers under which a job was filed. *)
Filed == {j \in Ids : issued[j] # NoJob}

Resting == [pc |-> "idle", tmp |-> 0, idx |-> 0]

(* The load of ms.jobCounter++ *)
Load(p) ==
    /\ pusher[p].pc = "idle"
    /\ counter < MaxId
    /\ pusher' = [pusher EXCEPT ![p] = [pc |-> "store", tmp |-> counter, idx |-> 0]]
    /\ UNCHANGED <<ms, counter, issued, gone, clash>>

(* Its store *)
Store(p) ==
    /\ pusher[p].pc = "store"
    /\ counter' = pusher[p].tmp + 1
    /\ pusher' = [pusher EXCEPT ![p] = [pc |-> "draw", tmp |-> pusher[p].tmp, idx |-> 0]]
    /\ UNCHANGED <<ms, issued, gone, clash>>

(* Mutant of Draw: the number after the one that was stored. *)
DrawMutant(p) ==
    /\ pusher[p].pc = "draw"
    /\ pusher' = [pusher EXCEPT ![p] = [pc |-> "file", tmp |-> 0, idx |-> counter + 1]]
    /\ UNCHANGED <<ms, counter, issued, gone, clash>>

(* idx := ms.jobCounter *)
Draw(p) ==
    /\ pusher[p].pc = "draw"
    /\ pusher' = [pusher EXCEPT ![p] = [pc |-> "file", tmp |-> 0, idx |-> counter]]
    /\ UNCHANGED <<ms, counter, issued, gone, clash>>

(* The part of AddJob under JobLock *)
File(p, job, isFeeJob) ==
    LET idx == pusher[p].idx IN
    /\ pusher[p].pc = "file"
    /\ ms' = AddJob(ms, idx, job, isFeeJob)
    /\ pusher' = [pusher EXCEPT ![p] = Resting]
    /\ issued' = [issued EXCEPT ![idx] = job]
    /\ gone' = gone \ {idx}
    /\ clash' = (clash \/ issued[idx] # NoJob \/ \E j \in Filed : j >= idx + maxjobs)
    /\ UNCHANGED counter

Push(p) ==
    \/ Load(p) \/ Store(p) \/ Draw(p)
    \/ \E job \in Job, isFeeJob \in BOOLEAN : File(p, job, isFeeJob)

(* The reader removes the job a miner named. *)
Remove(id) ==
    /\ ms' = RemoveJob(ms, id)
    /\ gone' = gone \union {j \in Ids : Slot(j) = Slot(id)}
    /\ UNCHANGED <<counter, pusher, issued, clash>>

Clear ==
    /\ ms' = ClearJobs(ms)
    /\ gone' = Ids
    /\ UNCHANGED <<counter, pusher, issued, clash>>

Init ==
    /\ ms = NewState
    /\ counter = 0
    /\ pusher = [p \in Pushers |-> Resting]
    /\ issued = [i \in Ids |-> NoJob]
    /\ gone = {}
    /\ clash = FALSE

Next ==
    \/ \E p \in Pushers : Push(p)
    \/ \E id \in Ids : Remove(id)
    \/ Clear

Spec == Init /\ [][Next]_vars

-----------------------------------------------------------------------------
(* Properties                                                               *)

(* The ring, the counter and the pushers keep their shape. *)
TypeOK ==
    /\ ms \in State
    /\ counter \in 0..MaxId
    /\ pusher \in [Pushers -> Pusher]
    /\ issued \in [Ids -> Job \union {NoJob}]
    /\ gone \in SUBSET Ids
    /\ clash \in BOOLEAN

(* FeeJobs never outgrows the ring: every hash in it is that of a job in     *)
(* some slot, however AddJob and RemoveJob interleave and whichever numbers  *)
(* are drawn twice (mining_state.go, "Evict the outgoing block's fee-job     *)
(* entry").                                                                  *)
FeeJobsBacked ==
    \A h \in ms.feeJobs : \E s \in Slots : ms.jobs[s] # NoJob /\ HashOf[ms.jobs[s]] = h

(* Goroutines may overlap in AddJob in any way, and may file their numbers   *)
(* in another order than they drew them.  Until two of them file the same    *)
(* number, or one files a number a whole lap of the ring behind another,     *)
(* each of the newest maxjobs numbers filed leads to its own job, unless     *)
(* that was removed: a share is never checked against another job's          *)
(* template.  Both exceptions can happen, the counter being unlocked.        *)
NewestJobsReachable ==
    ~clash => \A id \in Filed : (\A j \in Filed : j < id + maxjobs) =>
        GetJob(ms, id) = IF id \in gone THEN NoJob ELSE issued[id]
=============================================================================
