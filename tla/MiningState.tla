---------------------------- MODULE MiningState ----------------------------
(***************************************************************************)
(* The jobs a connection may be asked about: mining_state.go.  Jobs live in *)
(* a map indexed by the job number modulo maxjobs, so the newest maxjobs    *)
(* jobs are reachable and older ones are overwritten; FeeJobs holds the     *)
(* hashes of the live jobs that pay the bridge.  A template without         *)
(* VerboseData has no hash.                                                 *)
(***************************************************************************)
EXTENDS Integers

CONSTANTS
    maxjobs, \* number of slots
    Job,     \* block templates
    NoJob,   \* an empty slot
    Hash,
    HashOf,  \* VerboseData.Hash of a template
    NoHash   \* the template carries no VerboseData

ASSUME MiningStateAssumption ==
    /\ maxjobs \in Nat \ {0}
    /\ NoJob \notin Job
    /\ NoHash \notin Hash
    /\ HashOf \in [Job -> Hash \union {NoHash}]

Slots == 0..(maxjobs - 1)

State == [jobs : [Slots -> Job \union {NoJob}], feeJobs : SUBSET Hash]

(* MiningStateGenerator *)
NewState == [jobs |-> [s \in Slots |-> NoJob], feeJobs |-> {}]

Slot(id) == id % maxjobs

(* The key under which FeeJobs knows the job in a slot, if there is one. *)
FeeKey(job) == IF job = NoJob \/ HashOf[job] = NoHash THEN {} ELSE {HashOf[job]}

(* Mutant of AddJob: the outgoing job's fee entry is not evicted. *)
AddJobMutant(ms, idx, job, isFeeJob) ==
    [jobs    |-> [ms.jobs EXCEPT ![Slot(idx)] = job],
     feeJobs |-> IF isFeeJob THEN ms.feeJobs \union FeeKey(job) ELSE ms.feeJobs]

(* The locked part of AddJob, for the number idx the caller drew. *)
AddJob(ms, idx, job, isFeeJob) ==
    LET kept == ms.feeJobs \ FeeKey(ms.jobs[Slot(idx)])
    IN  [jobs    |-> [ms.jobs EXCEPT ![Slot(idx)] = job],
         feeJobs |-> IF isFeeJob THEN kept \union FeeKey(job) ELSE kept]

GetJob(ms, id) == ms.jobs[Slot(id)]

IsFeeJob(ms, job) == FeeKey(job) \intersect ms.feeJobs # {}

(* Mutant of RemoveJob: the slot is taken modulo maxjobs + 1. *)
RemoveJobMutant(ms, id) ==
    LET s == (id % (maxjobs + 1)) % maxjobs
    IN  [jobs    |-> [ms.jobs EXCEPT ![s] = NoJob],
         feeJobs |-> ms.feeJobs \ FeeKey(ms.jobs[s])]

RemoveJob(ms, id) ==
    [jobs    |-> [ms.jobs EXCEPT ![Slot(id)] = NoJob],
     feeJobs |-> ms.feeJobs \ FeeKey(GetJob(ms, id))]

ClearJobs(ms) == NewState
=============================================================================
