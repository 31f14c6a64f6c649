--------------------------- MODULE JobRingProofs ---------------------------
(* Proofs about JobRing, for every ring size, every set of templates and     *)
(* every number of jobs.                                                     *)
EXTENDS JobRing, TLAPS

-----------------------------------------------------------------------------
(* Slots                                                                     *)

LEMMA SlotType == ASSUME NEW id \in Nat PROVE Slot(id) \in Slots
  BY MiningStateAssumption DEF Slot, Slots

LEMMA MultiplesApart ==
    ASSUME NEW m \in Nat \ {0}, NEW a \in Int, NEW b \in Int, a < b
    PROVE  m * a + m <= m * b
  OBVIOUS

LEMMA Division ==
    ASSUME NEW m \in Nat \ {0}, NEW i \in Nat
    PROVE  i = m * (i \div m) + (i % m) /\ (i \div m) \in Nat /\ (i % m) \in Nat
  OBVIOUS

(* Two numbers that share a slot are at least maxjobs apart. *)
LEMMA SlotsApart ==
    ASSUME NEW i \in Nat, NEW j \in Nat, i < j, Slot(i) = Slot(j)
    PROVE  i + maxjobs <= j
  <1> DEFINE a == i \div maxjobs
             b == j \div maxjobs
             r == i % maxjobs
  <1>1. /\ i = maxjobs * a + r /\ j = maxjobs * b + r
        /\ a \in Nat /\ b \in Nat /\ r \in Nat /\ maxjobs \in Nat \ {0}
    BY MiningStateAssumption, Division DEF Slot
  <1>2. maxjobs * a \in Int /\ maxjobs * b \in Int
    BY <1>1
  <1> HIDE DEF a, b, r
  <1>3. maxjobs * a < maxjobs * b
    BY <1>1, <1>2
  <1>4. a < b
    BY <1>1, <1>3
  <1>5. maxjobs * a + maxjobs <= maxjobs * b
    BY <1>1, <1>4, MultiplesApart
  <1> QED BY <1>1, <1>2, <1>5

-----------------------------------------------------------------------------
(* The operations keep the shape of the state, and FeeJobs within the ring.  *)

Backed(st) ==
    \A h \in st.feeJobs : \E s \in Slots : st.jobs[s] # NoJob /\ HashOf[st.jobs[s]] = h

LEMMA FeeKeyType ==
    ASSUME NEW job \in Job \union {NoJob}
    PROVE  /\ FeeKey(job) \in SUBSET Hash
           /\ \A h \in FeeKey(job) : job # NoJob /\ HashOf[job] = h
           /\ \A h \in Hash : job # NoJob /\ HashOf[job] = h => h \in FeeKey(job)
  BY MiningStateAssumption DEF FeeKey

LEMMA NewStateOK == NewState \in State /\ Backed(NewState)
  BY DEF NewState, State, Backed

LEMMA AddJobOK ==
    ASSUME NEW st \in State, Backed(st), NEW idx \in Nat, NEW job \in Job,
           NEW isFeeJob \in BOOLEAN
    PROVE  /\ AddJob(st, idx, job, isFeeJob) \in State
           /\ Backed(AddJob(st, idx, job, isFeeJob))
           /\ AddJob(st, idx, job, isFeeJob).jobs = [st.jobs EXCEPT ![Slot(idx)] = job]
  <1> DEFINE new == AddJob(st, idx, job, isFeeJob)
             old == st.jobs[Slot(idx)]
             kept == st.feeJobs \ FeeKey(old)
  <1>1. Slot(idx) \in Slots /\ st.jobs \in [Slots -> Job \union {NoJob}] /\ st.feeJobs \subseteq Hash
    BY SlotType DEF State
  <1>2. /\ new.jobs = [st.jobs EXCEPT ![Slot(idx)] = job]
        /\ new.feeJobs = IF isFeeJob THEN kept \union FeeKey(job) ELSE kept
    BY DEF AddJob
  <1>3. new.jobs \in [Slots -> Job \union {NoJob}] /\ new.feeJobs \in SUBSET Hash
    BY <1>1, <1>2, FeeKeyType
  <1>4. new \in State
    BY <1>3 DEF AddJob, State
  <1>5. ASSUME NEW h \in new.feeJobs
        PROVE  \E s \in Slots : new.jobs[s] # NoJob /\ HashOf[new.jobs[s]] = h
    <2>1. CASE h \in FeeKey(job)
      BY <1>1, <1>2, <2>1, FeeKeyType
    <2>2. CASE h \in kept
      <3>1. PICK s \in Slots : st.jobs[s] # NoJob /\ HashOf[st.jobs[s]] = h
        BY <2>2 DEF Backed
      <3>2. s # Slot(idx)
        BY <1>1, <2>2, <3>1, FeeKeyType
      <3> QED BY <1>1, <1>2, <3>1, <3>2
    <2> QED BY <1>2, <1>5, <2>1, <2>2
  <1> QED BY <1>2, <1>4, <1>5 DEF Backed

LEMMA RemoveJobOK ==
    ASSUME NEW st \in State, Backed(st), NEW id \in Nat
    PROVE  /\ RemoveJob(st, id) \in State
           /\ Backed(RemoveJob(st, id))
           /\ RemoveJob(st, id).jobs = [st.jobs EXCEPT ![Slot(id)] = NoJob]
  <1> DEFINE new == RemoveJob(st, id)
             old == st.jobs[Slot(id)]
  <1>1. Slot(id) \in Slots /\ st.jobs \in [Slots -> Job \union {NoJob}] /\ st.feeJobs \subseteq Hash
    BY SlotType DEF State
  <1>2. /\ new.jobs = [st.jobs EXCEPT ![Slot(id)] = NoJob]
        /\ new.feeJobs = st.feeJobs \ FeeKey(old)
    BY DEF RemoveJob, GetJob
  <1>3. new \in State
    BY <1>1, FeeKeyType DEF RemoveJob, GetJob, State
  <1>4. ASSUME NEW h \in new.feeJobs
        PROVE  \E s \in Slots : new.jobs[s] # NoJob /\ HashOf[new.jobs[s]] = h
    <2>1. PICK s \in Slots : st.jobs[s] # NoJob /\ HashOf[st.jobs[s]] = h
      BY <1>2, <1>4 DEF Backed
    <2>2. s # Slot(id)
      BY <1>1, <1>2, <1>4, <2>1, FeeKeyType
    <2> QED BY <1>1, <1>2, <2>1, <2>2
  <1> QED BY <1>2, <1>3, <1>4 DEF Backed

-----------------------------------------------------------------------------
(* Type correctness and FeeJobsBacked, for any number of pushers             *)

RingInv ==
    /\ TypeOK
    /\ Backed(ms)
    /\ \A p \in Pushers :
         /\ pusher[p].pc = "store" => pusher[p].tmp < MaxId
         /\ pusher[p].pc = "draw" => counter > 0
         /\ pusher[p].pc = "file" => pusher[p].idx > 0

LEMMA RingInit == Init => RingInv
  <1> SUFFICES ASSUME Init PROVE RingInv
    OBVIOUS
  <1>1. ms \in State /\ Backed(ms)
    BY NewStateOK DEF Init
  <1>2. Resting \in Pusher /\ Resting.pc = "idle"
    BY JobRingAssumption DEF Resting, Pusher
  <1>3. counter \in 0..MaxId /\ issued \in [Ids -> Job \union {NoJob}] /\ gone \in SUBSET Ids
    BY JobRingAssumption DEF Init
  <1>5. clash \in BOOLEAN
    BY DEF Init
  <1>4. pusher \in [Pushers -> Pusher] /\ \A p \in Pushers : pusher[p].pc = "idle"
    BY <1>2 DEF Init
  <1> QED BY <1>1, <1>3, <1>4, <1>5 DEF RingInv, TypeOK

LEMMA RingNext == RingInv /\ [Next]_vars => RingInv'
  <1> SUFFICES ASSUME RingInv, [Next]_vars PROVE RingInv'
    OBVIOUS
  <1> USE DEF RingInv, TypeOK
  <1>0. MaxId \in Nat /\ counter \in Nat
    BY JobRingAssumption
  <1>1. ASSUME NEW p \in Pushers, Load(p) PROVE RingInv'
    <2>1. counter < MaxId /\ UNCHANGED <<ms, counter, issued, gone, clash>>
      BY <1>1 DEF Load
    <2>2. [pc |-> "store", tmp |-> counter, idx |-> 0] \in Pusher
      BY <1>0 DEF Pusher
    <2> QED BY <1>1, <2>1, <2>2 DEF Load
  <1>2. ASSUME NEW p \in Pushers, Store(p) PROVE RingInv'
    <2>1. /\ counter' = pusher[p].tmp + 1 /\ UNCHANGED <<ms, issued, gone, clash>>
          /\ pusher[p].tmp < MaxId /\ pusher[p] \in Pusher
      BY <1>2 DEF Store
    <2>2. counter' \in 0..MaxId /\ counter' > 0
      BY <1>0, <2>1 DEF Pusher
    <2>3. [pc |-> "draw", tmp |-> pusher[p].tmp, idx |-> 0] \in Pusher
      BY <1>0, <2>1 DEF Pusher
    <2> QED BY <1>2, <2>1, <2>2, <2>3 DEF Store
  <1>3. ASSUME NEW p \in Pushers, Draw(p) PROVE RingInv'
    <2>1. [pc |-> "file", tmp |-> 0, idx |-> counter] \in Pusher
      BY <1>0 DEF Pusher
    <2> QED BY <1>3, <2>1 DEF Draw
  <1>4. ASSUME NEW p \in Pushers, NEW job \in Job, NEW isFeeJob \in BOOLEAN,
               File(p, job, isFeeJob)
        PROVE  RingInv'
    <2>1. /\ ms' = AddJob(ms, pusher[p].idx, job, isFeeJob) /\ counter' = counter
          /\ pusher' = [pusher EXCEPT ![p] = Resting]
          /\ issued' = [issued EXCEPT ![pusher[p].idx] = job]
          /\ gone' = gone \ {pusher[p].idx}
      BY <1>4 DEF File
    <2>2. pusher[p].idx \in Nat
      BY <1>0 DEF Pusher
    <2>3. ms' \in State /\ Backed(ms')
      BY <2>1, <2>2, AddJobOK
    <2>4. Resting \in Pusher /\ Resting.pc = "idle"
      BY <1>0 DEF Resting, Pusher
    <2>5. clash' \in BOOLEAN
      BY <1>4 DEF File
    <2> QED BY <2>1, <2>3, <2>4, <2>5
  <1>5. ASSUME NEW id \in Ids, Remove(id) PROVE RingInv'
    <2>1. id \in Nat
      BY <1>0 DEF Ids
    <2>2. ms' \in State /\ Backed(ms')
      BY <1>5, <2>1, RemoveJobOK DEF Remove
    <2> QED BY <1>5, <2>2 DEF Remove
  <1>6. CASE Clear
    <2>1. ms' \in State /\ Backed(ms')
      BY <1>6, NewStateOK DEF Clear, ClearJobs
    <2> QED BY <1>6, <2>1 DEF Clear
  <1>7. CASE UNCHANGED vars
    BY <1>7 DEF vars, Backed
  <1> QED BY <1>1, <1>2, <1>3, <1>4, <1>5, <1>6, <1>7 DEF Next, Push

LEMMA RingInvariant == Spec => []RingInv
  BY RingInit, RingNext, PTL DEF Spec

(* The ring, its counter and the goroutines in AddJob keep their shape       *)
(* (MiningState), for every maxjobs and any number of pushers.               *)
THEOREM TypeCorrect == Spec => []TypeOK
  BY RingInvariant, PTL DEF RingInv

(* FeeJobs stays within the ring, with any number of goroutines in AddJob    *)
(* and although they may draw the same number.                               *)
THEOREM FeeJobsBackedAlways == Spec => []FeeJobsBacked
  <1>1. RingInv => FeeJobsBacked
    BY DEF RingInv, Backed, FeeJobsBacked
  <1> QED BY <1>1, RingInvariant, PTL

-----------------------------------------------------------------------------
(* The newest jobs are reachable, whichever way the pushers overlap          *)

Reachable ==
    \A id \in Filed : (\A j \in Filed : j < id + maxjobs) =>
        GetJob(ms, id) = IF id \in gone THEN NoJob ELSE issued[id]

WindowInv == ~clash => Reachable

LEMMA WindowNext == RingInv /\ WindowInv /\ [Next]_vars => WindowInv'
  <1> SUFFICES ASSUME RingInv, WindowInv, [Next]_vars, ~clash' PROVE Reachable'
    BY DEF WindowInv
  <1>0. /\ TypeOK /\ MaxId \in Nat /\ maxjobs \in Nat \ {0}
        /\ \A id \in Ids : id \in Nat
        /\ Filed \subseteq Ids
    BY JobRingAssumption, MiningStateAssumption DEF RingInv, Ids, Filed
  <1>1. ASSUME NEW p \in Pushers, Load(p) \/ Store(p) \/ Draw(p) PROVE Reachable'
    BY <1>1 DEF Load, Store, Draw, WindowInv, Reachable, Filed, GetJob
  <1>2. ASSUME NEW p \in Pushers, NEW job \in Job, NEW isFeeJob \in BOOLEAN,
               File(p, job, isFeeJob)
        PROVE  Reachable'
    <2>1. PICK idx : idx = pusher[p].idx
      OBVIOUS
    <2>2. idx \in Ids
      BY <1>0, <1>2, <2>1 DEF File, RingInv, TypeOK, Pusher, Ids
    <2>3. /\ ~clash /\ issued[idx] = NoJob /\ \A j \in Filed : ~(j >= idx + maxjobs)
          /\ ms' = AddJob(ms, idx, job, isFeeJob)
          /\ issued' = [issued EXCEPT ![idx] = job] /\ gone' = gone \ {idx}
      BY <1>2, <2>1 DEF File
    <2>4. Reachable
      BY <2>3 DEF WindowInv
    <2>5. /\ ms.jobs \in [Slots -> Job \union {NoJob}] /\ issued \in [Ids -> Job \union {NoJob}]
          /\ Slot(idx) \in Slots
      BY <1>0, <2>2, SlotType DEF TypeOK, State
    <2>6. ms'.jobs = [ms.jobs EXCEPT ![Slot(idx)] = job]
      BY <1>0, <2>2, <2>3, AddJobOK DEF RingInv, TypeOK
    <2>7. Filed' = Filed \union {idx} /\ issued'[idx] = job
      BY <2>2, <2>3, <2>5, MiningStateAssumption DEF Filed
    <2> SUFFICES ASSUME NEW id \in Filed', \A j \in Filed' : j < id + maxjobs
                 PROVE  ms'.jobs[Slot(id)] = IF id \in gone' THEN NoJob ELSE issued'[id]
      BY DEF Reachable, GetJob
    <2>8. CASE id = idx
      BY <2>3, <2>5, <2>6, <2>7, <2>8
    <2>9. CASE id # idx
      <3>1. id \in Filed /\ id \in Nat /\ idx \in Nat /\ issued'[id] = issued[id]
        BY <1>0, <2>2, <2>3, <2>5, <2>7, <2>9
      (* The new number is less than a lap ahead of id and less than a lap   *)
      (* behind it, so their slots differ.                                   *)
      <3>2. idx < id + maxjobs /\ id < idx + maxjobs
        BY <1>0, <2>3, <2>7, <3>1
      <3>3. Slot(id) # Slot(idx)
        <4>1. CASE id < idx
          BY <1>0, <3>1, <3>2, <4>1, SlotsApart
        <4>2. CASE idx < id
          BY <1>0, <3>1, <3>2, <4>2, SlotsApart
        <4> QED BY <2>9, <3>1, <4>1, <4>2
      <3>4. ms'.jobs[Slot(id)] = ms.jobs[Slot(id)]
        BY <2>5, <2>6, <3>1, <3>3, SlotType
      <3>5. ms.jobs[Slot(id)] = IF id \in gone THEN NoJob ELSE issued[id]
        BY <2>4, <2>7, <3>1 DEF Reachable, GetJob
      <3> QED BY <2>3, <2>9, <3>1, <3>4, <3>5
    <2> QED BY <2>8, <2>9
  <1>3. ASSUME NEW id \in Ids, Remove(id) PROVE Reachable'
    <2>1. /\ UNCHANGED issued /\ ms' = RemoveJob(ms, id) /\ Reachable /\ Filed' = Filed
          /\ gone' = gone \union {j \in Ids : Slot(j) = Slot(id)}
      BY <1>3 DEF Remove, WindowInv, Filed
    <2>2. ms'.jobs = [ms.jobs EXCEPT ![Slot(id)] = NoJob]
      BY <1>0, <2>1, RemoveJobOK DEF RingInv, TypeOK
    <2>3. ms.jobs \in [Slots -> Job \union {NoJob}] /\ \A j \in Ids : Slot(j) \in Slots
      BY <1>0, SlotType DEF TypeOK, State
    <2> QED BY <1>0, <2>1, <2>2, <2>3 DEF Reachable, GetJob
  <1>4. CASE Clear
    <2>1. gone' = Ids /\ ms'.jobs = [s \in Slots |-> NoJob] /\ Filed' = Filed
      BY <1>4 DEF Clear, ClearJobs, NewState, Filed
    <2>2. \A j \in Ids : Slot(j) \in Slots
      BY <1>0, SlotType
    <2> QED BY <1>0, <2>1, <2>2 DEF Reachable, GetJob
  <1>5. CASE UNCHANGED vars
    BY <1>5 DEF vars, WindowInv, Reachable, Filed, GetJob
  <1> QED BY <1>1, <1>2, <1>3, <1>4, <1>5 DEF Next, Push

(* With any number of goroutines overlapping in AddJob in any way: until two *)
(* file the same number or one is a whole lap late, each of the newest       *)
(* maxjobs numbers leads to the job it was given, unless it was removed.     *)
THEOREM NewestJobsReachableAlways == Spec => []NewestJobsReachable
  <1>1. Init => WindowInv
    BY DEF Init, WindowInv, Reachable, Filed
  <1>2. WindowInv => NewestJobsReachable
    BY DEF WindowInv, Reachable, NewestJobsReachable
  <1> QED BY <1>1, <1>2, WindowNext, RingInvariant, PTL DEF Spec

=============================================================================
