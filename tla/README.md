# Verification of htn-stratum-bridge

The bridge sits between Hoosat miners, which speak Stratum over TCP, and one
Hoosat node, which it calls over RPC. It hands out block templates as jobs,
checks the shares that come back, submits solved blocks, keeps a ledger of the
rewards of the blocks it found in SQLite, and may divert a part of the work to
the address of the bridge's operator. All of it is concurrent: a goroutine per
connection reads, one per connection and template pushes, one per block found
looks for its reward, and a handful of threads run for the life of the process.
Very little of the state they share is locked.

This directory holds TLA+ models of those parts, the TLC runs that check them,
and TLAPS proofs of every safety property those runs check. Paths below are relative to the
repository; `share_handler.go`, `client_handler.go`, `htnapi.go`,
`mining_state.go`, `db.go`, `webui.go`, `miner_rewards.go` and `stratum_server.go` are in
`src/htnstratum/`,
the `stratum_*.go` files of the protocol and `default_client.go` in
`src/gostratum/`.

## Inventory

| Part | State | Operations | What is hard | What makes it correct |
|---|---|---|---|---|
| Reward ledger (`share_handler.go` 449-689, `db.go`, `stratum_server.go` 138-161) | table `block_rewards` with a unique index on accepting block and wallet; one goroutine per found block | record a block; attempt, walk the chain, book, final update; recover pending rows at start-up | crashes between two statements, node and database errors, reorganisations, several goroutines of one wallet | a payment is booked once and to somebody; what is booked is true of the DAG; settled rows stay; every row is settled; to its readers the table is a book in which each payment is claimed once |
| Job ring (`mining_state.go`) | `Jobs`, `FeeJobs`, `JobLock`, the unlocked `jobCounter` | AddJob, GetJob, IsFeeJob, RemoveJob, ClearJobs | the counter is loaded and stored without the lock | the newest `maxjobs` numbers find their jobs; the fee map does not leak |
| Share submission (`share_handler.go` 216-526) | `tipBlueScore`, `submitLock`, counters, rows | validateSubmit, checkStales, the proof-of-work check, submit, crediting | handlers of all connections interleave; the node may refuse, call a block a duplicate, or lose its answer | a block is credited once and not forgotten; the totals of the bridge are those of its connections; every submission is answered |
| Template cache (`htnapi.go` 22-356) | `gbtCache`, `gbtCacheMu`, `nodeCallMu` | GetBlockTemplate, invalidateGBTCache, clean-up thread | calls of many goroutines, an invalidation while a call is under way | no mix-up of addresses; a shared template names no worker; expired entries go; calls return |
| Sessions (`client_handler.go` 34-118, `stratum_listener.go`, `stratum_client.go`, `stratum_context.go`, `default_client.go`) | `clients`, extranonces, `StratumContext`, keys of `sh.stats` | connect, authorize, submit, push, Disconnect, OnDisconnect, getCreateStats, removeStats | four kinds of goroutines end a connection; wallet and worker name are written without a lock | each connection is cleaned up, once; rows do not outlive their connections without a reason |
| Job push and vardiff (`client_handler.go` 99-239, `share_handler.go` 861-995) | `initialized`, `stratumDiff`, `bigDiff`, the vardiff fields of `WorkStats` | the pushers, startVardiffThread, updateVarDiff, startVarDiff | unlocked pushers and thread; a tracker that must be restarted by somebody else | the miner is told what it is checked against; verdicts follow the share rate; trackers restart |
| Bridge fee selection (`src/bridgefee`) | a job counter | ShouldReplaceGBT | - | an HMAC compared with a rate: in the models any call may be selected |
| Template listener (`htnapi.go` 71-212, `stratum_server.go` 173-175) | registration with the node, ticker, callbacks blocked on `blockReadyChan` | Start, waitForSync, notifications, ticks, the push after a solved block | the node comes and goes, notifications are lost or block, pushes overtake each other over a cache | a miner ends up on the node's tip; notifications are taken |
| Web UI (`webui.go`, the queries of `db.go`) | nothing on the server; the script keeps offset, total, table and totals | /stats, /api/stats, /api/blocks; refresh, paging | queries of one answer see different tables; answers overtake each other or fail | the page never ends up past the last row, shows no more income than blue blocks, is up to date in the end |
| Rolling counters (`share_handler.go` 176-214, 760-830) | four maps from minutes to counts | updateRollingCounters, the sums over a day and an hour | minutes are deleted while shares come in, all maps at once | a sum is that of the shares of its window |
| Miner rewards API (`miner_rewards.go`) | none; the client keeps a cursor | chain blocks since a cursor, two ways; the merge set; the split of a payment | reorganisations under the cursor, limits counted from either end, the order of a merge set | a polling client is told of every chain block that pays it, unless its limit or a fault left one out; both ways agree; a split is exact and the same for everybody |
| Hashing, difficulty conversion, proof of work (`hasher.go`, `src/pow`) | none | 256-bit and floating point arithmetic | - | not modelled: out of TLC's reach |
| Metrics, configuration | counters, flags | - | - | not modelled: write-only or read-only I/O; the order of recovery and listening at start-up is in the ledger |

The parts meet in a few places. NewBlockAvailable (called by the template
listener and by a solved block) starts a pusher per connection; a pusher calls
GetBlockTemplate, AddJob, the vardiff helpers and Send. A reader calls
HandleSubmit, which reads the ring the pushers write, the cache is cleared when a
block was solved, and each credited share is recorded and gets a reward
goroutine. The pages and the rewards API read the table the goroutines write.

## Modules

| Module | Models | Notes |
|---|---|---|
| `RewardLedger` | reward ledger | `rows` is the table, `work` the goroutines, `chain` the node's selected chain |
| `MiningState` | the operations of the job ring, as operators on its state | used by the next two |
| `JobRing` | the job ring under concurrent pushers | AddJob is Load, Store, Draw, File: `jobCounter++` is a load and a store, and the number is read again |
| `ShareSubmit` | HandleSubmit for several connections | composes the job ring of each connection with the submission handlers, the node and the database |
| `GbtCache` | GetBlockTemplate and the cache | the configuration is a variable chosen in Init, so one run covers all |
| `Templates` | the listener and the pushes | extends GbtCache: the goroutines of NewBlockAvailable are its calls |
| `RewardBook` | what the table promises its readers | abstract; RewardLedger implements it |
| `Sessions` | connections and the keys of the stats map | |
| `VarDiff` | difficulty of one connection | |
| `Dashboard` | the stats page of a wallet, its handlers and its script | |
| `RollingStats` | the rolling counters of a row | |
| `MinerRewards` | the rewards API and a client that polls it | |
| `MC*` | instances for TLC | values for the constants; MCDashboard also joins the last three, which share no state |
| `*Proofs` | theorems | `TemplatesProofs` covers GbtCache and Templates, `DashboardProofs` the stats page, the rolling counters and the rewards API |
| `SumTheorems` | lemmas about sums over finite sets | for the community module's `SumFunctionOnSet` |

Definitions keep the names of the source where they can. Each handler is split
into actions exactly where another goroutine can get in: at a lock, a channel, a
call to the node or the database, or at an access to unlocked shared state.
What runs under one lock, or touches only the goroutine's own state, is one
action.

### RewardLedger

A block is recorded by Record (HandleSubmit writes the row, then `go
fetchAndUpdateReward`) and a goroutine of `work` takes it up: Attempt is steps 1
to 3 of an attempt (is the block known, the chain above it, its own row), Walk
inspects one accepting block after the other (Inspect: already booked, red, blue
without payment, duplicate, payment), Book writes the link and Final the reward.
Restart kills every goroutine and keeps the rows; Recover is the start-up loop
over the rows that are pending, which runs only if the web UI is configured
(`WebUI`), as in ListenAndServe. Blocks outside `Known` are pool shares: the node
never heard of them and every attempt fails. `NodeErrors`, `DbErrors` and
`MayReorg` switch the faults on; ChainMove and Extends are the node's side,
modelled from how the code uses `GetVirtualSelectedParentChainFromBlock`.

### ShareSubmit

A proof of work is a template and a nonce. The recalculated hash equals the
submitted one exactly when the template found in the ring is the one that was
mined, and `Hits` are the nonces that meet the network target. A nonce below it
is a share or a weak share, as the connection's difficulty has it: either may
happen. checkStales is two actions because `tipBlueScore` is unlocked. A job may be pushed into
any slot at any time, since numbers are drawn without a lock, and a submission may lead to any
slot, since the miner sends the number (share_handler.go 246-252). A handler raises the
connection's counter (Count) and the bridge's (Tally) in two steps, for the share and for the
block, and then writes the row (Record). A submission whose nonce does not parse
(share_handler.go 331-343) gets no answer at all; EverySubmissionAnswered is about those that pass
validateSubmit. `Faults`
are the ways SubmitBlock may fail besides a duplicate ("lost": the node took the
block and the answer was lost) and whether the database may.

### GbtCache

Only whether an entry has reached the TTL matters, so an entry has an age that
stops there. ShouldReplaceGBT is a choice.

### Templates

The listener is a loop of waitForSync, select and push; TakeNotification and TakeTick are
the two cases of the select, the ticker being able to fire whenever no notification was
taken. `waiting` counts the callbacks of the node that are blocked on `blockReadyChan`.
A notification may come without a new tip and a tip without a notification, which is
what a failed registration or a renewed connection amounts to. SubmitBlock, ClearSolved and
PushSolved are the end of submit. A push starts a call of GbtCache, whose every step
is a step here; `job` is the tip the miner's last job builds on. SendJob is a push that reaches the
miner, NoJobSent one that has no template or finds writeLock taken at all three attempts
(stratum_context.go 115-131). reconnect is left out:
its only caller acts on an error that waitForSync never returns.

### RewardBook

The ledger with the goroutines, the chain and the restarts hidden: a row is recorded,
linked to a payment nobody of the wallet has claimed, and settled for a reason. The refinement
mapping is the table itself (`TableBook` in RewardLedger). It is checked, and proved, under
`Reliable`: the node and the database answer and the chain only grows. The book lets a row
be settled blue without a link, because the code does when the unique index has refused
its link; that a payment is then rewarded twice is what `ledger_race` shows.

### Sessions

`ctx[c].disc` says whether Disconnect was called ("closing": it waits on the
channel) and whether OnDisconnect is over. Key(ctx) is the key of the worker's
row. The pusher and removeStats read the wallet and the name in two steps, so they
may see the wallet of one authorize with the name of another; the reader itself
cannot. NewBlockAvailable starts one more pusher on every call, so a connection may have any
number of them. What one of them does depends only on how far it is and on the wallet it saw, so
`started` says that one was started and `saws` collects the wallets that were seen: a place that was
reached stays open, because another pusher may be held up there. Look and Fetch are possible as long
as the connection lives. `stray` collects the rows that are left for one of the two reasons NoGhosts names. A read of a Go string
that is torn in itself (pointer of one, length of another) is not modelled.

### VarDiff

One connection and the row of its worker. Difficulties are integers, multiples of
the smallest one above 0, so that a difficulty divided often enough is 0, as the code's floats
are in the end; the run starts at 10, so it gets there with the second verdict. `stats` are the
vardiff fields of WorkStats; updateVarDiff is two actions (the tracker stops, then MinDiff is
stored). NewRow is what other connections and authorizes do to it: the row of the worker is
deleted (removeStats of a sibling) or becomes that of another worker, and getCreateStats makes it
anew with MinDiff 0 and no tracker. A pusher loads `initialized`, stores it, creates the
difficulty, gives it a value, reads it into a message and writes the message in steps of their
own, so two pushers may both do the set-up (`again`). `amiss` says that the last message was
lost, or not of the newest difficulty when it was written. The verdict is the operator Judge,
all branches of the loop body of startVardiffThread. Only the first window is ever reached, because
VarDiffSharesFound stays 0; JudgeFollowsRate evaluates Judge for all windows, and its theorem for
times and share counts of any size.

### Dashboard

The browser asks, the handler makes its queries one by one (Serve), the answer arrives or
is lost (Deliver, Fail). The order of the queries is the code's: /stats reads the page of
blocks before the total, /api/blocks after it, the sum of rewards is read before the
counts. A failed sum or count is turned into zeros, a failed page into an error whose body
parses as JSON. Buttons are the four of the page, guarded as updatePagination and changePage do; the
script calls updatePagination when it starts (webui.go 613), so they are live with the total of /stats.
The table and the totals share only the requests that fill them, so a behaviour follows one
of them (`view`).

### RollingStats

Share is updateRollingCounters: the count, the difficulty of a valid share, and the deletion
of old minutes in all four maps. `shares` is the history the sums are compared with. The
hashrates divide the sums by a constant and are left out.

### MinerRewards

Blocks form a tree by selected parent; `chain` has the selected parent chain of each, newest
first, as following SelectedParentHash gives it, and `virtual` is the selected tip, which AddBlock
may move to another branch. FetchAdded is fetchAddedChainBlocksFrom with both of its ways: Above is
the part of a chain above the cursor, which the node lists oldest first and the walk visits newest
first; a block the node fails to give ends the walk, and is skipped in the node's list.
ProcessPayingBlock finds the mined blues of the merge set of a chain block, without those the
database fails for, and splits the payment. The code sorts them by hash for one purpose, the choice
of the row that gets the remainder, so they are a set here and FirstRow is that choice. In the tree
a block has one parent, which is its merge set when a client polls (MergeSet); SplitExact takes all
blocks for one. Poll is the handler and the client: the answer has rows only of blocks that pay
for a block of the database, and the newest `paidByBlockHash` is the next cursor, which is what
`startHash` is for. The histories `told` and `missed` are the paying blocks the client was told of,
and those it asked for and was not told of, because of the limit (400 unless it asks for another,
2000 at most) or a fault; `fresh` says that the last poll covered the whole selected chain.

## Runs

| Run | Expected | Shows |
|---|---|---|
| `ledger_reliable` | pass | DuplicateHasOwner, ImplementsBook (the refinement of RewardBook, fairness included), EveryBlockSettles with three goroutines, a pool share and two restarts, no faults |
| `ledger_faulty` | pass | TypeOK, OneFetcher, RewardIsReal, SettledIsFinal with node errors, database errors, a reorganisation and a restart |
| `ledger_race` | violation | BookedOnce: two goroutines of a wallet pass the check for the same accepting block and both write the reward |
| `ring` | pass | TypeOK, FeeJobsBacked, NewestJobsReachable with two pushers, removals and clears |
| `submit` | pass | TypeOK, CreditedOnce, NoBlockForgotten, TotalsAgree, EverySubmissionAnswered with all faults |
| `submit_share_rows` | violation | RowsAreBlocks: a share is recorded as a mined block |
| `gbt` | pass | TypeOK, PaysSelected, SharedNamesNoWorker, ExpiredGoes, CallsReturn in all configurations |
| `templates` | pass | MinersCatchUp, NotificationsTaken with a node that comes and goes, lost notifications and solved blocks |
| `sessions` | pass | TypeOK, ExtranonceApart, NoGhosts, GoneForGood, EveryDisconnectHandled |
| `vardiff` | pass | TypeOK, ToldIsChecked, JudgeFollowsRate, TrackerRestarts, pool and solo |
| `vardiff_blind` | violation | LoweredOnlyIfSlow: the engine lowers the difficulty of workers that are fast enough |
| `dashboard` | pass | NeverPastTheEnd, AtomsWithinBlue, EventuallyUpToDate of the page; RollingIsWindow of the counters; PollCatchesUp, WaysAgree, SplitExact of the rewards |

Each property of a passing run has a mutant in PROJECT.json: a definition with a
plausible slip in it (named `...Mutant`, next to the definition it stands for)
under which TLC reports the property violated.

### What the violations show

* **A payment booked twice** (`ledger_race`). The check for an existing booking
  (line 596 of share_handler.go) and the link (669) have calls to the node between
  them. The unique index refuses the second link, the error is logged, and the second
  row still gets the full reward.
* **Shares recorded as blocks** (`submit_share_rows`). HandleSubmit runs the code
  that counts and records a block for every share it accepts.
* **Vardiff does not see shares** (`vardiff_blind`). VarDiffSharesFound is set to 0 and
  read, never incremented.

Met while modelling, without a run of their own:

* Cache. A fee template is cached under the bridge's address and handed out with `isFeeJob`
  false, although the comments at htnapi.go 314 and 339 say that only normal jobs enter the
  cache. So with caching the flag says nothing about whom a template pays, and nothing is claimed of
  it here; PaysSelected is about the address itself. The calls for
  different addresses do not "proceed in parallel" (htnapi.go 310-312), since `nodeCallMu`
  is held over the call to the node. A template fetched before the cache is cleared
  (share_handler.go 519) may be stored after it (htnapi.go 336); MinersCatchUp says that it
  does no lasting harm.
* Listener. `mine_when_not_synced` (cmd/htnbridge/main.go 57) only lets the bridge start: no
  push happens before the node is synced, because the listener waits in any case. reconnect
  cannot be reached.
* Submission. Two handlers that both saw an old tip store theirs in either order, so
  `tipBlueScore` (share_handler.go 294) may go back. A block the node
  refuses for its proof of work is stale in the worker's counters and invalid in the
  overall ones (399-402), so TotalsAgree adds stale and invalid ones up. A handler empties the slot its
  job number leads to after the calls to the node (524), whatever job was filed there meanwhile; that job's
  submissions are then answered as stale.
* Vardiff. A tracker that updateVarDiff stopped stays off in three ways: the difficulty was
  divided down to 0, the row was made anew, or two pushers both did the set-up. In the last one the
  second setClientVardiff resets the minimum, the engine lowers it to the difficulty in force
  from before, and no pusher sees a change to send (client_handler.go 165). TrackerRestarts names all
  three. A message that another pusher has overtaken is never corrected (ToldIsChecked).
* Ledger. A crash between the link and the final update, followed by node errors
  until the attempts run out, leaves a payment booked by nobody (DuplicateHasOwner therefore
  holds without node errors only, and its theorem says so).
* Page. A refresh that is answered late renders the rows of another page under the label
  of the current one until the next refresh. When /api/blocks fails, a refresh applies the
  totals and not the table. Counts whose query failed are shown as zeros next to a sum.
  The workers' table is not cleared when the last worker leaves.
* Rewards. When the node reports no added chain block, the fallback walks from the first
  of the tips, which need not be the selected one, and may return old blocks again, although
  the comment at miner_rewards.go 276 promises the blocks "added since startHash" (PollCatchesUp
  says when a poll does reach the tip). With a filter the remainder of a payment goes to the first row
  of each worker's own query, so the answers for all workers may add up to more than the payment.
  With a database the mined blues of a merge set are those of any wallet. A database error
  drops a block although the comment at 241-242 says it should not suppress one, and its share goes to
  the others. An answer that its limit cut, or that lost a block to an error, still moves the cursor on:
  what was left out is not asked for again.

### Bounds

* Ledger: two or three blocks of two wallets, three accepting blocks (one that merges
  two blocks of one wallet, one that merges a block as red), two attempts instead of the
  code's, one or two crashes. A conflict takes two blocks under one accepting block, a
  retry a second attempt, a recovery of what a recovery left a second crash.
* Ring: `maxjobs` 2 and four numbers, so the ring wraps twice; three jobs, one of them
  a fee job's hash; two pushers.
* Submit: two connections, `maxjobs` 1, two templates and three submissions over both connections,
  blue scores further apart than the window. With one slot every number a miner sends leads to it and
  every push overwrites the job of a handler under way, the worst that numbers can do; the proofs are for
  any `maxjobs`. A duplicate takes two submissions; the third retries.
* Cache: two calls, two wallets and the bridge, a TTL of one tick, one move of the DAG:
  the smallest instance in which a call, an invalidation and a second call overlap and
  addresses could be mixed up.
* Templates: two pushes under way, two new tips, two blocked callbacks (one at the channel, one
  behind it), three configurations (cached, uncached with a fee, a vote). An old push
  overtaking a new one, or filling the cache after it was cleared, takes two pushes and one new tip.
* Sessions: two connections of one host, two authorizes allowed for each and three in all,
  `maxExtranonce` 1. The counter starts anywhere in its range, as it does when others have
  come before, so the second connection may be the one after the wrap. That a third gets the
  extranonce of the first is in the proof of ExtranonceApart, for any number and any range.
* VarDiff: two pushers, one minute, difficulties from 10 down to 0 and a network difficulty that is the
  minimum or not: two verdicts one after the other, of which the second gives 0. In that minute
  Judge takes each of its branches, over all windows and the share counts up to twice the expected one.
* Dashboard: pages of two rows, three rows, two requests in flight, one failure: two
  pages, a total that is stale by one row, two answers in either order, one of them lost.
* RollingStats: a day of four minutes, an hour of two, six minutes and three shares: a share
  leaves the hour, the day, and the map.
* MinerRewards: four blocks (two branches that overtake each other), limits of one block and of
  all, one block the node or the database fails on in a poll, two workers, payments up to three atoms,
  which two rows cannot share evenly.

Passing runs say CHECK_DEADLOCK FALSE where a bounded run ends because everything is
done (ledger, submit, sessions).

### Fairness

* A goroutine that can go on does (weak fairness of its steps): Go's scheduler is
  preemptive.
* A goroutine that waits for a mutex, or on a channel, gets its turn if the mutex or the
  receiver comes free again and again (strong fairness of Acquire, TakeDisconnect): Go's
  mutexes switch to hand-off when a waiter starves, channels queue their senders.
* Calls to the node return, with an error if need be: the RPC client has a timeout.
* The clean-up thread and the vardiff thread's store go on; templates keep coming
  (VarDiff), as the listener's ticker sees to it.
* The listener's select gets a notification or its ticker fires; among ready channels it
  chooses at random, so a waiting notification is taken in the end (strong fairness of
  TakeNotification). NotificationsTaken says that a full backlog does not stay full, which a listener
  stuck in waitForSync would break. Nothing is assumed about the node but, in the properties, that it stays
  synced from some time on.
* Of the jobs that are pushed again and again one is sent in the end (strong fairness of SendJob):
  writeLock is held for one write to the socket's buffer, and the comment at stratum_context.go 127 says
  that three failures in a row "should virtually never happen on a 'healthy' connection".
* HTTP handlers finish, answers arrive unless they fail, of which there are finitely many,
  and the browser's interval timer fires.
* Nothing is assumed about miners, crashes or the node's chain.

## Proofs

`RewardLedgerProofs` (any number of blocks, goroutines, attempts and restarts):

* `TypeCorrect`, `OneFetcherAlways`, `RewardIsRealAlways`, `SettledIsFinalAlways`,
  under all faults; `DuplicateHasOwnerAlways` if the node and the database answer and
  the chain is not reorganised (`Reliable`).
* OneFetcher is not inductive: it needs that the list of rows still to be recovered
  holds only pending rows without a goroutine. RewardIsReal needs what a goroutine knows
  at each place of its walk: the blocks it has seen are blocks of some chain of the node,
  and the reward it carries is the payment of the one it is at.
  DuplicateHasOwner needs that a row which owns a link is settled blue or is
  still pending with a goroutine, or the recovery, to finish it, and that this goroutine
  will come to the same accepting block, which is where reliability is used.
* `LedgerImplementsBook`: under `Reliable` the ledger implements the safety part of RewardBook:
  Init maps to Init, every step to a step of the book or a stutter. Besides the invariant of
  the ledger it needs what a goroutine knows that has concluded "blue" (`BlueInv`): the chain
  block it stands at merged its block as blue, and the reward it carries is what that
  block pays. The fairness part of RewardBook is checked by TLC only.

`JobRingProofs` (any `maxjobs`, any number of pushers):

* `TypeCorrect`.
* `FeeJobsBackedAlways`: FeeJobs is included in the hashes of the jobs in the ring, in any
  interleaving.
* `NewestJobsReachableAlways`: pushers may overlap in AddJob in any way and file their numbers
  in any order. Each of the newest `maxjobs` numbers that was filed finds its job, because two of
  them never share a slot, until two pushers draw the same number or one is held up while a whole
  ring is filed (`clash`).

`ShareSubmitProofs` (any number of connections, jobs and submissions, all faults):

* `TypeCorrect`, `CreditedOnceAlways`, `NoBlockForgottenAlways`, and
  `LockHeldAlways`, the exclusion that `submitLock` gives on every path of submit.
* CreditedOnce is not inductive. The invariant says of a solved block that waits to be
  credited that the node took it, that it has not been credited, and that one handler
  has it (`Owed`), and of one that was credited that the node took it (`Paid`): the node
  takes a solution once, so a second handler cannot come to credit it. The job ring
  only contributes that a job found is a job.
* `TotalsAgreeAlways`: the connection's counter and the bridge's are raised in two steps, with the
  steps of other handlers between them, so the totals are behind by what the handlers owe. Each step
  changes one term of a sum over all connections by one (`SumRaise`); the set of connections is
  assumed to be finite.

`TemplatesProofs` (any configuration, callers, addresses and TTL, any bound on notifications):

* `TypeCorrect` with the exclusion of `nodeCallMu`, `PaysSelectedAlways`,
  `SharedNamesNoWorkerAlways`.
* The invariant says what an entry under an address is (`CacheRight`: it pays that
  address and names no worker, and there is one only where caching is allowed) and what a
  call carries to the cache and to its caller (`CallRight`).
* `TemplatesImplementCache`: every step of the listener, of a solved block and of the pushes is
  a step of GbtCache or leaves it alone; with it `PushedPaysSelected` carries PaysSelected over to the
  templates that are pushed as jobs.

`SessionsProofs` (any number of connections, hosts, wallets and names, any range of extranonces):

* `TypeCorrect`, `ExtranonceApartAlways`, `NoGhostsAlways`, and the action property
  `GoneForGoodAlways`.
* ExtranonceApart speaks of pairs of connections and is not inductive: the invariant `Round` says
  that the extranonces, that of the next connection included, go round the range in the
  order of connecting, so two that are at most `maxExtranonce` apart differ. NoGhosts needs
  that the connection being removed is no longer registered and has hung up
  (`Unregistered`), and GoneForGood that a registered one is not gone.

`VarDiffProofs` (any number of pushers, any windows, tolerances, rate and difficulties):

* `TypeCorrect`: what Judge answers is a row again, its window one of the table and its difficulty
  a natural number, for any shares and minutes (`JudgeType`). It uses that the final window of the table,
  and only that, is marked by 0, as in the code.
* `ToldIsCheckedAlways`, for every interleaving of the pushers. The invariant says that nobody is past
  the set-up before the flag is set and that a difficulty is missing only while a pusher is about to
  create it (`SetUp`), and, unless the last message went amiss, that the miner knows the difficulty in force
  or some pusher is on its way to tell it (`Informed`, `Telling`). A solo miner is not told the minimum
  the difficulty starts with.
* `JudgeFollowsRateAlways`: for every window Judge leaves the difficulty, scales it by the share
  rate or divides it by ten (`Verdicts`), and a quotient diff * n / e is above or below diff only
  if n is above or below e (`ScaledFollows`).

`DashboardProofs`. The page (any page size, rows, requests in flight and faults):

* `NeverPastTheEndAlways`, with the buttons live from the start: an offset is always a whole number of pages, shown or asked for, and
  every total is at most the number of rows, which never shrinks. The buttons keep that
  (`TargetStarts`).
* `AtomsWithinBlueAlways`: the sum a request carries is at most the number of rows that are blue
  by now, since no settled row changes; the counts are read later, so they cover it
  (`RequestOK`). The script asks and applies answers only in a page that was loaded (`PageInv`).

The counters and the rewards:

* `RollingIsWindowAlways` (any length of the day and the hour, any difficulties and times between
  shares). That the sums over a day and over an hour are right is not inductive: when the clock
  moves on, the sum over an hour loses a minute that nothing said anything about. The invariant
  `RInv` says that the sum over the last n minutes is right for every n up to a day; a move of the clock by
  one then turns what is known for n - 1 into what is needed for n, and what is pruned lies
  outside every n (`MapsRight`). It also says that each map holds minutes of one day only, the day
  that ended with the row's last share (`DayMap`).
* `PollCatchesUpAlways`, `WaysAgreeAlways`, `SplitExactAlways` (any number of blocks, in chains of any
  length and shape, any limits, faults, workers and payments). The invariant `PInv` says that a chain starts with
  its block, gets older from block to block, and is from each of its blocks on the chain of that
  block (`ChainNested`), and that of the paying blocks of the chain of its cursor the client was told,
  but for those left out (`CursorKnown`). The last is what PollCatchesUp needs: the cursor an answer
  leaves is on the selected chain and on the one that was asked for, so its chain is part of both
  (`SubChain`), and what is above the first known block, and that
  block's chain, make up the whole chain (`AboveCovers`). WaysAgree needs the order: on the chain of
  the cursor its own block comes first (`AboveCursor`), and cutting a reversed list to its
  last ones is cutting the list to its first ones (`ReverseCapped`). SplitExact is the equation
  amount = n * portion + remainder over a sum (`RowsSum`), with the remainder given to one row
  of those included.

`SumTheorems` is what the sums rest on. `SumFunctionOnSet` is a fold, a recursive function that
picks its elements with CHOOSE; the lemmas say that it has a value for every finite set
(`SumExists`), that the element taken out first does not matter (`SumRemove`), and what a change of one
element or a constant function does to it (`SumRaise`, `SumSteady`). The induction theorems
of the library take the property as an operator, which the provers cannot instantiate. Here the
property is a set, of those subsets that have it, and the induction is the smallest
subset without it (`SubsetInduction`), from the theorem that finite sets are
well-founded under inclusion. `MinFacts` gets the least element of a set of numbers the same way.

Assumptions are the ASSUMEs of the modules, which TLC evaluates in every run: they give
the constants their types, keep the model values apart, and say that the set of connections
is finite.

Only model-checked: the liveness properties (EveryBlockSettles,
EverySubmissionAnswered, ExpiredGoes, CallsReturn, MinersCatchUp, NotificationsTaken,
EveryDisconnectHandled, TrackerRestarts, EventuallyUpToDate, and the fairness in
ImplementsBook), since TLAPS handles neither fairness nor ENABLED here. LoweredOnlyIfSlow,
RowsAreBlocks and BookedOnce are violated by the code.

## Not modelled

* Hashing, proof of work, difficulty conversion (`hasher.go`, `src/pow`): 256-bit and floating
  point arithmetic, out of TLC's reach. ShareSubmit has a proof of work as a template and a nonce.
* Metrics (`prom.go`), flags, YAML, logging, the wording of replies and formatting of pages.
* The framing of the byte stream: `stratum_client.go` 79 parses what one read returns, so a line
  that comes in two reads ends the connection; Sessions sees whole requests.
* The abort of the Go runtime when the vardiff thread iterates `sh.stats` while another goroutine
  writes the map (share_handler.go 886).
* The record of a worker that two connections share: one's disconnect deletes the row while the
  other's handler goes on counting in it (share_handler.go 168). Sessions has the keys,
  ShareSubmit counts per connection, VarDiff has a row made anew.
* Of the web UI: the workers' tables, the dialogs, TLS. Of the rewards API: the lookup without a database, the parsing of coinbase payloads.

## Plan

1. Sessions composed with ShareSubmit: rows shared between connections.
2. Difficulty conversion on small widths.
