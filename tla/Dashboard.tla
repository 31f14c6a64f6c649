------------------------------ MODULE Dashboard ------------------------------
(***************************************************************************)
(* The stats page of one wallet: the handlers of webui.go and the queries   *)
(* of db.go they make, and the script of the page in the browser, with the  *)
(* requests between them.                                                   *)
(*                                                                          *)
(* A handler makes its queries one by one while blocks are recorded and     *)
(* settled; the answers to the browser arrive in any order, or not at all.  *)
(* A row is its status; rows are numbered by age.  Every blue row has a     *)
(* reward of one unit.  The workers' hashrates and formatting are left out. *)
(*                                                                          *)
(* The table of blocks and the totals above it share nothing but the        *)
(* requests that fill them, so a behaviour follows one of them; what the    *)
(* other asks for is skipped.                                               *)
(***************************************************************************)
EXTENDS Naturals, Sequences, FiniteSets

CONSTANTS
    PageSize,  \* _pageSize
    Outcomes,  \* how a block may be settled: blue, red, merge_duplicate
    Requests,  \* names for the requests in flight
    MaxRows,   \* bound on the rows recorded
    MaxFaults, \* bound on the requests and queries that fail
    None

ASSUME DashboardAssumption ==
    /\ PageSize \in Nat \ {0}
    /\ Outcomes \subseteq {"blue", "red", "merge_duplicate"}
    /\ MaxRows \in Nat /\ MaxFaults \in Nat

VARIABLES
    rows,   \* the wallet's rows of block_rewards, oldest first
    req,    \* requests in flight
    page,   \* what the browser shows, None before the page is loaded
    faults, \* requests and queries that failed so far
    view    \* the half of the page that is followed

vars == <<rows, req, page, faults, view>>

-----------------------------------------------------------------------------
(* db.go                                                                    *)

RowsWith(statuses) == {i \in 1..Len(rows) : rows[i] \in statuses}

(* GetBlockCountsByWallet: a duplicate counts as blue. *)
GetBlockCounts ==
    [blue |-> Cardinality(RowsWith({"blue", "merge_duplicate"})),
     red |-> Cardinality(RowsWith({"red"})),
     pending |-> Cardinality(RowsWith({"pending"}))]

(* GetTotalAtomsByWallet *)
GetTotalAtoms == Cardinality(RowsWith({"blue"}))

CountBlocks == Len(rows)

(* GetBlocksByWalletPaged: newest first. *)
GetBlocksPaged(offset) ==
    LET n == IF offset >= Len(rows) THEN 0
             ELSE IF Len(rows) - offset < PageSize THEN Len(rows) - offset ELSE PageSize
    IN  [k \in 1..n |-> [id |-> Len(rows) + 1 - offset - k,
                         status |-> rows[Len(rows) + 1 - offset - k]]]

-----------------------------------------------------------------------------
(* The handlers: /stats ("load"), /api/stats and /api/blocks, which the      *)
(* script asks together ("refresh"), and /api/blocks alone ("fetch").        *)

NoCounts == [blue |-> 0, red |-> 0, pending |-> 0]

Ask(half, skipped) == IF view = half THEN None ELSE skipped

Request(kind, offset) ==
    [kind |-> kind, offset |-> offset,
     total |-> Ask("table", 0), blocks |-> Ask("table", <<>>),
     atoms |-> Ask("totals", 0), counts |-> Ask("totals", NoCounts)]

Answer(q, field, value) == req' = [req EXCEPT ![q][field] = value]

Asks(q, field) == req[q] # None /\ req[q][field] = None

Has(q, field) == req[q][field] # None

(* /stats reads the page and then the total, /api/blocks the other way round. *)
QueryTotal(q) ==
    /\ Asks(q, "total")
    /\ req[q].kind = "load" => Has(q, "blocks")
    /\ Answer(q, "total", CountBlocks)
    /\ UNCHANGED <<rows, page, faults, view>>

QueryBlocks(q) ==
    /\ Asks(q, "blocks")
    /\ req[q].kind # "load" => Has(q, "total")
    /\ Answer(q, "blocks", GetBlocksPaged(req[q].offset))
    /\ UNCHANGED <<rows, page, faults, view>>

(* A query whose error the handler turns into zeros *)
AnswerOrZero(q, field, value, zero) ==
    \/ Answer(q, field, value) /\ UNCHANGED faults
    \/ /\ faults < MaxFaults
       /\ faults' = faults + 1
       /\ Answer(q, field, zero)

(* The sum is read before the counts it is shown with. *)
QueryAtoms(q) ==
    /\ Asks(q, "atoms") /\ req[q].kind # "fetch"
    /\ req[q].kind = "load" => Has(q, "total")
    /\ AnswerOrZero(q, "atoms", GetTotalAtoms, 0)
    /\ UNCHANGED <<rows, page, view>>

(* Mutant of QueryCounts: not after the sum. *)
QueryCountsMutant(q) ==
    /\ Asks(q, "counts") /\ req[q].kind # "fetch"
    /\ AnswerOrZero(q, "counts", GetBlockCounts, NoCounts)
    /\ UNCHANGED <<rows, page, view>>

QueryCounts(q) ==
    /\ Asks(q, "counts") /\ req[q].kind # "fetch"
    /\ Has(q, "atoms")
    /\ AnswerOrZero(q, "counts", GetBlockCounts, NoCounts)
    /\ UNCHANGED <<rows, page, view>>

-----------------------------------------------------------------------------
(* The browser                                                              *)

Free(q) == req[q] = None

Finish(q) == req' = [req EXCEPT ![q] = None]

Open(q) ==
    /\ page = None /\ Free(q)
    /\ \A p \in Requests : Free(p)
    /\ req' = [req EXCEPT ![q] = Request("load", 0)]
    /\ UNCHANGED <<rows, page, faults, view>>

(* Mutant of StartRefresh: the first page, whatever is shown. *)
StartRefreshMutant(q) ==
    /\ page # None /\ Free(q)
    /\ req' = [req EXCEPT ![q] = Request("refresh", 0)]
    /\ UNCHANGED <<rows, page, faults, view>>

(* _refreshStats, every 30 s whether or not the last one is back. *)
StartRefresh(q) ==
    /\ page # None /\ Free(q)
    /\ req' = [req EXCEPT ![q] = Request("refresh", page.offset)]
    /\ UNCHANGED <<rows, page, faults, view>>

Buttons == {"first", "prev", "next", "last"}

(* updatePagination: the buttons that are shown and enabled. *)
Enabled(dir) ==
    /\ page.total > PageSize
    /\ dir \in {"first", "prev"} => page.offset > 0
    /\ dir \in {"next", "last"} => page.offset + PageSize < page.total

(* Mutant of Target: pages are counted from one. *)
TargetMutant(dir) ==
    CASE dir = "first" -> 0
      [] dir = "last"  -> ((page.total + PageSize - 1) \div PageSize) * PageSize
      [] dir = "prev"  -> page.offset - PageSize
      [] dir = "next"  -> page.offset + PageSize

(* The offset changePage asks for. *)
Target(dir) ==
    CASE dir = "first" -> 0
      [] dir = "last"  -> ((page.total + PageSize - 1) \div PageSize - 1) * PageSize
      [] dir = "prev"  -> page.offset - PageSize
      [] dir = "next"  -> page.offset + PageSize

Click(q, dir) ==
    /\ page # None /\ Free(q)
    /\ Enabled(dir)
    /\ Target(dir) # page.offset
    /\ dir = "next" => Target(dir) < page.total
    /\ req' = [req EXCEPT ![q] = Request("fetch", Target(dir))]
    /\ UNCHANGED <<rows, page, faults, view>>

(* _applyStats *)
ApplyStats(p, r) == [p EXCEPT !.atoms = r.atoms, !.counts = r.counts]

(* renderTable, _total and updatePagination; the offset is not the refresh's  *)
(* to set.                                                                    *)
ShowBlocks(p, r) == [p EXCEPT !.table = r.blocks, !.total = r.total]

Complete(q) ==
    /\ req[q] # None /\ Has(q, "blocks") /\ Has(q, "total")
    /\ req[q].kind # "fetch" => Has(q, "atoms") /\ Has(q, "counts")

(* The page arrives: the table is the first page; the script starts, with     *)
(* updatePagination, so the buttons are live before anything was fetched.     *)
DeliverPage(q) ==
    LET r == req[q] IN
    /\ Complete(q) /\ r.kind = "load"
    /\ page' = [offset |-> 0, total |-> r.total, table |-> r.blocks, atoms |-> r.atoms,
                counts |-> r.counts]
    /\ Finish(q)
    /\ UNCHANGED <<rows, faults, view>>

(* Both answers of a refresh are there (Promise.all). *)
DeliverRefresh(q) ==
    /\ Complete(q) /\ req[q].kind = "refresh"
    /\ page' = ShowBlocks(ApplyStats(page, req[q]), req[q])
    /\ Finish(q)
    /\ UNCHANGED <<rows, faults, view>>

(* The then of fetchPage. *)
DeliverFetch(q) ==
    /\ Complete(q) /\ req[q].kind = "fetch"
    /\ page' = [ShowBlocks(page, req[q]) EXCEPT !.offset = req[q].offset]
    /\ Finish(q)
    /\ UNCHANGED <<rows, faults, view>>

(* A request fails.  The error of /api/blocks parses as JSON, so a refresh   *)
(* has applied its stats when renderTable trips over it.                     *)
Fail(q) ==
    /\ ~Free(q) /\ faults < MaxFaults
    /\ faults' = faults + 1
    /\ \/ UNCHANGED page
       \/ /\ req[q].kind = "refresh" /\ Has(q, "atoms") /\ Has(q, "counts")
          /\ page' = ApplyStats(page, req[q])
    /\ Finish(q)
    /\ UNCHANGED <<rows, view>>

-----------------------------------------------------------------------------
(* The rest of the bridge                                                   *)

Record ==
    /\ Len(rows) < MaxRows
    /\ rows' = Append(rows, "pending")
    /\ UNCHANGED <<req, page, faults, view>>

Settle(i, status) ==
    /\ rows[i] = "pending"
    /\ rows' = [rows EXCEPT ![i] = status]
    /\ UNCHANGED <<req, page, faults, view>>

Init ==
    /\ rows = <<>>
    /\ req = [q \in Requests |-> None]
    /\ page = None
    /\ faults = 0
    /\ view \in {"table", "totals"}

Serve(q) ==
    \/ QueryTotal(q) \/ QueryBlocks(q) \/ QueryAtoms(q) \/ QueryCounts(q)

Deliver(q) == DeliverPage(q) \/ DeliverRefresh(q) \/ DeliverFetch(q)

Next ==
    \/ \E q \in Requests :
         \/ Open(q) \/ StartRefresh(q) \/ Serve(q) \/ Deliver(q) \/ Fail(q)
         \/ \E dir \in Buttons : Click(q, dir)
    \/ Record
    \/ \E i \in 1..Len(rows), status \in Outcomes : Settle(i, status)

(* Handlers finish, answers arrive, and the interval timer fires. *)
Fairness ==
    /\ \A q \in Requests : WF_vars(Serve(q) \/ Deliver(q))
    /\ WF_vars(\E q \in Requests : StartRefresh(q))

Spec == Init /\ [][Next]_vars /\ Fairness

-----------------------------------------------------------------------------
(* Properties                                                               *)

(* The user is never led past the end: the page that is shown starts at a    *)
(* multiple of the page size, at a row that exists, however stale the total  *)
(* the offset was computed from and in whichever order the answers came.     *)
NeverPastTheEnd ==
    page # None => /\ page.offset % PageSize = 0
                   /\ page.offset = 0 \/ page.offset < Len(rows)

(* The page never shows more income than its count of blue blocks explains,  *)
(* although the two are read by queries between which blocks are settled,    *)
(* except next to counts that are all zero because their query failed.       *)
AtomsWithinBlue ==
    page # None => page.atoms <= page.counts.blue \/ page.counts = NoCounts

(* What the page would show if it were made now. *)
UpToDate ==
    IF view = "table"
    THEN page.total = CountBlocks /\ page.table = GetBlocksPaged(page.offset)
    ELSE page.atoms = GetTotalAtoms /\ page.counts = GetBlockCounts

Clicks == \E q \in Requests, dir \in Buttons : Click(q, dir)

(* An open page is up to date in the end, with the rows of the page it says  *)
(* it is on: refreshes and page fetches that overtake each other, and        *)
(* answers that are lost, leave nothing wrong for good once the user stops   *)
(* clicking.                                                                 *)
EventuallyUpToDate ==
    (<>[][~Clicks]_vars) /\ <>(page # None) => <>[](page # None /\ UpToDate)

=============================================================================
