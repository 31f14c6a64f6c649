--------------------------- MODULE DashboardProofs ---------------------------
(***************************************************************************)
(* Proofs about what the bridge shows a miner: the stats page, for any page *)
(* size, any number of rows and of requests in flight, and whatever fails;  *)
(* the counters of the last day and hour, for days and hours of any length; *)
(* and the rewards API, for chains of any length and shape.                 *)
(***************************************************************************)
EXTENDS Dashboard, RollingStats, MinerRewards, SumTheorems, FiniteSetTheorems, TLAPS

-----------------------------------------------------------------------------
(* The stats page                                                             *)

Statuses == {"pending", "blue", "red", "merge_duplicate"}

(* The rows that count as blue. *)
Blue == Cardinality(RowsWith({"blue", "merge_duplicate"}))

(* The page that starts at offset is a page of the rows there are. *)
Starts(offset) == \E k \in Nat : offset = k * PageSize /\ (k = 0 \/ offset < Len(rows))

IsRequest(r) ==
    r = [kind |-> r.kind, offset |-> r.offset, total |-> r.total, blocks |-> r.blocks,
         atoms |-> r.atoms, counts |-> r.counts]

IsPage(p) ==
    p = [offset |-> p.offset, total |-> p.total, table |-> p.table, atoms |-> p.atoms,
         counts |-> p.counts]

(* What a request has been answered so far may be old, but rows are never     *)
(* deleted and blue ones stay blue.                                           *)
RequestOK(r) ==
    /\ IsRequest(r)
    /\ Starts(r.offset)
    /\ r.total = None \/ r.total \in 0..Len(rows)
    /\ r.atoms = None \/ r.atoms \in 0..Blue
    /\ \/ r.counts = None \/ r.counts = NoCounts
       \/ r.atoms # None /\ r.counts.blue \in Nat /\ r.atoms <= r.counts.blue

PageOK(p) ==
    /\ IsPage(p)
    /\ Starts(p.offset)
    /\ p.total \in 0..Len(rows)
    /\ p.atoms <= p.counts.blue \/ p.counts = NoCounts

RequestsInv ==
    /\ req = [q \in Requests |-> req[q]]
    /\ \A q \in Requests : req[q] # None => RequestOK(req[q])

(* The script runs, and asks, only in a page that was loaded. *)
PageInv ==
    \/ PageOK(page)
    \/ page = None /\ \A q \in Requests : req[q] # None => req[q].kind = "load"

IInv == rows \in Seq(Statuses) /\ RequestsInv /\ PageInv

-----------------------------------------------------------------------------
(* The pages                                                                  *)

LEMMA Product == ASSUME NEW k \in Nat, NEW m \in Nat PROVE k * m \in Nat
OBVIOUS

LEMMA NextMultiple ==
    ASSUME NEW k \in Int, NEW m \in Nat
    PROVE  (k + 1) * m = k * m + m /\ (k - 1) * m = k * m - m
OBVIOUS

LEMMA Quotient ==
    ASSUME NEW a \in Nat, NEW b \in Nat \ {0}
    PROVE  /\ a \div b \in Nat /\ (a \div b) * b <= a
           /\ a < (a \div b) * b + b
OBVIOUS

LEMMA MultiplesApart ==
    ASSUME NEW m \in Nat \ {0}, NEW a \in Int, NEW b \in Int, a < b
    PROVE  a * m + m <= b * m
OBVIOUS

LEMMA Remainder ==
    ASSUME NEW m \in Nat \ {0}, NEW i \in Nat
    PROVE  /\ i = (i \div m) * m + (i % m) /\ (i \div m) \in Nat /\ (i % m) \in Nat
           /\ i % m < m
OBVIOUS

LEMMA MultipleRemainder ==
    ASSUME NEW m \in Nat \ {0}, NEW k \in Nat
    PROVE  (k * m) % m = 0
<1>1. PICK i \in Nat : i = k * m
  BY Product
<1>2. PICK d \in Nat, r \in Nat : d = i \div m /\ r = i % m
  BY Remainder
<1>3. k * m = d * m + r /\ r < m
  BY <1>1, <1>2, Remainder
<1>4. k * m \in Nat /\ d * m \in Nat
  BY <1>1, Product
<1>5. ~(k < d)
  <2>1. k < d => k * m + m <= d * m
    BY MultiplesApart
  <2> QED BY <1>3, <1>4, <2>1
<1>6. ~(d < k)
  <2>1. d < k => d * m + m <= k * m
    BY MultiplesApart
  <2> QED BY <1>3, <1>4, <2>1
<1>7. k = d
  BY <1>5, <1>6
<1>8. r = 0
  BY <1>3, <1>4, <1>7
<1> QED BY <1>1, <1>2, <1>8

(* The buttons that can be pressed lead to pages that exist. *)
LEMMA TargetStarts ==
    ASSUME rows \in Seq(Statuses), PageOK(page), NEW dir \in Buttons, Enabled(dir),
           dir = "next" => Target(dir) < page.total
    PROVE  Starts(Target(dir))
<1>1. PageSize \in Nat \ {0} /\ Len(rows) \in Nat
  BY DashboardAssumption
<1>2. PICK total \in Nat : total = page.total
  BY <1>1 DEF PageOK
<1>3. PICK k \in Nat : /\ page.offset = k * PageSize
                       /\ k = 0 \/ page.offset < Len(rows)
  BY DEF PageOK, Starts
<1>4. total <= Len(rows) /\ PageSize < total
  BY <1>1, <1>2 DEF PageOK, Enabled
<1>5. k * PageSize \in Nat
  BY <1>1, Product
<1>6. CASE dir = "first"
  <2>1. Target(dir) = 0 * PageSize
    BY <1>1, <1>6 DEF Target
  <2> QED BY <2>1 DEF Starts
<1>7. CASE dir = "prev"
  <2>1. page.offset > 0
    BY <1>7 DEF Enabled
  <2>2. k # 0
    BY <1>1, <1>3, <2>1
  <2>3. k - 1 \in Nat
    BY <2>2
  <2>4. Target(dir) = (k - 1) * PageSize
    <3>1. Target(dir) = page.offset - PageSize
      BY <1>7 DEF Target
    <3>2. (k - 1) * PageSize = k * PageSize - PageSize
      BY <1>1, NextMultiple
    <3> QED BY <1>3, <3>1, <3>2
  <2>5. Target(dir) < Len(rows)
    <3>1. Target(dir) = k * PageSize - PageSize
      BY <1>1, <2>4, NextMultiple
    <3> QED BY <1>1, <1>3, <1>5, <2>2, <3>1
  <2> QED BY <2>3, <2>4, <2>5 DEF Starts
<1>8. CASE dir = "next"
  <2>1. Target(dir) = page.offset + PageSize
    BY <1>8 DEF Target
  <2>2. (k + 1) * PageSize = k * PageSize + PageSize
    BY <1>1, NextMultiple
  <2>3. Target(dir) = (k + 1) * PageSize
    BY <1>3, <2>1, <2>2
  <2>4. Target(dir) < total
    BY <1>2, <1>8
  <2>5. Target(dir) < Len(rows)
    BY <1>1, <1>3, <1>4, <1>5, <2>1, <2>4
  <2>6. k + 1 \in Nat
    OBVIOUS
  <2> QED BY <2>3, <2>5, <2>6 DEF Starts
<1>9. CASE dir = "last"
  <2>1. PICK d \in Nat : d = (total + PageSize - 1) \div PageSize
    <3>1. total + PageSize - 1 \in Nat
      BY <1>1, <1>4
    <3> QED BY <1>1, <3>1, Quotient
  <2>2. d * PageSize <= total + PageSize - 1 /\ total + PageSize - 1 < d * PageSize + PageSize
    <3>1. PICK a \in Nat : a = total + PageSize - 1
      BY <1>1, <1>4
    <3>2. (a \div PageSize) * PageSize <= a /\ a < (a \div PageSize) * PageSize + PageSize
      BY <1>1, Quotient
    <3> QED BY <2>1, <3>1, <3>2
  <2>3. d * PageSize \in Nat
    BY <1>1, Product
  <2>4. d # 0
    BY <1>1, <1>4, <2>2
  <2>5. d - 1 \in Nat
    BY <2>4
  <2>6. Target(dir) = (d - 1) * PageSize
    BY <1>2, <1>9, <2>1 DEF Target
  <2>7. (d - 1) * PageSize = d * PageSize - PageSize
    BY <1>1, NextMultiple
  <2>8. Target(dir) < Len(rows)
    BY <1>1, <1>4, <2>2, <2>3, <2>6, <2>7
  <2> QED BY <2>5, <2>6, <2>8 DEF Starts
<1> QED BY <1>6, <1>7, <1>8, <1>9 DEF Buttons

-----------------------------------------------------------------------------
(* The counts                                                                 *)

LEMMA RowsWithFinite ==
    ASSUME rows \in Seq(Statuses), NEW S
    PROVE  IsFiniteSet(RowsWith(S)) /\ Cardinality(RowsWith(S)) \in Nat
<1>1. IsFiniteSet(1..Len(rows))
  BY FS_Interval
<1>2. RowsWith(S) \in SUBSET (1..Len(rows))
  BY DEF RowsWith
<1>3. IsFiniteSet(RowsWith(S))
  BY <1>1, <1>2, FS_Subset
<1> QED BY <1>3, FS_CardinalityType

(* The sum of the rewards is explained by the blue rows. *)
LEMMA AtomsBlue ==
    ASSUME rows \in Seq(Statuses)
    PROVE  GetTotalAtoms \in 0..Blue /\ Blue \in Nat
<1>1. RowsWith({"blue"}) \in SUBSET RowsWith({"blue", "merge_duplicate"})
  BY DEF RowsWith
<1>2. IsFiniteSet(RowsWith({"blue", "merge_duplicate"})) /\ Blue \in Nat /\ GetTotalAtoms \in Nat
  BY RowsWithFinite DEF Blue, GetTotalAtoms
<1>3. Cardinality(RowsWith({"blue"})) <= Cardinality(RowsWith({"blue", "merge_duplicate"}))
  BY <1>1, <1>2, FS_Subset
<1> QED BY <1>2, <1>3 DEF Blue, GetTotalAtoms

(* Rows are added at the end and settled once, so nothing that was counted    *)
(* goes away.                                                                 *)
Grows == rows' \in Seq(Statuses) /\ Len(rows) <= Len(rows') /\ Blue <= Blue'

LEMMA BlueGrows ==
    ASSUME rows \in Seq(Statuses), rows' \in Seq(Statuses), Len(rows) <= Len(rows'),
           \A i \in 1..Len(rows) : rows[i] # "pending" => rows'[i] = rows[i]
    PROVE  Grows
<1>1. RowsWith({"blue", "merge_duplicate"}) \in SUBSET RowsWith({"blue", "merge_duplicate"})'
  BY DEF RowsWith
<1>2. IsFiniteSet(RowsWith({"blue", "merge_duplicate"})')
  <2>1. IsFiniteSet(1..Len(rows'))
    BY FS_Interval
  <2>2. RowsWith({"blue", "merge_duplicate"})' \in SUBSET (1..Len(rows'))
    BY DEF RowsWith
  <2> QED BY <2>1, <2>2, FS_Subset
<1>3. Cardinality(RowsWith({"blue", "merge_duplicate"}))
        <= Cardinality(RowsWith({"blue", "merge_duplicate"})')
  BY <1>1, <1>2, FS_Subset
<1> QED BY <1>3 DEF Grows, Blue

LEMMA RowsGrow ==
    ASSUME rows \in Seq(Statuses),
           \/ Record
           \/ \E i \in 1..Len(rows), status \in Outcomes : Settle(i, status)
    PROVE  Grows
<1>1. CASE Record
  <2>1. rows' = Append(rows, "pending")
    BY <1>1 DEF Record
  <2>2. /\ rows' \in Seq(Statuses) /\ Len(rows') = Len(rows) + 1
        /\ \A i \in 1..Len(rows) : rows'[i] = rows[i]
    BY <2>1 DEF Statuses
  <2> QED BY <2>2, BlueGrows
<1>2. ASSUME NEW i \in 1..Len(rows), NEW status \in Outcomes, Settle(i, status) PROVE Grows
  <2>1. rows[i] = "pending" /\ rows' = [rows EXCEPT ![i] = status] /\ status \in Statuses
    BY <1>2, DashboardAssumption DEF Settle, Statuses
  <2>2. /\ rows' \in Seq(Statuses) /\ Len(rows') = Len(rows)
        /\ \A j \in 1..Len(rows) : j # i => rows'[j] = rows[j]
    BY <2>1
  <2> QED BY <2>1, <2>2, BlueGrows
<1> QED BY <1>1, <1>2

LEMMA StillOK ==
    ASSUME rows \in Seq(Statuses), Grows
    PROVE  /\ \A r : RequestOK(r) => RequestOK(r)'
           /\ \A p : PageOK(p) => PageOK(p)'
<1>1. /\ Len(rows) \in Nat /\ Len(rows') \in Nat /\ Blue \in Nat
      /\ Len(rows) <= Len(rows') /\ Blue <= Blue'
  BY AtomsBlue DEF Grows
<1>2. Blue' \in Nat
  <2>1. rows' \in Seq(Statuses)
    BY DEF Grows
  <2>2. IsFiniteSet(1..Len(rows'))
    BY <2>1, FS_Interval
  <2>3. RowsWith({"blue", "merge_duplicate"})' \in SUBSET (1..Len(rows'))
    BY DEF RowsWith
  <2>4. IsFiniteSet(RowsWith({"blue", "merge_duplicate"})')
    BY <2>2, <2>3, FS_Subset
  <2> QED BY <2>4, FS_CardinalityType DEF Blue
<1>3. PageSize \in Nat
  BY DashboardAssumption
<1>4. \A o : Starts(o) => Starts(o)'
  <2> SUFFICES ASSUME NEW o, Starts(o) PROVE Starts(o)'
    OBVIOUS
  <2>1. PICK k \in Nat : o = k * PageSize /\ (k = 0 \/ o < Len(rows))
    BY DEF Starts
  <2>2. o \in Nat
    BY <1>3, <2>1, Product
  <2>3. k = 0 \/ o < Len(rows')
    BY <1>1, <2>1, <2>2
  <2> QED BY <2>1, <2>3 DEF Starts
<1>5. /\ \A n : n \in 0..Len(rows) => n \in 0..Len(rows')
      /\ \A n : n \in 0..Blue => n \in 0..(Blue')
  BY <1>1, <1>2
<1> QED BY <1>4, <1>5 DEF RequestOK, PageOK

-----------------------------------------------------------------------------
(* The requests                                                               *)

(* The rows do not change while a request is asked, answered or delivered. *)
LEMMA SameRows ==
    ASSUME rows' = rows
    PROVE  /\ \A r : RequestOK(r)' <=> RequestOK(r)
           /\ \A p : PageOK(p)' <=> PageOK(p)
BY DEF RequestOK, PageOK, Starts, Blue, RowsWith

LEMMA RequestChange ==
    ASSUME RequestsInv, rows' = rows, NEW q \in Requests, NEW r, r # None => RequestOK(r),
           req' = [req EXCEPT ![q] = r]
    PROVE  /\ RequestsInv'
           /\ req'[q] = r /\ \A p \in Requests : p # q => req'[p] = req[p]
<1>1. PICK f : f = [p \in Requests |-> req[p]]
  OBVIOUS
<1>2. req = f
  BY <1>1 DEF RequestsInv
<1>3. req'[q] = r /\ \A p \in Requests : p # q => req'[p] = req[p]
  BY <1>1, <1>2
<1>4. req' = [p \in Requests |-> req'[p]]
  BY <1>1, <1>2
<1>5. \A p \in Requests : req'[p] # None => RequestOK(req'[p])
  BY <1>3 DEF RequestsInv
<1>6. \A p \in Requests : req'[p] # None => RequestOK(req[p])'
  BY <1>5, SameRows
<1> QED BY <1>3, <1>4, <1>6 DEF RequestsInv

(* A query is answered: the page is not touched and the kind stays. *)
LEMMA AnswerStep ==
    ASSUME IInv, UNCHANGED <<rows, page>>, NEW q \in Requests, req[q] # None, NEW r,
           RequestOK(r), r.kind = req[q].kind, req' = [req EXCEPT ![q] = r]
    PROVE  IInv'
<1>1. /\ RequestsInv' /\ req'[q] = r
      /\ \A p \in Requests : p # q => req'[p] = req[p]
  BY RequestChange DEF IInv
<1>2. PageInv'
  <2>1. CASE PageOK(page)
    <3>1. PageOK(page)'
      BY <2>1, SameRows
    <3> QED BY <3>1 DEF PageInv
  <2>2. CASE page = None /\ \A p \in Requests : req[p] # None => req[p].kind = "load"
    BY <1>1, <2>2 DEF PageInv
  <2> QED BY <2>1, <2>2 DEF IInv, PageInv
<1> QED BY <1>1, <1>2 DEF IInv

LEMMA ServeInv == ASSUME IInv, NEW q \in Requests, Serve(q) PROVE IInv'
<1>1. PICK r : r = req[q]
  OBVIOUS
<1>2. RequestOK(r) /\ r # None /\ UNCHANGED <<rows, page>>
  BY <1>1 DEF IInv, RequestsInv, Serve, QueryTotal, QueryBlocks, QueryAtoms, QueryCounts, Asks
<1>3. IsRequest(r)
  BY <1>2 DEF RequestOK
<1>4. rows \in Seq(Statuses) /\ Len(rows) \in Nat /\ GetTotalAtoms \in 0..Blue /\ Blue \in Nat
  BY AtomsBlue DEF IInv
<1>5. CASE QueryTotal(q)
  <2>1. PICK n \in 0..Len(rows) : n = CountBlocks
    BY <1>4 DEF CountBlocks
  <2>2. PICK t : t = [r EXCEPT !.total = n]
    OBVIOUS
  <2>3. /\ IsRequest(t) /\ t.kind = r.kind /\ t.offset = r.offset /\ t.total = n
        /\ t.atoms = r.atoms /\ t.counts = r.counts
    BY <1>3, <2>2 DEF IsRequest
  <2>4. RequestOK(t)
    BY <1>2, <2>3 DEF RequestOK
  <2>5. req' = [req EXCEPT ![q] = t]
    BY <1>1, <1>5, <2>1, <2>2 DEF QueryTotal, Answer
  <2> QED BY <1>1, <1>2, <2>3, <2>4, <2>5, AnswerStep
<1>6. CASE QueryBlocks(q)
  <2>1. PICK b : b = GetBlocksPaged(req[q].offset)
    OBVIOUS
  <2>2. PICK t : t = [r EXCEPT !.blocks = b]
    OBVIOUS
  <2>3. /\ IsRequest(t) /\ t.kind = r.kind /\ t.offset = r.offset /\ t.total = r.total
        /\ t.atoms = r.atoms /\ t.counts = r.counts
    BY <1>3, <2>2 DEF IsRequest
  <2>4. RequestOK(t)
    BY <1>2, <2>3 DEF RequestOK
  <2>5. req' = [req EXCEPT ![q] = t]
    BY <1>1, <1>6, <2>1, <2>2 DEF QueryBlocks, Answer
  <2> QED BY <1>1, <1>2, <2>3, <2>4, <2>5, AnswerStep
<1>7. CASE QueryAtoms(q)
  <2>1. PICK n \in 0..Blue : Answer(q, "atoms", n)
    BY <1>4, <1>7 DEF QueryAtoms, AnswerOrZero
  <2>2. PICK t : t = [r EXCEPT !.atoms = n]
    OBVIOUS
  <2>3. /\ IsRequest(t) /\ t.kind = r.kind /\ t.offset = r.offset /\ t.total = r.total
        /\ t.atoms = n /\ t.counts = r.counts
    BY <1>3, <2>2 DEF IsRequest
  <2>4. r.atoms = None
    BY <1>1, <1>7 DEF QueryAtoms, Asks
  <2>5. RequestOK(t)
    BY <1>2, <2>3, <2>4 DEF RequestOK
  <2>6. req' = [req EXCEPT ![q] = t]
    BY <1>1, <2>1, <2>2 DEF Answer
  <2> QED BY <1>1, <1>2, <2>3, <2>5, <2>6, AnswerStep
<1>8. CASE QueryCounts(q)
  <2>1. GetBlockCounts.blue = Blue
    BY DEF GetBlockCounts, Blue
  <2>2. PICK n : Answer(q, "counts", n) /\ (n = NoCounts \/ n.blue = Blue)
    BY <1>8, <2>1 DEF QueryCounts, AnswerOrZero
  <2>3. PICK t : t = [r EXCEPT !.counts = n]
    OBVIOUS
  <2>4. /\ IsRequest(t) /\ t.kind = r.kind /\ t.offset = r.offset /\ t.total = r.total
        /\ t.atoms = r.atoms /\ t.counts = n
    BY <1>3, <2>3 DEF IsRequest
  <2>5. r.atoms # None
    BY <1>1, <1>8 DEF QueryCounts, Has
  <2>6. r.atoms \in 0..Blue
    BY <1>2, <2>5 DEF RequestOK
  <2>7. n = NoCounts \/ (n.blue \in Nat /\ r.atoms <= n.blue)
    BY <1>4, <2>2, <2>6
  <2>8. RequestOK(t)
    BY <1>2, <2>4, <2>5, <2>7 DEF RequestOK
  <2>9. req' = [req EXCEPT ![q] = t]
    BY <1>1, <2>2, <2>3 DEF Answer
  <2> QED BY <1>1, <1>2, <2>4, <2>8, <2>9, AnswerStep
<1> QED BY <1>5, <1>6, <1>7, <1>8 DEF Serve

LEMMA NewRequest ==
    ASSUME NEW kind, NEW offset, Starts(offset), rows \in Seq(Statuses)
    PROVE  RequestOK(Request(kind, offset)) /\ Request(kind, offset).kind = kind
<1>1. PICK r : r = Request(kind, offset)
  OBVIOUS
<1>2. /\ IsRequest(r) /\ r.kind = kind /\ r.offset = offset
      /\ r.total \in {None, 0} /\ r.atoms \in {None, 0} /\ r.counts \in {None, NoCounts}
  BY <1>1 DEF Request, IsRequest, Ask
<1>3. 0 \in 0..Len(rows) /\ 0 \in 0..Blue
  BY AtomsBlue
<1> QED BY <1>1, <1>2, <1>3 DEF RequestOK

LEMMA AskInv ==
    ASSUME IInv, NEW q \in Requests,
           Open(q) \/ StartRefresh(q) \/ \E dir \in Buttons : Click(q, dir)
    PROVE  IInv'
<1>1. rows \in Seq(Statuses) /\ RequestsInv /\ UNCHANGED <<rows, page>>
  BY DEF IInv, Open, StartRefresh, Click
<1>2. CASE Open(q)
  <2>1. Starts(0)
    BY DashboardAssumption DEF Starts
  <2>2. PICK r : r = Request("load", 0) /\ RequestOK(r) /\ r.kind = "load"
    BY <1>1, <2>1, NewRequest
  <2>3. /\ RequestsInv' /\ req'[q] = r
        /\ \A p \in Requests : p # q => req'[p] = req[p]
    BY <1>1, <1>2, <2>2, RequestChange DEF Open
  <2>4. page = None /\ \A p \in Requests : req[p] = None
    BY <1>2 DEF Open, Free
  <2>5. PageInv'
    BY <1>1, <2>2, <2>3, <2>4 DEF PageInv
  <2> QED BY <1>1, <2>3, <2>5 DEF IInv
<1>3. ASSUME PageOK(page), NEW kind, NEW offset, Starts(offset),
             req' = [req EXCEPT ![q] = Request(kind, offset)]
      PROVE  IInv'
  <2>1. PICK r : r = Request(kind, offset) /\ RequestOK(r)
    BY <1>1, <1>3, NewRequest
  <2>2. RequestsInv'
    BY <1>1, <1>3, <2>1, RequestChange
  <2>3. PageOK(page)'
    BY <1>1, <1>3, SameRows
  <2> QED BY <1>1, <2>2, <2>3 DEF IInv, PageInv
<1>4. CASE StartRefresh(q)
  <2>1. PageOK(page)
    BY <1>4 DEF StartRefresh, IInv, PageInv
  <2>2. Starts(page.offset) /\ req' = [req EXCEPT ![q] = Request("refresh", page.offset)]
    BY <1>4, <2>1 DEF StartRefresh, PageOK
  <2> QED BY <1>3, <2>1, <2>2
<1>5. ASSUME NEW dir \in Buttons, Click(q, dir) PROVE IInv'
  <2>1. PageOK(page)
    BY <1>5 DEF Click, IInv, PageInv
  <2>2. Starts(Target(dir)) /\ req' = [req EXCEPT ![q] = Request("fetch", Target(dir))]
    BY <1>1, <1>5, <2>1, TargetStarts DEF Click
  <2> QED BY <1>3, <2>1, <2>2
<1> QED BY <1>2, <1>4, <1>5

-----------------------------------------------------------------------------
(* The page                                                                   *)

LEMMA FinishStep ==
    ASSUME IInv, rows' = rows, NEW q \in Requests, Finish(q), PageOK(page') \/ page' = page
    PROVE  IInv'
<1>1. RequestsInv' /\ req'[q] = None /\ \A p \in Requests : p # q => req'[p] = req[p]
  BY RequestChange DEF IInv, Finish
<1>2. PageInv'
  <2>1. CASE PageOK(page')
    <3>1. PageOK(page)'
      BY <2>1 DEF PageOK, Starts
    <3> QED BY <3>1 DEF PageInv
  <2>2. CASE page' = page
    <3>1. CASE PageOK(page)
      BY <2>1, <2>2, <3>1
    <3>2. CASE page = None /\ \A p \in Requests : req[p] # None => req[p].kind = "load"
      BY <1>1, <2>2, <3>2 DEF PageInv
    <3> QED BY <3>1, <3>2 DEF IInv, PageInv
  <2> QED BY <2>1, <2>2
<1> QED BY <1>1, <1>2 DEF IInv

(* What the answers make of the page. *)
LEMMA ApplyStatsOK ==
    ASSUME NEW p, PageOK(p), NEW r, RequestOK(r), r.atoms # None, r.counts # None
    PROVE  PageOK(ApplyStats(p, r))
<1>1. PICK x : x = [p EXCEPT !.atoms = r.atoms]
  OBVIOUS
<1>2. PICK y : y = [x EXCEPT !.counts = r.counts]
  OBVIOUS
<1>3. IsPage(p)
  BY DEF PageOK
<1>4. IsPage(x) /\ x.offset = p.offset /\ x.total = p.total /\ x.atoms = r.atoms
  BY <1>1, <1>3 DEF IsPage
<1>5. /\ IsPage(y) /\ y.offset = p.offset /\ y.total = p.total /\ y.atoms = r.atoms
      /\ y.counts = r.counts
  BY <1>2, <1>4 DEF IsPage
<1>6. r.atoms <= r.counts.blue \/ r.counts = NoCounts
  BY DEF RequestOK
<1>7. PageOK(y)
  BY <1>5, <1>6 DEF PageOK
<1>8. ApplyStats(p, r) = y
  BY <1>1, <1>2, <1>3 DEF ApplyStats, IsPage
<1> QED BY <1>7, <1>8

LEMMA ShowBlocksOK ==
    ASSUME NEW p, PageOK(p), NEW r, RequestOK(r), r.total # None
    PROVE  PageOK(ShowBlocks(p, r))
<1>1. PICK x : x = [p EXCEPT !.table = r.blocks]
  OBVIOUS
<1>2. PICK y : y = [x EXCEPT !.total = r.total]
  OBVIOUS
<1>4. IsPage(p)
  BY DEF PageOK
<1>5. /\ IsPage(x) /\ x.offset = p.offset /\ x.atoms = p.atoms /\ x.counts = p.counts
  BY <1>1, <1>4 DEF IsPage
<1>6. /\ IsPage(y) /\ y.offset = p.offset /\ y.atoms = p.atoms /\ y.counts = p.counts
      /\ y.total = r.total
  BY <1>2, <1>5 DEF IsPage
<1>7. PageOK(y)
  BY <1>6 DEF PageOK, RequestOK
<1>8. ShowBlocks(p, r) = y
  BY <1>1, <1>2, <1>4 DEF ShowBlocks, IsPage
<1> QED BY <1>7, <1>8

LEMMA DeliverInv == ASSUME IInv, NEW q \in Requests, Deliver(q) PROVE IInv'
<1>1. PICK r : r = req[q]
  OBVIOUS
<1>2. /\ r # None /\ r.total # None
      /\ r.kind # "fetch" => r.atoms # None /\ r.counts # None
  BY <1>1 DEF Deliver, DeliverPage, DeliverRefresh, DeliverFetch, Complete, Has
<1>3. RequestOK(r) /\ rows' = rows /\ Finish(q)
  BY <1>1, <1>2 DEF IInv, RequestsInv, Deliver, DeliverPage, DeliverRefresh, DeliverFetch
<1>4. r.kind # "load" => PageOK(page)
  BY <1>1, <1>2 DEF IInv, PageInv
<1>5. CASE DeliverPage(q)
  <2>1. PICK p : p = [offset |-> 0, total |-> r.total, table |-> r.blocks, atoms |-> r.atoms,
                      counts |-> r.counts]
    OBVIOUS
  <2>2. /\ IsPage(p) /\ p.offset = 0 /\ p.total = r.total /\ p.atoms = r.atoms
        /\ p.counts = r.counts
    BY <2>1 DEF IsPage
  <2>3. Starts(0)
    BY DashboardAssumption DEF Starts
  <2>4. r.kind = "load" /\ page' = p
    BY <1>1, <1>5, <2>1 DEF DeliverPage
  <2>5. r.atoms <= r.counts.blue \/ r.counts = NoCounts
    BY <1>2, <1>3, <2>4 DEF RequestOK
  <2>6. PageOK(p)
    BY <1>2, <1>3, <2>2, <2>3, <2>5 DEF PageOK, RequestOK
  <2> QED BY <1>3, <2>4, <2>6, FinishStep
<1>6. CASE DeliverRefresh(q)
  <2>1. r.kind = "refresh" /\ page' = ShowBlocks(ApplyStats(page, r), r)
    BY <1>1, <1>6 DEF DeliverRefresh
  <2>2. PageOK(ApplyStats(page, r))
    BY <1>2, <1>3, <1>4, <2>1, ApplyStatsOK
  <2>3. PageOK(ShowBlocks(ApplyStats(page, r), r))
    BY <1>2, <1>3, <2>2, ShowBlocksOK
  <2> QED BY <1>3, <2>1, <2>3, FinishStep
<1>7. CASE DeliverFetch(q)
  <2>1. r.kind = "fetch" /\ page' = [ShowBlocks(page, r) EXCEPT !.offset = r.offset]
    BY <1>1, <1>7 DEF DeliverFetch
  <2>2. PICK p : p = ShowBlocks(page, r) /\ PageOK(p)
    BY <1>2, <1>3, <1>4, <2>1, ShowBlocksOK
  <2>3. PICK y : y = [p EXCEPT !.offset = r.offset]
    OBVIOUS
  <2>4. IsPage(p)
    BY <2>2 DEF PageOK
  <2>5. /\ IsPage(y) /\ y.offset = r.offset /\ y.total = p.total /\ y.atoms = p.atoms
        /\ y.counts = p.counts
    BY <2>3, <2>4 DEF IsPage
  <2>6. PageOK(y)
    BY <1>3, <2>2, <2>5 DEF PageOK, RequestOK
  <2>7. page' = y
    BY <2>1, <2>2, <2>3
  <2> QED BY <1>3, <2>6, <2>7, FinishStep
<1> QED BY <1>5, <1>6, <1>7 DEF Deliver

LEMMA FailInv == ASSUME IInv, NEW q \in Requests, Fail(q) PROVE IInv'
<1>1. PICK r : r = req[q]
  OBVIOUS
<1>2. RequestOK(r) /\ r # None /\ rows' = rows /\ Finish(q)
  BY <1>1 DEF IInv, RequestsInv, Fail, Free
<1>3. CASE UNCHANGED page
  BY <1>2, <1>3, FinishStep
<1>4. CASE /\ r.kind = "refresh" /\ r.atoms # None /\ r.counts # None
           /\ page' = ApplyStats(page, r)
  <2>1. PageOK(page)
    BY <1>1, <1>2, <1>4 DEF IInv, PageInv
  <2>2. PageOK(ApplyStats(page, r))
    BY <1>2, <1>4, <2>1, ApplyStatsOK
  <2> QED BY <1>2, <1>4, <2>2, FinishStep
<1> QED BY <1>1, <1>3, <1>4 DEF Fail, Has

LEMMA RowsInv ==
    ASSUME IInv,
           \/ Record
           \/ \E i \in 1..Len(rows), status \in Outcomes : Settle(i, status)
    PROVE  IInv'
<1>1. rows \in Seq(Statuses) /\ Grows /\ rows' \in Seq(Statuses)
  BY RowsGrow DEF IInv, Grows
<1>2. UNCHANGED <<req, page>>
  BY DEF Record, Settle
<1>3. \A q \in Requests : req[q] # None => RequestOK(req[q])'
  <2> SUFFICES ASSUME NEW q \in Requests, req[q] # None PROVE RequestOK(req[q])'
    OBVIOUS
  <2>1. PICK r : r = req[q] /\ RequestOK(r)
    BY DEF IInv, RequestsInv
  <2>2. RequestOK(r)'
    BY <1>1, <2>1, StillOK
  <2> QED BY <1>2, <2>1, <2>2
<1>4. PageOK(page) => PageOK(page)'
  <2>1. PICK p : p = page
    OBVIOUS
  <2>2. PageOK(p) => PageOK(p)'
    BY <1>1, StillOK
  <2> QED BY <1>2, <2>1, <2>2
<1>5. RequestsInv'
  BY <1>2, <1>3 DEF IInv, RequestsInv
<1>6. PageInv'
  BY <1>2, <1>4 DEF IInv, PageInv
<1> QED BY <1>1, <1>5, <1>6 DEF IInv

LEMMA InitInv == Init => IInv
<1> SUFFICES ASSUME Init PROVE IInv
  OBVIOUS
<1>1. rows \in Seq(Statuses)
  BY DEF Init
<1>2. \A q \in Requests : req[q] = None
  BY DEF Init
<1>3. req = [q \in Requests |-> req[q]]
  BY DEF Init
<1> QED BY <1>1, <1>2, <1>3 DEF Init, IInv, RequestsInv, PageInv

LEMMA NextInv == IInv /\ [Next]_vars => IInv'
<1> SUFFICES ASSUME IInv, [Next]_vars PROVE IInv'
  OBVIOUS
<1>1. CASE UNCHANGED vars
  BY <1>1 DEF vars, IInv, RequestsInv, PageInv, RequestOK, PageOK, Starts, Blue, RowsWith
<1> QED BY <1>1, ServeInv, AskInv, DeliverInv, FailInv, RowsInv DEF Next

(* The page that is shown starts at a multiple of the page size and at a row  *)
(* that exists, for every page size and however old the total is that the     *)
(* offset was computed from (changePage, fetchPage, updatePagination).        *)
THEOREM NeverPastTheEndAlways == Spec => []NeverPastTheEnd
<1>1. IInv => NeverPastTheEnd
  <2> SUFFICES ASSUME IInv, page # None
               PROVE  page.offset % PageSize = 0 /\ (page.offset = 0 \/ page.offset < Len(rows))
    BY DEF NeverPastTheEnd
  <2>1. PICK k \in Nat : page.offset = k * PageSize /\ (k = 0 \/ page.offset < Len(rows))
    BY DEF IInv, PageInv, PageOK, Starts
  <2>2. (k * PageSize) % PageSize = 0
    BY DashboardAssumption, MultipleRemainder
  <2>3. k = 0 => page.offset = 0
    BY <2>1, DashboardAssumption
  <2> QED BY <2>1, <2>2, <2>3
<1> QED BY <1>1, InitInv, NextInv, PTL DEF Spec

(* The income on the page is explained by the count of blue blocks beside it, *)
(* whatever is recorded and settled between the two queries and in whichever  *)
(* order answers arrive (the handlers of /stats and /api/stats,              *)
(* GetTotalAtomsByWallet, GetBlockCountsByWallet).                            *)
THEOREM AtomsWithinBlueAlways == Spec => []AtomsWithinBlue
<1>1. IInv => AtomsWithinBlue
  BY DEF IInv, PageInv, PageOK, AtomsWithinBlue
<1> QED BY <1>1, InitInv, NextInv, PTL DEF Spec

-----------------------------------------------------------------------------
(* The counters of the last day and hour                                      *)

Kinds == {"valid", "stale", "invalid"}

Maps == {"valid", "diff", "stale", "invalid"}

(* The minutes that SumLast reads *)
LastKeys(f, now, n) == {k \in DOMAIN f : k <= now /\ k + n > now}

(* A map whose minutes are those of the day up to t, and which counts. *)
DayMap(f, t) ==
    /\ f \in [DOMAIN f -> Nat]
    /\ DOMAIN f \subseteq {k \in 0..t : k + Window >= t}

History(s, now) ==
    /\ s \in Seq([at : Nat, kind : Kinds, diff : Nat])
    /\ \A i \in DOMAIN s : s[i].at <= now

(* The shares of a kind in the last n minutes *)
InLast(s, kind, now, n) == {i \in DOMAIN s : s[i].kind = kind /\ s[i].at + n > now}

Ones(s) == [i \in DOMAIN s |-> 1]

DiffsOf(s) == [i \in DOMAIN s |-> s[i].diff]

(* What the map f gives for the last n minutes is what the shares of the kind *)
(* weigh, for every n up to a day.                                            *)
Right(f, s, weight, kind, now) ==
    \A n \in 0..Window : SumFunctionOnSet(f, LastKeys(f, now, n))
                           = SumFunctionOnSet(weight, InLast(s, kind, now, n))

(* The maps were cut when the last share came in, at t. *)
MapsOK ==
    /\ DOMAIN rolling = Maps
    /\ \E t \in 0..minute : \A m \in Maps : DayMap(rolling[m], t)

MapsRight ==
    /\ \A kind \in Kinds : Right(rolling[kind], shares, Ones(shares), kind, minute)
    /\ Right(rolling["diff"], shares, DiffsOf(shares), "valid", minute)

RInv == minute \in Nat /\ History(shares, minute) /\ MapsOK /\ MapsRight

-----------------------------------------------------------------------------
LEMMA DayMapFinite ==
    ASSUME NEW t \in Nat, NEW f, DayMap(f, t)
    PROVE  IsFiniteSet(DOMAIN f) /\ Cardinality(DOMAIN f) <= Window + 1
<1>1. PICK a \in Nat : a <= t /\ a + Window >= t /\ DOMAIN f \subseteq a..t
  <2>1. CASE Window >= t
    BY <2>1, RollingAssumption DEF DayMap
  <2>2. CASE Window < t
    <3>1. t - Window \in Nat /\ DOMAIN f \subseteq (t - Window)..t
      BY <2>2, RollingAssumption DEF DayMap
    <3> QED BY <3>1, RollingAssumption
  <2> QED BY <2>1, <2>2, RollingAssumption
<1>2. IsFiniteSet(a..t) /\ Cardinality(a..t) = t - a + 1
  BY <1>1, FS_Interval
<1>3. /\ IsFiniteSet(DOMAIN f) /\ Cardinality(DOMAIN f) <= Cardinality(a..t)
      /\ Cardinality(DOMAIN f) \in Nat
  BY <1>1, <1>2, FS_Subset, FS_CardinalityType
<1> QED BY <1>1, <1>2, <1>3, RollingAssumption

(* A share counted in one of the maps: the maps are cut to the day of it,     *)
(* nothing that is read is deleted, and the sum grows by what was counted.    *)
LEMMA AddPruned ==
    ASSUME NEW now \in Nat, NEW t \in 0..now, NEW f, DayMap(f, t), NEW x \in Nat,
           NEW g, g = Prune(Add(f, now, x), now)
    PROVE  /\ DayMap(g, now)
           /\ \A n \in 1..Window : SumFunctionOnSet(g, LastKeys(g, now, n))
                                     = SumFunctionOnSet(f, LastKeys(f, now, n)) + x
<1>0. Window \in Nat /\ t \in Nat /\ t <= now
  BY RollingAssumption
<1>1. DOMAIN g = {k \in DOMAIN f \union {now} : k + Window >= now}
  BY DEF Prune, Add
<1>2. ASSUME NEW k \in DOMAIN g
      PROVE  g[k] = (IF k \in DOMAIN f THEN f[k] ELSE 0) + (IF k = now THEN x ELSE 0)
  BY <1>1 DEF Prune, Add
<1>3. DOMAIN f \subseteq 0..now /\ \A k \in DOMAIN f : f[k] \in Nat
  BY <1>0 DEF DayMap
<1>4. DayMap(g, now)
  <2>1. \A k \in DOMAIN g : k \in 0..now /\ k + Window >= now
    BY <1>0, <1>1, <1>3
  <2>2. \A k \in DOMAIN g : g[k] \in Nat
    BY <1>2, <1>3
  <2>3. g = [k \in DOMAIN g |-> g[k]]
    BY DEF Prune
  <2> QED BY <2>1, <2>2, <2>3 DEF DayMap
<1>5. ASSUME NEW n \in 1..Window
      PROVE  SumFunctionOnSet(g, LastKeys(g, now, n))
               = SumFunctionOnSet(f, LastKeys(f, now, n)) + x
  <2> DEFINE K == LastKeys(f, now, n)
             L == LastKeys(g, now, n)
  <2>1. L = K \union {now}
    BY <1>0, <1>1, <1>3 DEF LastKeys
  <2>2. IsFiniteSet(K) /\ K \subseteq DOMAIN f
    BY <1>0, DayMapFinite, FS_Subset DEF LastKeys
  <2>3. IsFiniteSet(L) /\ L \subseteq DOMAIN g /\ now \in L
    BY <1>0, <1>4, <2>1, DayMapFinite, FS_Subset DEF LastKeys
  <2>4. \A k \in K : k # now => g[k] = f[k]
    BY <1>2, <1>3, <2>1, <2>2, <2>3
  <2>5. now \in K <=> now \in DOMAIN f
    BY <1>0 DEF LastKeys
  <2>6. (\A k \in K : f[k] \in Nat) /\ \A k \in L : g[k] \in Nat
    BY <1>4, <2>2, <2>3 DEF DayMap
  <2>7. g[now] = (IF now \in K THEN f[now] ELSE 0) + x
    BY <1>2, <2>3, <2>5
  <2> HIDE DEF K, L
  <2>8. CASE now \in K
    <3>1. L = K /\ g[now] = f[now] + x
      BY <2>1, <2>7, <2>8
    <3> QED BY <2>2, <2>4, <2>6, <2>8, <3>1, SumRaise DEF K, L
  <2>9. CASE now \notin K
    <3>1. L \ {now} = K /\ g[now] = x
      BY <2>1, <2>7, <2>9
    <3>2. SumFunctionOnSet(g, L) = g[now] + SumFunctionOnSet(g, L \ {now})
      BY <2>3, <2>6, SumRemove
    <3>3. SumFunctionOnSet(g, K) = SumFunctionOnSet(f, K)
      BY <2>2, <2>4, <2>9, SumSame
    <3>4. SumFunctionOnSet(f, K) \in Nat
      BY <2>2, <2>6, SumType
    <3> QED BY <3>1, <3>2, <3>3, <3>4 DEF K, L
  <2> QED BY <2>8, <2>9
<1> QED BY <1>4, <1>5

(* A map that the share is not counted in loses nothing that is read. *)
LEMMA OnlyPruned ==
    ASSUME NEW now \in Nat, NEW t \in 0..now, NEW f, DayMap(f, t), NEW g, g = Prune(f, now)
    PROVE  /\ DayMap(g, now)
           /\ \A n \in 1..Window : SumFunctionOnSet(g, LastKeys(g, now, n))
                                     = SumFunctionOnSet(f, LastKeys(f, now, n))
<1>0. Window \in Nat /\ t \in Nat /\ t <= now
  BY RollingAssumption
<1>1. /\ DOMAIN g = {k \in DOMAIN f : k + Window >= now} /\ \A k \in DOMAIN g : g[k] = f[k]
      /\ g = [k \in DOMAIN g |-> g[k]]
  BY DEF Prune
<1>2. DOMAIN f \subseteq 0..now /\ \A k \in DOMAIN f : f[k] \in Nat
  BY <1>0 DEF DayMap
<1>3. DayMap(g, now)
  BY <1>0, <1>1, <1>2 DEF DayMap
<1>4. ASSUME NEW n \in 1..Window
      PROVE  SumFunctionOnSet(g, LastKeys(g, now, n)) = SumFunctionOnSet(f, LastKeys(f, now, n))
  <2>1. LastKeys(g, now, n) = LastKeys(f, now, n)
    BY <1>0, <1>1, <1>2 DEF LastKeys
  <2>2. IsFiniteSet(LastKeys(f, now, n))
    BY <1>0, DayMapFinite, FS_Subset DEF LastKeys
  <2>3. \A k \in LastKeys(f, now, n) : g[k] = f[k]
    BY <1>1, <2>1 DEF LastKeys
  <2> QED BY <2>1, <2>2, <2>3, SumSame
<1> QED BY <1>3, <1>4
LEMMA HistoryShape ==
    ASSUME NEW s, NEW now, History(s, now), NEW i \in DOMAIN s
    PROVE  s[i].at \in Nat /\ s[i].at <= now /\ s[i].diff \in Nat
<1>1. PICK R : R = [at : Nat, kind : Kinds, diff : Nat]
  OBVIOUS
<1>2. s \in Seq(R)
  BY <1>1 DEF History
<1>3. s[i] \in R
  BY <1>2
<1> QED BY <1>1, <1>3 DEF History

LEMMA NothingInNoTime ==
    ASSUME NEW now \in Nat, NEW t \in 0..now, NEW f, DayMap(f, t), NEW s, History(s, now),
           NEW kind
    PROVE  LastKeys(f, now, 0) = {} /\ InLast(s, kind, now, 0) = {}
<1>1. DOMAIN f \subseteq Nat
  BY DEF DayMap
<1>2. \A i \in DOMAIN s : s[i].at \in Nat /\ s[i].at <= now
  BY HistoryShape
<1> QED BY <1>1, <1>2 DEF LastKeys, InLast

LEMMA HistoryFinite ==
    ASSUME NEW s, NEW now, History(s, now), NEW kind, NEW n
    PROVE  IsFiniteSet(InLast(s, kind, now, n))
<1>1. IsFiniteSet(DOMAIN s)
  BY FS_Interval DEF History
<1> QED BY <1>1, FS_Subset DEF InLast

(* A minute later, n + 1 minutes reach as far back as n did. *)
LEMMA RightLater ==
    ASSUME NEW now \in Nat, NEW t \in 0..now, NEW f, DayMap(f, t), NEW s, History(s, now),
           NEW weight, NEW kind, Right(f, s, weight, kind, now)
    PROVE  Right(f, s, weight, kind, now + 1)
<1> SUFFICES ASSUME NEW n \in 0..Window
             PROVE  SumFunctionOnSet(f, LastKeys(f, now + 1, n))
                      = SumFunctionOnSet(weight, InLast(s, kind, now + 1, n))
  BY DEF Right
<1>0. Window \in Nat /\ now + 1 \in Nat /\ DOMAIN f \subseteq 0..now
  BY RollingAssumption DEF DayMap
<1>1. \A i \in DOMAIN s : s[i].at \in Nat /\ s[i].at <= now
  BY HistoryShape
<1>2. CASE n = 0
  <2>1. LastKeys(f, now + 1, 0) = {} /\ InLast(s, kind, now + 1, 0) = {}
    BY <1>0, <1>1 DEF LastKeys, InLast
  <2> QED BY <1>2, <2>1, SumEmpty
<1>3. CASE n # 0
  <2>1. n - 1 \in 0..Window /\ n \in Nat
    BY <1>0, <1>3
  <2>2. LastKeys(f, now + 1, n) = LastKeys(f, now, n - 1)
    BY <1>0, <2>1 DEF LastKeys
  <2>3. InLast(s, kind, now + 1, n) = InLast(s, kind, now, n - 1)
    BY <1>1, <2>1 DEF InLast
  <2> QED BY <2>1, <2>2, <2>3 DEF Right
<1> QED BY <1>2, <1>3

(* A share is added to the history. *)
LEMMA HistoryGrows ==
    ASSUME NEW now \in Nat, NEW s, History(s, now),
           NEW e \in [at : Nat, kind : Kinds, diff : Nat], e.at = now
    PROVE  /\ History(Append(s, e), now)
           /\ DOMAIN Append(s, e) = DOMAIN s \union {Len(s) + 1} /\ Len(s) + 1 \notin DOMAIN s
           /\ Append(s, e)[Len(s) + 1] = e
           /\ \A i \in DOMAIN s : Append(s, e)[i] = s[i]
<1>1. s \in Seq([at : Nat, kind : Kinds, diff : Nat])
  BY DEF History
<1>2. /\ DOMAIN Append(s, e) = DOMAIN s \union {Len(s) + 1} /\ Len(s) + 1 \notin DOMAIN s
      /\ Append(s, e)[Len(s) + 1] = e
      /\ \A i \in DOMAIN s : Append(s, e)[i] = s[i]
      /\ Append(s, e) \in Seq([at : Nat, kind : Kinds, diff : Nat])
  BY <1>1
<1> QED BY <1>2 DEF History

(* A share that the map counts, and its weight. *)
LEMMA RightCounted ==
    ASSUME NEW now \in Nat, NEW t \in 0..now, NEW f, DayMap(f, t), NEW s, History(s, now),
           NEW e \in [at : Nat, kind : Kinds, diff : Nat], e.at = now,
           NEW weight, NEW after, NEW x \in Nat,
           \A i \in DOMAIN s : weight[i] \in Nat /\ after[i] = weight[i],
           after[Len(s) + 1] = x,
           Right(f, s, weight, e.kind, now),
           NEW g, g = Prune(Add(f, now, x), now)
    PROVE  Right(g, Append(s, e), after, e.kind, now)
<1> SUFFICES ASSUME NEW n \in 0..Window
             PROVE  SumFunctionOnSet(g, LastKeys(g, now, n))
                      = SumFunctionOnSet(after, InLast(Append(s, e), e.kind, now, n))
  BY DEF Right
<1>0. Window \in Nat /\ DayMap(g, now) /\ now \in 0..now /\ e.kind \in Kinds
  BY AddPruned, RollingAssumption
<1>1. CASE n = 0
  <2>1. LastKeys(g, now, 0) = {} /\ InLast(Append(s, e), e.kind, now, 0) = {}
    BY <1>0, HistoryGrows, NothingInNoTime
  <2> QED BY <1>1, <2>1, SumEmpty
<1>2. CASE n # 0
  <2> DEFINE I == InLast(s, e.kind, now, n)
             J == InLast(Append(s, e), e.kind, now, n)
             last == Len(s) + 1
  <2>1. n \in 1..Window
    BY <1>0, <1>2
  <2>2. SumFunctionOnSet(g, LastKeys(g, now, n)) = SumFunctionOnSet(f, LastKeys(f, now, n)) + x
    BY <2>1, AddPruned
  <2>3. SumFunctionOnSet(f, LastKeys(f, now, n)) = SumFunctionOnSet(weight, I)
    BY DEF Right
  <2>4. J = I \union {last} /\ last \notin I /\ I \subseteq DOMAIN s
    BY <2>1, HistoryGrows DEF InLast
  <2>5. IsFiniteSet(I) /\ IsFiniteSet(J)
    BY HistoryFinite, HistoryGrows
  <2>6. after[last] = x /\ \A i \in I : weight[i] \in Nat /\ after[i] = weight[i]
    BY <2>4
  <2> HIDE DEF I, J, last
  <2>7. last \in J /\ J \ {last} = I /\ \A i \in J : after[i] \in Nat
    BY <2>4, <2>6
  <2>8. SumFunctionOnSet(after, J) = x + SumFunctionOnSet(after, I)
    BY <2>5, <2>6, <2>7, SumRemove
  <2>9. SumFunctionOnSet(after, I) = SumFunctionOnSet(weight, I)
    BY <2>5, <2>6, SumSame
  <2>10. SumFunctionOnSet(weight, I) \in Nat
    BY <2>5, <2>6, SumType
  <2> QED BY <2>2, <2>3, <2>8, <2>9, <2>10 DEF J
<1> QED BY <1>1, <1>2

(* One that it does not count. *)
LEMMA RightKept ==
    ASSUME NEW now \in Nat, NEW t \in 0..now, NEW f, DayMap(f, t), NEW s, History(s, now),
           NEW e \in [at : Nat, kind : Kinds, diff : Nat], e.at = now, NEW kind, kind # e.kind,
           NEW weight, NEW after, \A i \in DOMAIN s : after[i] = weight[i],
           Right(f, s, weight, kind, now),
           NEW g, g = Prune(f, now)
    PROVE  Right(g, Append(s, e), after, kind, now)
<1> SUFFICES ASSUME NEW n \in 0..Window
             PROVE  SumFunctionOnSet(g, LastKeys(g, now, n))
                      = SumFunctionOnSet(after, InLast(Append(s, e), kind, now, n))
  BY DEF Right
<1>0. Window \in Nat /\ DayMap(g, now) /\ now \in 0..now
  BY OnlyPruned, RollingAssumption
<1>1. CASE n = 0
  <2>1. LastKeys(g, now, 0) = {} /\ InLast(Append(s, e), kind, now, 0) = {}
    BY <1>0, HistoryGrows, NothingInNoTime
  <2> QED BY <1>1, <2>1, SumEmpty
<1>2. CASE n # 0
  <2>1. n \in 1..Window
    BY <1>0, <1>2
  <2>2. SumFunctionOnSet(g, LastKeys(g, now, n)) = SumFunctionOnSet(f, LastKeys(f, now, n))
    BY <2>1, OnlyPruned
  <2>3. InLast(Append(s, e), kind, now, n) = InLast(s, kind, now, n)
    BY HistoryGrows DEF InLast
  <2>4. \A i \in InLast(s, kind, now, n) : after[i] = weight[i]
    BY DEF InLast
  <2>5. SumFunctionOnSet(after, InLast(s, kind, now, n))
          = SumFunctionOnSet(weight, InLast(s, kind, now, n))
    BY <2>4, HistoryFinite, SumSame
  <2> QED BY <2>2, <2>3, <2>5 DEF Right
<1> QED BY <1>1, <1>2

-----------------------------------------------------------------------------
LEMMA RollingInitInv == minute = 0 /\ rolling = NoShares /\ shares = <<>> => RInv
<1> SUFFICES ASSUME minute = 0, rolling = NoShares, shares = <<>> PROVE RInv
  OBVIOUS
<1>1. History(shares, minute) /\ DOMAIN shares = {}
  BY DEF History
<1>2. \A m \in Maps : rolling[m] = <<>> /\ DayMap(rolling[m], 0) /\ DOMAIN rolling[m] = {}
  BY DEF NoShares, Maps, DayMap
<1>3. MapsOK
  BY <1>2 DEF MapsOK, NoShares, Maps
<1>4. ASSUME NEW m \in Maps, NEW kind, NEW weight
      PROVE  Right(rolling[m], shares, weight, kind, minute)
  <2>1. \A n : LastKeys(rolling[m], minute, n) = {} /\ InLast(shares, kind, minute, n) = {}
    BY <1>1, <1>2 DEF LastKeys, InLast
  <2> QED BY <2>1, SumEmpty DEF Right
<1>5. MapsRight
  BY <1>4 DEF MapsRight, Kinds, Maps
<1> QED BY <1>1, <1>3, <1>5 DEF RInv

LEMMA MinuteInv == ASSUME RInv, Minute PROVE RInv'
<1>1. minute \in Nat /\ minute' = minute + 1 /\ rolling' = rolling /\ shares' = shares
  BY DEF RInv, Minute
<1>2. PICK t \in 0..minute : \A m \in Maps : DayMap(rolling[m], t)
  BY DEF RInv, MapsOK
<1>3. History(shares', minute')
  <2>1. History(shares, minute)
    BY DEF RInv
  <2>2. \A i \in DOMAIN shares : shares[i].at <= minute + 1
    BY <1>1, <2>1, HistoryShape
  <2> QED BY <1>1, <2>1, <2>2 DEF History
<1>4. MapsOK'
  <2>1. t \in 0..minute'
    BY <1>1
  <2> QED BY <1>1, <1>2, <2>1 DEF RInv, MapsOK
<1>5. \A m \in Maps : DayMap(rolling[m], t)
  BY <1>2
<1>6. \A kind \in Kinds : Right(rolling[kind], shares, Ones(shares), kind, minute + 1)
  <2> SUFFICES ASSUME NEW kind \in Kinds
               PROVE  Right(rolling[kind], shares, Ones(shares), kind, minute + 1)
    OBVIOUS
  <2>1. /\ Right(rolling[kind], shares, Ones(shares), kind, minute)
        /\ DayMap(rolling[kind], t) /\ History(shares, minute)
    BY <1>5 DEF RInv, MapsRight, Kinds, Maps
  <2> QED BY <1>1, <2>1, RightLater
<1>7. Right(rolling["diff"], shares, DiffsOf(shares), "valid", minute + 1)
  <2>1. /\ Right(rolling["diff"], shares, DiffsOf(shares), "valid", minute)
        /\ DayMap(rolling["diff"], t) /\ History(shares, minute)
    BY <1>5 DEF RInv, MapsRight, Maps
  <2> QED BY <1>1, <2>1, RightLater
<1>8. MapsRight'
  BY <1>1, <1>6, <1>7 DEF MapsRight
<1> QED BY <1>1, <1>3, <1>4, <1>8 DEF RInv

LEMMA ShareInv == ASSUME RInv, NEW kind \in Kinds, NEW diff \in Diffs, Share(kind, diff) PROVE RInv'
<1> DEFINE e == [at |-> minute, kind |-> kind, diff |-> diff]
<1>1. /\ minute \in Nat /\ minute' = minute /\ shares' = Append(shares, e)
      /\ History(shares, minute) /\ DOMAIN rolling = Maps /\ UpdateRollingCounters(kind, diff)
  BY DEF RInv, Share, MapsOK
<1>2. /\ e \in [at : Nat, kind : Kinds, diff : Nat] /\ e.at = minute /\ e.kind = kind
      /\ diff \in Nat
  BY <1>1, RollingAssumption
<1>3. e.diff = diff
  OBVIOUS
<1> HIDE DEF e
<1>4. PICK t \in 0..minute : \A m \in Maps : DayMap(rolling[m], t)
  BY DEF RInv, MapsOK
<1>5. DOMAIN rolling' = Maps
  BY <1>1 DEF UpdateRollingCounters
<1>6. rolling'[kind] = Prune(Add(rolling[kind], minute, 1), minute)
  BY <1>1 DEF UpdateRollingCounters, Kinds, Maps
<1>7. kind = "valid" => rolling'["diff"] = Prune(Add(rolling["diff"], minute, diff), minute)
  BY <1>1 DEF UpdateRollingCounters, Kinds, Maps
<1>8. \A m \in Maps : m # kind /\ (m = "diff" => kind # "valid")
                         => rolling'[m] = Prune(rolling[m], minute)
  BY <1>1 DEF UpdateRollingCounters, Maps
<1>9. ASSUME NEW m \in Maps PROVE DayMap(rolling'[m], minute)
  <2>1. DayMap(rolling[m], t)
    BY <1>4
  <2>2. CASE m = kind
    BY <1>1, <1>6, <2>1, <2>2, AddPruned
  <2>3. CASE m = "diff" /\ kind = "valid"
    BY <1>1, <1>2, <1>7, <2>1, <2>3, AddPruned
  <2>4. CASE m # kind /\ (m = "diff" => kind # "valid")
    BY <1>1, <1>8, <2>1, <2>4, OnlyPruned
  <2> QED BY <2>2, <2>3, <2>4
<1>10. MapsOK'
  BY <1>1, <1>5, <1>9 DEF MapsOK
<1>11. /\ History(shares', minute)
       /\ DOMAIN shares' = DOMAIN shares \union {Len(shares) + 1}
       /\ shares'[Len(shares) + 1] = e
       /\ \A i \in DOMAIN shares : shares'[i] = shares[i]
  BY <1>1, <1>2, HistoryGrows
<1>12. ASSUME NEW k \in Kinds PROVE Right(rolling'[k], shares', Ones(shares'), k, minute)
  <2>1. Right(rolling[k], shares, Ones(shares), k, minute) /\ DayMap(rolling[k], t)
    BY <1>4 DEF RInv, MapsRight, Kinds, Maps
  <2>2. /\ \A i \in DOMAIN shares : Ones(shares)[i] \in Nat /\ Ones(shares')[i] = Ones(shares)[i]
        /\ Ones(shares')[Len(shares) + 1] = 1
    BY <1>11 DEF Ones
  <2>3. CASE k = kind
    BY <1>1, <1>2, <1>6, <2>1, <2>2, <2>3, RightCounted
  <2>4. CASE k # kind
    <3>1. rolling'[k] = Prune(rolling[k], minute)
      BY <1>8, <2>4 DEF Kinds, Maps
    <3> QED BY <1>1, <1>2, <2>1, <2>2, <2>4, <3>1, RightKept
  <2> QED BY <2>3, <2>4
<1>13. Right(rolling'["diff"], shares', DiffsOf(shares'), "valid", minute)
  <2>1. Right(rolling["diff"], shares, DiffsOf(shares), "valid", minute) /\ DayMap(rolling["diff"], t)
    BY <1>4 DEF RInv, MapsRight, Maps
  <2>2. /\ \A i \in DOMAIN shares : DiffsOf(shares)[i] \in Nat
                                      /\ DiffsOf(shares')[i] = DiffsOf(shares)[i]
        /\ DiffsOf(shares')[Len(shares) + 1] = diff
    <3>1. \A i \in DOMAIN shares : shares[i].diff \in Nat
      BY <1>1, HistoryShape
    <3> QED BY <1>3, <1>11, <3>1 DEF DiffsOf
  <2>3. CASE kind = "valid"
    BY <1>1, <1>2, <1>7, <2>1, <2>2, <2>3, RightCounted
  <2>4. CASE kind # "valid"
    <3>1. rolling'["diff"] = Prune(rolling["diff"], minute)
      BY <1>8, <2>4 DEF Kinds, Maps
    <3> QED BY <1>1, <1>2, <2>1, <2>2, <2>4, <3>1, RightKept
  <2> QED BY <2>3, <2>4
<1>14. MapsRight'
  BY <1>1, <1>12, <1>13 DEF MapsRight
<1> QED BY <1>1, <1>10, <1>11, <1>14 DEF RInv

LEMMA RollingNextInv == RInv /\ [RollingNext]_rollingVars => RInv'
<1> SUFFICES ASSUME RInv, [RollingNext]_rollingVars PROVE RInv'
  OBVIOUS
<1>1. CASE NewRow
  <2>1. (minute = 0 /\ rolling = NoShares /\ shares = <<>>)'
    BY <1>1 DEF NewRow
  <2> QED BY <2>1, RollingInitInv, PTL
<1>2. CASE UNCHANGED rollingVars
  BY <1>2 DEF rollingVars, RInv, MapsOK, MapsRight
<1> QED BY <1>1, <1>2, MinuteInv, ShareInv DEF RollingNext, Kinds

(* Whenever they are read, the counters of the day and of the hour are those  *)
(* of all the shares of that day or hour, and the maps hold no more than a    *)
(* day's minutes and one: for any length of the day and the hour, any number  *)
(* of shares and any time between them (updateRollingCounters,                *)
(* GetRollingShares, GetRollingAverageHashrateGHs,                            *)
(* GetOneHourAverageHashrateGHs).                                             *)
THEOREM RollingIsWindowAlways == RollingSpec => []RollingIsWindow
<1>1. RollingInit => RInv
  BY RollingInitInv DEF RollingInit
<1>2. RInv => RollingIsWindow
  <2> SUFFICES ASSUME RInv PROVE RollingIsWindow
    OBVIOUS
  <2>1. Window \in 0..Window /\ Hour \in 0..Window
    BY RollingAssumption
  <2>2. ASSUME NEW kind \in Kinds
        PROVE  SumLast(rolling[kind], Window) = Cardinality(SharesIn(kind, Window))
    <3> DEFINE S == InLast(shares, kind, minute, Window)
    <3>1. SumLast(rolling[kind], Window) = SumFunctionOnSet(Ones(shares), S)
      BY <2>1 DEF RInv, MapsRight, Right, SumLast, LastKeys
    <3>2. IsFiniteSet(S) /\ S = SharesIn(kind, Window)
      <4>1. History(shares, minute)
        BY DEF RInv
      <4>2. IsFiniteSet(S)
        BY <4>1, HistoryFinite
      <4> QED BY <4>2 DEF SharesIn, InLast
    <3>3. \A i \in S : Ones(shares)[i] = 1
      BY DEF Ones, InLast
    <3> HIDE DEF S
    <3>4. SumFunctionOnSet(Ones(shares), S) = 1 * Cardinality(S) /\ Cardinality(S) \in Nat
      BY <3>2, <3>3, SumSteady, FS_CardinalityType
    <3> QED BY <3>1, <3>2, <3>4
  <2>3. ASSUME NEW n \in {Window, Hour} PROVE SumLast(rolling["diff"], n) = DiffIn(n)
    BY <2>1 DEF RInv, MapsRight, Right, SumLast, LastKeys, DiffIn, DiffsOf, SharesIn, InLast
  <2>4. ASSUME NEW m \in DOMAIN rolling PROVE Cardinality(DOMAIN rolling[m]) <= Window + 1
    <3>1. PICK t \in 0..minute : DayMap(rolling[m], t)
      BY DEF RInv, MapsOK
    <3>2. t \in Nat
      BY DEF RInv
    <3> QED BY <3>1, <3>2, DayMapFinite
  <2> QED BY <2>2, <2>3, <2>4 DEF RollingIsWindow, Kinds
<1> QED BY <1>1, <1>2, RollingNextInv, PTL DEF RollingSpec

-----------------------------------------------------------------------------
(* The rewards API                                                            *)

(* The chain of a block starts with it and goes on with older blocks. *)
ChainOK(v, b) ==
    /\ v \in Seq(1..b) /\ v # <<>> /\ v[1] = b /\ Len(v) <= b
    /\ \A i, j \in DOMAIN v : i < j => v[j] < v[i]

From(v, i) == {v[j] : j \in i..Len(v)}

(* From each of its blocks on it is the chain of that block. *)
ChainNested(c, v) == \A i \in DOMAIN v : ToSet(c[v[i]]) = From(v, i)

ChainsOK(c) ==
    /\ c \in Seq(Seq(Nat)) /\ Len(c) \in 1..MaxBlocks
    /\ \A b \in DOMAIN c : ChainOK(c[b], b) /\ ChainNested(c, c[b])

(* The node asked for the chain above the cursor has news. *)
News(vspc) == vspc /\ cursor # 0 /\ virtual \notin Chain(cursor)

(* Of what pays it up to its cursor the client knows, or it was left out. *)
CursorKnown ==
    /\ cursor \in Blocks \union {0}
    /\ \A b \in Chain(cursor) : Pays(b) => b \in told \union missed

DbOK == db \in Seq(Rigs \union {NoRig}) /\ Len(db) = Len(chain)

PInv == ChainsOK(chain) /\ virtual \in Blocks /\ DbOK /\ CursorKnown /\ PollCatchesUp

-----------------------------------------------------------------------------
LEMMA MinFacts ==
    ASSUME NEW S \in SUBSET Nat, S # {}
    PROVE  Min(S) \in S /\ \A x \in S : Min(S) <= x
<1> DEFINE R == {ss \in Nat \X Nat : ss[1] < ss[2]}
<1>1. IsWellFoundedOn(R, Nat)
  BY NatLessThanWellFounded, Zenon DEF OpToRel
<1>2. PICK m \in S : \A x \in S : ~(<<x, m>> \in R)
  <2> HIDE DEF R
  <2> QED BY <1>1, WFMin
<1>3. ASSUME NEW x \in S PROVE m <= x
  <2>1. x \in Nat /\ m \in Nat /\ (x < m => <<x, m>> \in R)
    OBVIOUS
  <2> QED BY <1>2, <2>1
<1> QED BY <1>3 DEF Min

LEMMA MaxFacts ==
    ASSUME NEW n \in Nat, NEW S \in SUBSET (0..n), S # {}
    PROVE  Max(S) \in S
<1> DEFINE U == {u \in Nat : \A x \in S : x <= u}
<1>1. U \in SUBSET Nat /\ n \in U
  OBVIOUS
<1>2. PICK m \in U : \A u \in U : m <= u
  <2> HIDE DEF U
  <2> QED BY <1>1, MinFacts
<1>3. m \in Nat /\ \A x \in S : x \in Nat /\ x <= m
  OBVIOUS
<1>4. m \in S
  <2> SUFFICES ASSUME m \notin S PROVE FALSE
    OBVIOUS
  <2>1. \A x \in S : x < m
    BY <1>3
  <2>2. m - 1 \in Nat
    <3>1. PICK x \in S : TRUE
      OBVIOUS
    <3>2. x \in Nat /\ x < m
      BY <1>3, <2>1, <3>1
    <3> QED BY <1>3, <3>2
  <2>3. m - 1 \in U
    BY <1>3, <2>1, <2>2
  <2> HIDE DEF U
  <2> QED BY <1>2, <1>3, <2>3
<1>5. \A x \in S : m >= x
  BY <1>3
<1> HIDE DEF U
<1> QED BY <1>4, <1>5 DEF Max

(* Sequences by their elements *)
LEMMA SeqSame ==
    ASSUME NEW s \in Seq(Nat), NEW t \in Seq(Nat), Len(s) = Len(t),
           \A i \in 1..Len(s) : s[i] = t[i]
    PROVE  s = t
OBVIOUS

LEMMA SubSeqFacts ==
    ASSUME NEW s \in Seq(Nat), NEW m \in 1..(Len(s) + 1), NEW n \in Nat, n <= Len(s), m <= n + 1
    PROVE  /\ SubSeq(s, m, n) \in Seq(Nat) /\ Len(SubSeq(s, m, n)) = n - m + 1
           /\ \A i \in 1..(n - m + 1) : SubSeq(s, m, n)[i] = s[m + i - 1]
OBVIOUS

LEMMA ReverseFacts ==
    ASSUME NEW s \in Seq(Nat)
    PROVE  /\ Reverse(s) \in Seq(Nat) /\ Len(Reverse(s)) = Len(s)
           /\ \A i \in 1..Len(s) : Reverse(s)[i] = s[Len(s) - i + 1]
BY DEF Reverse

(* The first n of s *)
Prefix(s, n) == SubSeq(s, 1, n)

LEMMA PrefixFacts ==
    ASSUME NEW s \in Seq(Nat), NEW n \in 0..Len(s)
    PROVE  /\ Prefix(s, n) \in Seq(Nat) /\ Len(Prefix(s, n)) = n
           /\ \A i \in 1..n : Prefix(s, n)[i] = s[i]
           /\ Prefix(s, Len(s)) = s
<1>1. /\ Prefix(s, n) \in Seq(Nat) /\ Len(Prefix(s, n)) = n - 1 + 1
      /\ \A i \in 1..(n - 1 + 1) : Prefix(s, n)[i] = s[1 + i - 1]
  BY SubSeqFacts DEF Prefix
<1>2. Prefix(s, Len(s)) = s
  BY DEF Prefix
<1> QED BY <1>1, <1>2

LEMMA PrefixIn ==
    ASSUME NEW s \in Seq(Nat), NEW n \in 0..Len(s)
    PROVE  ToSet(Prefix(s, n)) \subseteq ToSet(s)
<1>1. PICK a \in Seq(Nat) : a = Prefix(s, n) /\ Len(a) = n /\ \A i \in 1..n : a[i] = s[i]
  BY PrefixFacts
<1>2. DOMAIN a = 1..n /\ \A i \in 1..n : i \in DOMAIN s
  BY <1>1
<1> QED BY <1>1, <1>2 DEF ToSet

(* What Above leaves of a chain *)
LEMMA AboveFacts ==
    ASSUME NEW b, NEW stop, chain[b] \in Seq(Nat)
    PROVE  \E n \in 0..Len(chain[b]) :
             /\ Above(b, stop) = Prefix(chain[b], n)
             /\ \A i \in 1..n : chain[b][i] \notin stop
             /\ n < Len(chain[b]) => chain[b][n + 1] \in stop
<1>1. PICK c \in Seq(Nat) : c = chain[b]
  OBVIOUS
<1> DEFINE ends == {i \in DOMAIN c : c[i] \in stop}
<1>2. Len(c) \in Nat /\ DOMAIN c = 1..Len(c)
  OBVIOUS
<1>3. Above(b, stop) = IF ends = {} THEN c ELSE Prefix(c, Min(ends) - 1)
  BY <1>1 DEF Above, Prefix
<1>4. CASE ends = {}
  <2>1. Above(b, stop) = Prefix(c, Len(c))
    BY <1>2, <1>3, <1>4, PrefixFacts
  <2>2. \A i \in 1..Len(c) : c[i] \notin stop
    BY <1>2, <1>4
  <2> QED BY <1>1, <1>2, <2>1, <2>2
<1>5. CASE ends # {}
  <2>0. ends \in SUBSET Nat
    BY <1>2
  <2>1. PICK m \in ends : m = Min(ends) /\ \A i \in ends : m <= i
    <3> HIDE DEF ends
    <3> QED BY <1>5, <2>0, MinFacts
  <2>2. m - 1 \in 0..Len(c) /\ m \in 1..Len(c) /\ c[m] \in stop
    BY <1>2
  <2>3. ASSUME NEW i \in 1..(m - 1), c[i] \in stop PROVE FALSE
    <3>1. i \in 1..Len(c) /\ ~(m <= i)
      BY <1>2, <2>2
    <3>2. i \in ends
      BY <1>2, <2>3, <3>1
    <3> QED BY <2>1, <3>1, <3>2
  <2>4. Above(b, stop) = Prefix(c, m - 1)
    BY <1>3, <1>5, <2>1
  <2> HIDE DEF ends
  <2>5. m - 1 < Len(c) => c[(m - 1) + 1] \in stop
    BY <2>2
  <2> QED BY <1>1, <2>2, <2>3, <2>4, <2>5
<1> QED BY <1>4, <1>5

(* Reversed, cut to the last ones and reversed again, a sequence is cut to    *)
(* the first ones.                                                            *)
LEMMA ReverseCapped ==
    ASSUME NEW s \in Seq(Nat), NEW limit \in Nat
    PROVE  Reverse(Capped(Reverse(s), limit)) = IF Len(s) > limit THEN Prefix(s, limit) ELSE s
<1>1. PICK r \in Seq(Nat) : /\ r = Reverse(s) /\ Len(r) = Len(s)
                            /\ \A i \in 1..Len(s) : r[i] = s[Len(s) - i + 1]
  BY ReverseFacts
<1>2. PICK n \in Nat : n = Len(s)
  OBVIOUS
<1>3. CASE n > limit
  <2>1. PICK k \in Nat : k = n - limit
    BY <1>3
  <2>2. k + 1 \in 1..(Len(r) + 1) /\ n <= Len(r) /\ k + 1 <= n + 1 /\ n - (k + 1) + 1 = limit
    BY <1>1, <1>2, <1>3, <2>1
  <2>3. PICK u \in Seq(Nat) : /\ u = SubSeq(r, k + 1, n) /\ Len(u) = limit
                              /\ \A i \in 1..limit : u[i] = r[(k + 1) + i - 1]
    BY <2>2, SubSeqFacts
  <2>4. Capped(Reverse(s), limit) = u
    <3>1. Capped(r, limit) = SubSeq(r, n - limit + 1, n)
      BY <1>1, <1>2, <1>3 DEF Capped
    <3> QED BY <1>1, <2>1, <2>3, <3>1
  <2>5. PICK v \in Seq(Nat) : /\ v = Reverse(u) /\ Len(v) = limit
                              /\ \A i \in 1..limit : v[i] = u[limit - i + 1]
    BY <2>3, ReverseFacts
  <2>6. ASSUME NEW i \in 1..limit PROVE v[i] = s[i]
    <3>1. limit - i + 1 \in 1..limit /\ (k + 1) + (limit - i + 1) - 1 = n - i + 1
          /\ n - i + 1 \in 1..n /\ n - (n - i + 1) + 1 = i
      BY <1>3, <2>1
    <3>2. v[i] = r[n - i + 1]
      BY <2>3, <2>5, <3>1
    <3> QED BY <1>1, <1>2, <3>1, <3>2
  <2>7. v = Prefix(s, limit)
    <3>1. limit \in 0..Len(s)
      BY <1>2, <1>3
    <3>2. PICK w \in Seq(Nat) : /\ w = Prefix(s, limit) /\ Len(w) = limit
                                /\ \A i \in 1..limit : w[i] = s[i]
      BY <3>1, PrefixFacts
    <3>3. \A i \in 1..Len(v) : v[i] = w[i]
      BY <2>5, <2>6, <3>2
    <3> QED BY <2>5, <3>2, <3>3, SeqSame
  <2> QED BY <1>2, <1>3, <2>4, <2>5, <2>7
<1>4. CASE ~(n > limit)
  <2>1. Capped(Reverse(s), limit) = r
    BY <1>1, <1>2, <1>4 DEF Capped
  <2>2. PICK v \in Seq(Nat) : /\ v = Reverse(r) /\ Len(v) = n
                              /\ \A i \in 1..n : v[i] = r[n - i + 1]
    BY <1>1, <1>2, ReverseFacts
  <2>3. ASSUME NEW i \in 1..n PROVE v[i] = s[i]
    <3>1. n - i + 1 \in 1..n /\ n - (n - i + 1) + 1 = i
      OBVIOUS
    <3> QED BY <1>1, <1>2, <2>2, <3>1
  <2>4. v = s
    BY <1>2, <2>2, <2>3, SeqSame
  <2> QED BY <1>2, <1>4, <2>1, <2>2, <2>4
<1> QED BY <1>3, <1>4

LEMMA ReverseEmpty == ASSUME NEW s \in Seq(Nat) PROVE Reverse(s) = <<>> <=> s = <<>>
BY ReverseFacts

LEMMA ChainFacts ==
    ASSUME ChainsOK(chain), NEW b \in Blocks
    PROVE  /\ b \in Nat /\ b # 0 /\ chain[b] \in Seq(Nat) /\ chain[b] # <<>> /\ chain[b][1] = b
           /\ Len(chain[b]) \in 1..MaxBlocks
           /\ \A i \in DOMAIN chain[b] : chain[b][i] \in Blocks /\ chain[b][i] <= b
           /\ Chain(b) = ToSet(chain[b]) /\ b \in Chain(b) /\ Chain(b) \subseteq Blocks
<1>1. /\ Blocks = 1..Len(chain) /\ Len(chain) \in 1..MaxBlocks /\ MaxBlocks \in Nat
      /\ chain[b] \in Seq(1..b) /\ chain[b] # <<>> /\ chain[b][1] = b /\ Len(chain[b]) <= b
  BY RewardsAssumption DEF ChainsOK, ChainOK, Blocks
<1>2. b \in Nat /\ b # 0 /\ b <= Len(chain)
  BY <1>1
<1>3. \A i \in DOMAIN chain[b] : chain[b][i] \in 1..b
  BY <1>1
<1>4. chain[b] \in Seq(Nat) /\ Len(chain[b]) \in 1..MaxBlocks /\ 1 \in DOMAIN chain[b]
  BY <1>1, <1>2
<1>5. \A i \in DOMAIN chain[b] : chain[b][i] \in Blocks /\ chain[b][i] <= b
  BY <1>1, <1>2, <1>3
<1>6. Chain(b) = ToSet(chain[b])
  BY <1>2 DEF Chain
<1> QED BY <1>1, <1>2, <1>4, <1>5, <1>6 DEF ToSet

(* A new block on top of p leaves the chains in order. *)
LEMMA NewBlock ==
    ASSUME NEW c, ChainsOK(c), NEW p \in DOMAIN c, Len(c) < MaxBlocks,
           NEW d, d = Append(c, <<Len(c) + 1>> \o c[p])
    PROVE  /\ ChainsOK(d) /\ DOMAIN d = DOMAIN c \union {Len(c) + 1}
           /\ \A b \in DOMAIN c : d[b] = c[b]
<1>1. PICK n \in Nat : n = Len(c) + 1 /\ p \in 1..(n - 1) /\ n \in 1..MaxBlocks /\ DOMAIN c = 1..(n - 1)
  <2>1. c \in Seq(Seq(Nat)) /\ Len(c) \in Nat /\ MaxBlocks \in Nat
    BY RewardsAssumption DEF ChainsOK
  <2>2. PICK n \in Nat : n = Len(c) + 1
    BY <2>1
  <2>3. DOMAIN c = 1..(n - 1) /\ n \in 1..MaxBlocks
    BY <2>1, <2>2
  <2> QED BY <2>2, <2>3
<1>2. PICK q : q = c[p]
  OBVIOUS
<1>3. /\ q \in Seq(1..p) /\ q # <<>> /\ q[1] = p /\ Len(q) <= p
      /\ \A i, j \in DOMAIN q : i < j => q[j] < q[i]
  BY <1>2 DEF ChainsOK, ChainOK
<1>4. PICK new : new = <<n>> \o q
  OBVIOUS
<1>5. Len(q) \in Nat /\ DOMAIN q = 1..Len(q) /\ \A i \in 1..Len(q) : q[i] \in 1..p
  BY <1>3
<1>6. /\ new \in Seq(1..n) /\ new # <<>> /\ Len(new) = Len(q) + 1 /\ new[1] = n
      /\ \A i \in 2..Len(new) : new[i] = q[i - 1]
  <2>1. q \in Seq(1..n) /\ <<n>> \in Seq(1..n)
    BY <1>1, <1>3, <1>5
  <2> QED BY <2>1, <1>4
<1>7. PICK k \in Nat : k = Len(q) /\ DOMAIN new = 1..(k + 1) /\ Len(new) = k + 1 /\ DOMAIN q = 1..k
                      /\ \A j \in 2..(k + 1) : new[j] = q[j - 1]
  <2>1. PICK k \in Nat : k = Len(q)
    BY <1>5
  <2>2. DOMAIN new = 1..Len(new) /\ Len(new) = k + 1
    BY <1>6, <2>1
  <2>3. \A j \in 2..(k + 1) : new[j] = q[j - 1]
    BY <1>6, <2>2
  <2> QED BY <1>5, <2>1, <2>2, <2>3
<1>8. /\ d \in Seq(Seq(Nat)) /\ Len(d) = n /\ DOMAIN d = 1..n /\ d[n] = new
      /\ \A b \in 1..(n - 1) : d[b] = c[b]
  <2>1. new \in Seq(Nat)
    BY <1>6
  <2>2. c \in Seq(Seq(Nat)) /\ d = Append(c, new)
    BY <1>1, <1>2, <1>4 DEF ChainsOK
  <2> QED BY <1>1, <2>1, <2>2
<1>9. ASSUME NEW b \in 1..(n - 1) PROVE ChainOK(d[b], b) /\ ChainNested(d, d[b])
  <2>1. ChainOK(c[b], b) /\ ChainNested(c, c[b]) /\ d[b] = c[b]
    BY <1>1, <1>8 DEF ChainsOK
  <2>2. \A i \in DOMAIN c[b] : c[b][i] \in 1..b
    BY <2>1 DEF ChainOK
  <2>3. \A i \in DOMAIN c[b] : d[c[b][i]] = c[c[b][i]]
    BY <1>1, <1>8, <2>2
  <2> QED BY <2>1, <2>3 DEF ChainNested
<1>10. ChainOK(d[n], n)
  <2>1. ASSUME NEW i \in DOMAIN new, NEW j \in DOMAIN new, i < j PROVE new[j] < new[i]
    <3>0. i \in 1..(k + 1) /\ j \in 1..(k + 1)
      BY <1>7
    <3>1. j \in 2..(k + 1) /\ j - 1 \in DOMAIN q
      BY <1>7, <2>1, <3>0
    <3>2. CASE i = 1
      <4>1. q[j - 1] \in 1..p
        BY <1>5, <1>7, <3>1
      <4> QED BY <1>1, <1>6, <1>7, <3>1, <3>2, <4>1
    <3>3. CASE i # 1
      <4>1. i \in 2..(k + 1) /\ i - 1 \in DOMAIN q /\ i - 1 < j - 1
        BY <1>7, <2>1, <3>0, <3>1, <3>3
      <4> QED BY <1>3, <1>7, <3>1, <4>1
    <3> QED BY <3>2, <3>3
  <2>2. Len(new) <= n
    BY <1>1, <1>3, <1>5, <1>6
  <2> QED BY <1>6, <1>8, <2>1, <2>2 DEF ChainOK
<1>11. ChainNested(d, d[n])
  <2> SUFFICES ASSUME NEW i \in DOMAIN new PROVE ToSet(d[new[i]]) = From(new, i)
    BY <1>8 DEF ChainNested
  <2>1. CASE i = 1
    <3>1. d[new[i]] = new /\ ToSet(new) = {new[j] : j \in DOMAIN new} /\ DOMAIN new = i..Len(new)
      BY <1>6, <1>7, <1>8, <2>1 DEF ToSet
    <3> QED BY <3>1 DEF From
  <2>2. CASE i # 1
    <3>1. i \in 2..(k + 1) /\ new[i] = q[i - 1] /\ i - 1 \in 1..k
      BY <1>7, <2>2
    <3>2. ToSet(c[q[i - 1]]) = From(q, i - 1)
      <4>1. ChainNested(c, q) /\ i - 1 \in DOMAIN q
        BY <1>2, <1>7, <3>1 DEF ChainsOK
      <4> QED BY <4>1 DEF ChainNested
    <3>3. d[new[i]] = c[q[i - 1]]
      <4>1. q[i - 1] \in 1..(n - 1)
        BY <1>1, <1>5, <1>7, <3>1
      <4> QED BY <1>8, <3>1, <4>1
    <3>4. ASSUME NEW j \in i..(k + 1) PROVE new[j] \in {q[m] : m \in (i - 1)..k}
      <4>1. j \in 2..(k + 1) /\ j - 1 \in (i - 1)..k
        BY <3>1
      <4> QED BY <1>7, <4>1
    <3>5. ASSUME NEW j \in (i - 1)..k PROVE q[j] \in {new[m] : m \in i..(k + 1)}
      <4>1. j + 1 \in 2..(k + 1) /\ j + 1 \in i..(k + 1) /\ (j + 1) - 1 = j
        BY <3>1
      <4>2. new[j + 1] = q[(j + 1) - 1]
        BY <1>7, <4>1
      <4> QED BY <4>1, <4>2
    <3>6. {new[j] : j \in i..(k + 1)} = {q[j] : j \in (i - 1)..k}
      BY <3>4, <3>5
    <3> QED BY <1>7, <3>2, <3>3, <3>6 DEF From
  <2> QED BY <2>1, <2>2
<1>12. \A b \in DOMAIN d : b \in 1..(n - 1) \/ b = n
  BY <1>1, <1>8
<1>13. ChainsOK(d)
  BY <1>1, <1>8, <1>9, <1>10, <1>11, <1>12 DEF ChainsOK
<1>14. DOMAIN d = DOMAIN c \union {Len(c) + 1}
  BY <1>1, <1>8
<1> QED BY <1>1, <1>8, <1>13, <1>14

(* What is above `stop`, and the chains of the blocks in stop, make up the    *)
(* whole chain of b.                                                          *)
LEMMA AboveCovers ==
    ASSUME ChainsOK(chain), NEW b \in Blocks, NEW stop, NEW known,
           \A x \in stop : x \in Blocks => Chain(x) \subseteq known
    PROVE  /\ Chain(b) \subseteq known \union ToSet(Above(b, stop))
           /\ Above(b, stop) # <<>> => Head(Above(b, stop)) = b
           /\ Above(b, stop) = <<>> <=> b \in stop
           /\ Above(b, stop) \in Seq(Nat) /\ Len(Above(b, stop)) <= MaxBlocks
<1>1. PICK v \in Seq(Nat) : v = chain[b]
  BY ChainFacts
<1>2. /\ v[1] = b /\ Len(v) \in 1..MaxBlocks /\ Chain(b) = ToSet(v)
      /\ \A i \in DOMAIN v : v[i] \in Blocks
  BY <1>1, ChainFacts
<1>3. PICK n \in 0..Len(v) : /\ Above(b, stop) = Prefix(v, n)
                             /\ \A i \in 1..n : v[i] \notin stop
                             /\ n < Len(v) => v[n + 1] \in stop
  BY <1>1, AboveFacts
<1>4. PICK a \in Seq(Nat) : a = Above(b, stop) /\ Len(a) = n /\ \A i \in 1..n : a[i] = v[i]
  BY <1>3, PrefixFacts
<1>5. MaxBlocks \in Nat /\ Len(v) \in Nat /\ n \in Nat /\ n <= Len(v)
  BY <1>2, RewardsAssumption
<1>6. a # <<>> => Head(a) = b
  BY <1>2, <1>4, <1>5
<1>7. a = <<>> <=> b \in stop
  <2>1. a = <<>> <=> n = 0
    BY <1>4
  <2>2. n = 0 => b \in stop
    BY <1>2, <1>3
  <2>3. n # 0 => b \notin stop
    BY <1>2, <1>3, <1>5
  <2> QED BY <2>1, <2>2, <2>3
<1>8. ASSUME NEW x \in Chain(b) PROVE x \in known \union ToSet(a)
  <2>1. PICK j \in 1..Len(v) : v[j] = x
    BY <1>2 DEF ToSet
  <2>2. CASE j <= n
    <3>1. j \in 1..n /\ DOMAIN a = 1..n
      BY <1>4, <1>5, <2>1, <2>2
    <3>2. x = a[j] /\ j \in DOMAIN a
      BY <1>4, <2>1, <3>1
    <3> QED BY <3>2 DEF ToSet
  <2>3. CASE j > n
    <3>1. n + 1 \in DOMAIN v /\ n + 1 <= j /\ n < Len(v)
      BY <1>5, <2>1, <2>3
    <3>2. PICK y \in Blocks : y = v[n + 1]
      BY <1>2, <3>1
    <3>3. y \in stop /\ Chain(y) = ToSet(chain[y])
      BY <1>3, <3>1, <3>2, ChainFacts
    <3>4. ToSet(chain[y]) = From(v, n + 1)
      <4>1. ChainNested(chain, v)
        BY <1>1 DEF ChainsOK, Blocks
      <4> QED BY <3>1, <3>2, <4>1 DEF ChainNested
    <3>5. x \in Chain(y)
      <4>1. j \in (n + 1)..Len(v)
        BY <1>5, <2>1, <3>1
      <4> QED BY <2>1, <3>3, <3>4, <4>1 DEF From
    <3> QED BY <3>3, <3>5
  <2> QED BY <1>5, <2>1, <2>2, <2>3
<1>9. Len(a) <= MaxBlocks
  BY <1>2, <1>4, <1>5
<1>10. Chain(b) \subseteq known \union ToSet(a)
  BY <1>8
<1> QED BY <1>4, <1>6, <1>7, <1>9, <1>10

(* The chain of a block of a chain is part of it. *)
LEMMA SubChain ==
    ASSUME ChainsOK(chain), NEW b \in Blocks, NEW x \in Chain(b)
    PROVE  x \in Blocks /\ Chain(x) \subseteq Chain(b)
<1>1. PICK i \in DOMAIN chain[b] : chain[b][i] = x
  BY ChainFacts DEF ToSet
<1>2. ToSet(chain[x]) = From(chain[b], i)
  BY <1>1 DEF ChainsOK, ChainNested, Blocks
<1>3. chain[b] \in Seq(Nat) /\ Chain(b) = ToSet(chain[b]) /\ x \in Blocks
  BY <1>1, ChainFacts
<1>4. \A j \in i..Len(chain[b]) : j \in DOMAIN chain[b]
  BY <1>1, <1>3
<1>5. ToSet(chain[x]) \subseteq Chain(b)
  BY <1>2, <1>3, <1>4 DEF ToSet, From
<1> QED BY <1>3, <1>5, ChainFacts

(* What is above the cursor, by either way, and its chain make up the whole. *)
LEMMA CursorCovers ==
    ASSUME PInv, NEW b \in Blocks, NEW stop \in {Chain(cursor), {cursor}}
    PROVE  /\ Chain(b) \subseteq Chain(cursor) \union ToSet(Above(b, stop))
           /\ Above(b, stop) = <<>> <=> b \in stop
           /\ Above(b, stop) \in Seq(Nat) /\ Len(Above(b, stop)) <= MaxBlocks
<1>1. ChainsOK(chain) /\ cursor \in Blocks \union {0}
  BY DEF PInv, CursorKnown
<1>2. cursor = 0 => Chain(cursor) = {}
  BY DEF Chain
<1>3. ASSUME NEW x \in stop, x \in Blocks PROVE Chain(x) \subseteq Chain(cursor)
  <2>1. CASE x = cursor
    BY <2>1
  <2>2. CASE x # cursor
    <3>1. x \in Chain(cursor) /\ cursor \in Blocks
      BY <1>1, <1>2, <2>2
    <3> QED BY <1>1, <3>1, SubChain
  <2> QED BY <2>1, <2>2
<1>4. PICK known : known = Chain(cursor)
  OBVIOUS
<1>5. \A x \in stop : x \in Blocks => Chain(x) \subseteq known
  BY <1>3, <1>4
<1> QED BY <1>1, <1>4, <1>5, AboveCovers

(* The blocks asked for, when nothing is cut short and nothing fails *)
LEMMA PollAnswer ==
    ASSUME PInv, NEW vspc \in BOOLEAN, NEW tip \in Blocks
    PROVE  FetchAdded(vspc, tip, cursor, MaxBlocks, {})
             = IF News(vspc) THEN Above(virtual, Chain(cursor)) ELSE Above(tip, {cursor})
<1>0. virtual \in Blocks /\ MaxBlocks \in Nat
  BY RewardsAssumption DEF PInv
<1>1. PICK a \in Seq(Nat) : /\ a = Above(virtual, Chain(cursor)) /\ Len(a) <= MaxBlocks
                            /\ a = <<>> <=> virtual \in Chain(cursor)
  BY <1>0, CursorCovers
<1>2. PICK w \in Seq(Nat) : w = Above(tip, {cursor}) /\ Len(w) <= MaxBlocks
  BY CursorCovers
<1>3. Walk(tip, {cursor} \union {}, MaxBlocks) = w
  <2>1. ~(Len(w) > MaxBlocks)
    BY <1>0, <1>2
  <2>2. {cursor} \union {} = {cursor}
    OBVIOUS
  <2> QED BY <1>2, <2>1, <2>2 DEF Walk
<1>4. Reverse(a) = <<>> <=> a = <<>>
  BY ReverseEmpty
<1>5. Reverse(Capped(Reverse(a), MaxBlocks)) = a
  <2>1. ~(Len(a) > MaxBlocks)
    BY <1>0, <1>1
  <2> QED BY <1>0, <2>1, ReverseCapped
<1>6. AddedChainBlockHashes(cursor) = Reverse(a)
  BY <1>1 DEF AddedChainBlockHashes
<1> QED BY <1>1, <1>2, <1>3, <1>4, <1>5, <1>6 DEF FetchAdded, News

(* Whatever the limit and the faults, what is got is of one chain. *)
LEMMA PollGets ==
    ASSUME PInv, NEW vspc \in BOOLEAN, NEW tip \in Blocks, NEW limit \in Nat, NEW lost
    PROVE  ToSet(FetchAdded(vspc, tip, cursor, limit, lost))
             \subseteq IF News(vspc) THEN Chain(virtual) ELSE Chain(tip)
<1>0. ChainsOK(chain) /\ virtual \in Blocks
  BY DEF PInv
<1>1. ASSUME NEW b \in Blocks, NEW stop
      PROVE  Above(b, stop) \in Seq(Nat) /\ ToSet(Above(b, stop)) \subseteq Chain(b)
  <2>1. PICK v \in Seq(Nat) : v = chain[b] /\ Chain(b) = ToSet(v)
    BY <1>0, ChainFacts
  <2>2. PICK n \in 0..Len(v) : Above(b, stop) = Prefix(v, n)
    BY <2>1, AboveFacts
  <2> QED BY <2>1, <2>2, PrefixFacts, PrefixIn
<1>2. ASSUME NEW s \in Seq(Nat)
      PROVE  ToSet(IF Len(s) > limit THEN Prefix(s, limit) ELSE s) \subseteq ToSet(s)
  <2>1. Len(s) > limit => limit \in 0..Len(s)
    OBVIOUS
  <2> QED BY <2>1, PrefixIn
<1>3. PICK a \in Seq(Nat) : a = Above(virtual, Chain(cursor)) /\ ToSet(a) \subseteq Chain(virtual)
  BY <1>0, <1>1
<1>4. PICK stop : stop = {cursor} \union lost
  OBVIOUS
<1>5. PICK w \in Seq(Nat) : w = Above(tip, stop) /\ ToSet(w) \subseteq Chain(tip)
  BY <1>1
<1>6. Walk(tip, stop, limit) = IF Len(w) > limit THEN Prefix(w, limit) ELSE w
  BY <1>5 DEF Walk, Prefix
<1>7. ToSet(Walk(tip, stop, limit)) \subseteq Chain(tip)
  BY <1>2, <1>5, <1>6
<1>8. AddedChainBlockHashes(cursor) = Reverse(a)
  BY <1>3 DEF AddedChainBlockHashes
<1>9. Reverse(a) = <<>> <=> virtual \in Chain(cursor)
  BY <1>0, <1>3, ReverseEmpty, CursorCovers
<1>10. ToSet(Reverse(Capped(Reverse(a), limit))) \subseteq Chain(virtual)
  BY <1>2, <1>3, ReverseCapped
<1>11. FetchAdded(vspc, tip, cursor, limit, lost)
         = IF News(vspc) THEN Reverse(Capped(Reverse(a), limit)) ELSE Walk(tip, stop, limit)
  BY <1>4, <1>8, <1>9 DEF FetchAdded, News
<1> QED BY <1>7, <1>10, <1>11

(* A poll leaves the client with a cursor below which it knows what pays it,  *)
(* and with the whole selected chain if that is what it asked for.            *)
LEMMA PollFacts ==
    ASSUME PInv, NEW vspc \in BOOLEAN, NEW tip \in Tips, NEW limit \in Limits, NEW lost, NEW errs,
           Poll(vspc, tip, limit, lost, errs)
    PROVE  /\ cursor' \in Blocks \union {0}
           /\ \A b \in Chain(cursor') : Pays(b) => b \in told' \union missed'
           /\ fresh' => \A b \in Chain(virtual) : Pays(b) => b \in told' \union missed'
<1>0. ChainsOK(chain) /\ virtual \in Blocks /\ tip \in Blocks /\ CursorKnown /\ limit \in Nat
  BY RewardsAssumption DEF PInv, Tips
<1>1. PICK top \in Blocks : top = IF News(vspc) THEN virtual ELSE tip
  BY <1>0
<1>2. PICK got : got = ToSet(FetchAdded(vspc, tip, cursor, limit, lost)) \ lost
  OBVIOUS
<1>3. PICK asked : asked = ToSet(FetchAdded(vspc, tip, cursor, MaxBlocks, {}))
  OBVIOUS
<1>4. PICK paying : paying =
          {b \in got : DOMAIN ProcessPayingBlock(b, 1, MergeSet(b), NoRig, errs) # {}}
  OBVIOUS
<1>5. /\ told' = told \union paying
      /\ missed' = (missed \union {b \in asked \intersect Chain(virtual) : Pays(b)}) \ told'
      /\ cursor' = IF paying = {} THEN cursor ELSE Max(paying)
      /\ fresh' = (tip = virtual \/ News(vspc))
  BY <1>2, <1>3, <1>4 DEF Poll, News
<1>6. got \subseteq Chain(top)
  BY <1>0, <1>1, <1>2, PollGets
<1>7. Chain(top) \subseteq Chain(cursor) \union asked
  <2>1. CASE News(vspc)
    BY <1>0, <1>1, <1>3, <2>1, PollAnswer, CursorCovers
  <2>2. CASE ~News(vspc)
    BY <1>0, <1>1, <1>3, <2>2, PollAnswer, CursorCovers
  <2> QED BY <2>1, <2>2
<1>8. paying \subseteq Chain(virtual)
  <2> SUFFICES ASSUME NEW b \in paying, b \notin Chain(virtual) PROVE FALSE
    OBVIOUS
  <2>1. DOMAIN ProcessPayingBlock(b, 1, MergeSet(b), NoRig, errs) = {}
    BY DEF ProcessPayingBlock
  <2> QED BY <1>4, <2>1
<1>9. ASSUME NEW b \in Chain(top), b \in Chain(virtual), Pays(b) PROVE b \in told' \union missed'
  <2>1. CASE b \in Chain(cursor)
    <3>1. b \in told \union missed
      BY <1>0, <1>9, <2>1 DEF CursorKnown
    <3> QED BY <1>5, <3>1
  <2>2. CASE b \in asked
    BY <1>5, <1>9, <2>2
  <2> QED BY <1>7, <2>1, <2>2
<1>10. fresh' => \A b \in Chain(virtual) : Pays(b) => b \in told' \union missed'
  BY <1>1, <1>5, <1>9
<1>11. CASE paying = {}
  <2>1. cursor' = cursor
    BY <1>5, <1>11
  <2>2. ASSUME NEW b \in Chain(cursor), Pays(b) PROVE b \in told' \union missed'
    BY <1>0, <1>5, <2>2 DEF CursorKnown
  <2> QED BY <1>0, <1>10, <2>1, <2>2 DEF CursorKnown
<1>12. CASE paying # {}
  <2>1. paying \in SUBSET (0..Len(chain)) /\ Len(chain) \in Nat
    <3>1. Chain(virtual) \subseteq Blocks /\ Blocks = 1..Len(chain) /\ Len(chain) \in Nat
      BY <1>0, ChainFacts, RewardsAssumption DEF ChainsOK, Blocks
    <3> QED BY <1>8, <3>1
  <2>2. PICK c \in paying : c = Max(paying)
    BY <1>12, <2>1, MaxFacts
  <2>3. c \in Chain(top) /\ c \in Chain(virtual) /\ cursor' = c
    BY <1>4, <1>5, <1>6, <1>8, <1>12, <2>2
  <2>4. c \in Blocks /\ Chain(c) \subseteq Chain(top) /\ Chain(c) \subseteq Chain(virtual)
    BY <1>0, <2>3, SubChain
  <2>5. \A b \in Chain(c) : Pays(b) => b \in told' \union missed'
    BY <1>9, <2>4
  <2> QED BY <1>10, <2>3, <2>4, <2>5
<1> QED BY <1>11, <1>12

-----------------------------------------------------------------------------
LEMMA RewardsInitInv == RewardsInit => PInv
<1> SUFFICES ASSUME RewardsInit PROVE PInv
  OBVIOUS
<1>1. PICK c : c = <<1>>
  OBVIOUS
<1>2. c \in Seq(1..1) /\ c \in Seq(Nat) /\ Len(c) = 1 /\ DOMAIN c = {1} /\ c[1] = 1 /\ c # <<>>
  BY <1>1
<1>3. chain = <<c>> /\ virtual = 1 /\ cursor = 0 /\ fresh = FALSE
  BY <1>1 DEF RewardsInit
<1>4. chain \in Seq(Seq(Nat)) /\ Len(chain) = 1 /\ DOMAIN chain = {1} /\ chain[1] = c
  BY <1>2, <1>3
<1>5. ChainOK(c, 1)
  <2>1. \A i, j \in DOMAIN c : ~(i < j)
    BY <1>2
  <2> QED BY <1>2, <2>1 DEF ChainOK
<1>6. ChainNested(chain, c)
  BY <1>2, <1>4 DEF ChainNested, ToSet, From
<1>7. ChainsOK(chain)
  BY <1>4, <1>5, <1>6, RewardsAssumption DEF ChainsOK
<1>8. DbOK
  <2>1. PICK rig \in Rigs \union {NoRig} : db = <<rig>>
    BY DEF RewardsInit
  <2> QED BY <1>4, <2>1 DEF DbOK
<1>9. CursorKnown /\ PollCatchesUp
  BY <1>3 DEF CursorKnown, PollCatchesUp, Chain
<1> QED BY <1>3, <1>4, <1>7, <1>8, <1>9 DEF PInv, Blocks

(* What a block pays for is settled when it appears. *)
LEMMA PaysKept ==
    ASSUME PInv, NEW p \in Blocks, NEW rig \in Rigs \union {NoRig}, AddBlock(p, rig)
    PROVE  /\ ChainsOK(chain)' /\ DbOK' /\ Blocks' = Blocks \union {Len(chain) + 1}
           /\ \A b \in Blocks : chain'[b] = chain[b] /\ (Pays(b)' <=> Pays(b))
<1>1. /\ ChainsOK(chain) /\ p \in DOMAIN chain /\ Len(chain) < MaxBlocks /\ DbOK
      /\ chain' = Append(chain, <<Len(chain) + 1>> \o chain[p]) /\ db' = Append(db, rig)
  BY DEF PInv, AddBlock, Blocks
<1>2. PICK d : d = chain'
  OBVIOUS
<1>3. /\ ChainsOK(d) /\ DOMAIN d = DOMAIN chain \union {Len(chain) + 1}
      /\ \A b \in DOMAIN chain : d[b] = chain[b]
  BY <1>1, <1>2, NewBlock
<1>4. /\ ChainsOK(chain') /\ DOMAIN chain' = DOMAIN chain \union {Len(chain) + 1}
      /\ \A b \in DOMAIN chain : chain'[b] = chain[b]
  BY <1>2, <1>3
<1>5. /\ chain \in Seq(Seq(Nat)) /\ Len(chain) \in Nat /\ Blocks = 1..Len(chain)
      /\ <<Len(chain) + 1>> \o chain[p] \in Seq(Nat)
  <2>1. chain \in Seq(Seq(Nat)) /\ Len(chain) \in Nat /\ chain[p] \in Seq(Nat)
    BY <1>1 DEF ChainsOK
  <2> QED BY <2>1 DEF Blocks
<1>6. DbOK' /\ \A h \in Blocks : db'[h] = db[h]
  <2>1. Len(chain') = Len(chain) + 1
    BY <1>1, <1>5
  <2>2. /\ db' \in Seq(Rigs \union {NoRig}) /\ Len(db') = Len(db) + 1
        /\ \A h \in 1..Len(db) : db'[h] = db[h]
    BY <1>1 DEF DbOK
  <2> QED BY <1>1, <1>5, <2>1, <2>2 DEF DbOK
<1>7. ASSUME NEW b \in Blocks PROVE Pays(b)' <=> Pays(b)
  <2>1. chain'[b] = chain[b]
    BY <1>4 DEF Blocks
  <2>2. MergeSet(b)' = MergeSet(b)
    BY <2>1 DEF MergeSet
  <2>3. ToSet(MergeSet(b)) \subseteq Blocks
    <3>1. CASE Len(chain[b]) > 1
      <4>1. chain[b] \in Seq(Nat) /\ \A i \in DOMAIN chain[b] : chain[b][i] \in Blocks
        BY <1>1, ChainFacts
      <4>2. chain[b][2] \in Blocks
        BY <3>1, <4>1
      <4> QED BY <3>1, <4>2 DEF MergeSet, ToSet
    <3>2. CASE ~(Len(chain[b]) > 1)
      BY <3>2 DEF MergeSet, ToSet
    <3> QED BY <3>1, <3>2
  <2> QED BY <1>6, <2>2, <2>3 DEF Pays
<1>8. Blocks' = Blocks \union {Len(chain) + 1}
  BY <1>4 DEF Blocks
<1>9. \A b \in Blocks : chain'[b] = chain[b]
  BY <1>4 DEF Blocks
<1> QED BY <1>4, <1>6, <1>7, <1>8, <1>9

LEMMA RewardsNextInv == PInv /\ [RewardsNext]_rewardVars => PInv'
<1> SUFFICES ASSUME PInv, [RewardsNext]_rewardVars PROVE PInv'
  OBVIOUS
<1>1. ASSUME NEW p \in Blocks, NEW rig \in Rigs \union {NoRig}, AddBlock(p, rig) PROVE PInv'
  <2>1. /\ ChainsOK(chain)' /\ DbOK' /\ Blocks' = Blocks \union {Len(chain) + 1}
        /\ \A b \in Blocks : chain'[b] = chain[b] /\ (Pays(b)' <=> Pays(b))
    BY <1>1, PaysKept
  <2>2. /\ virtual' \in {virtual, Len(chain) + 1} /\ cursor' = cursor /\ told' = told
        /\ missed' = missed /\ fresh' = FALSE
    BY <1>1 DEF AddBlock
  <2>3. (virtual \in Blocks)'
    BY <2>1, <2>2 DEF PInv
  <2>4. Chain(cursor)' = Chain(cursor) /\ Chain(cursor) \subseteq Blocks
    <3>1. CASE cursor = 0
      BY <2>2, <3>1 DEF Chain
    <3>2. CASE cursor # 0
      <4>1. cursor \in Blocks
        BY <3>2 DEF PInv, CursorKnown
      <4> QED BY <2>1, <2>2, <3>2, <4>1, ChainFacts DEF Chain, PInv
    <3> QED BY <3>1, <3>2
  <2>5. CursorKnown'
    <3>1. cursor' \in Blocks' \union {0}
      BY <2>1, <2>2 DEF PInv, CursorKnown
    <3>2. \A b \in Chain(cursor) : Pays(b)' => b \in told' \union missed'
      BY <2>1, <2>2, <2>4 DEF PInv, CursorKnown
    <3> QED BY <2>4, <3>1, <3>2 DEF CursorKnown
  <2>6. PollCatchesUp'
    BY <2>2 DEF PollCatchesUp
  <2> QED BY <2>1, <2>3, <2>5, <2>6 DEF PInv
<1>2. ASSUME NEW vspc \in BOOLEAN, NEW tip \in Tips, NEW limit \in Limits, NEW lost, NEW errs,
             Poll(vspc, tip, limit, lost, errs)
      PROVE  PInv'
  <2>1. chain' = chain /\ virtual' = virtual /\ db' = db
    BY <1>2 DEF Poll
  <2>2. /\ cursor' \in Blocks \union {0}
        /\ \A b \in Chain(cursor') : Pays(b) => b \in told' \union missed'
        /\ fresh' => \A b \in Chain(virtual) : Pays(b) => b \in told' \union missed'
    BY <1>2, PollFacts
  <2>3. CursorKnown'
    BY <2>1, <2>2 DEF CursorKnown, Blocks, Chain, Pays, MergeSet
  <2>4. PollCatchesUp'
    BY <2>1, <2>2 DEF PollCatchesUp, Chain, Pays, MergeSet
  <2>5. (ChainsOK(chain) /\ virtual \in Blocks /\ DbOK)'
    BY <2>1 DEF PInv, DbOK, Blocks
  <2> QED BY <2>3, <2>4, <2>5 DEF PInv
<1>3. CASE UNCHANGED rewardVars
  BY <1>3 DEF rewardVars, PInv, CursorKnown, PollCatchesUp, DbOK, Blocks, Chain, Pays, MergeSet
<1> QED BY <1>1, <1>2, <1>3 DEF RewardsNext

(* Once a poll has covered the selected chain, every block of it that pays    *)
(* the client was told or is one an answer left out by its limit or by a      *)
(* fault: whatever branches grew, overtook each other or were walked by       *)
(* earlier polls, for any limits and any faults (registerMinerRewardsHandlers,*)
(* fetchAddedChainBlocksFrom, fetchRecentChainBlocks, processPayingBlock).    *)
THEOREM PollCatchesUpAlways == RewardsSpec => []PollCatchesUp
<1>1. PInv => PollCatchesUp
  BY DEF PInv
<1> QED BY <1>1, RewardsInitInv, RewardsNextInv, PTL DEF RewardsSpec

-----------------------------------------------------------------------------
(* The two ways to the same answer                                            *)

(* On the chain of the cursor, its block is met first. *)
LEMMA AboveCursor ==
    ASSUME ChainsOK(chain), NEW b \in Blocks, NEW c \in Chain(b)
    PROVE  c \in Blocks /\ Above(b, Chain(c)) = Above(b, {c})
<1>1. PICK v \in Seq(Nat) : /\ v = chain[b] /\ Len(v) \in Nat /\ Chain(b) = ToSet(v)
                            /\ \A i \in DOMAIN v : v[i] \in Blocks
  BY ChainFacts
<1>2. PICK i \in 1..Len(v) : v[i] = c
  BY <1>1 DEF ToSet
<1>3. c \in Blocks
  BY <1>1, <1>2
<1>4. ChainOK(v, b) /\ ChainNested(chain, v)
  BY <1>1 DEF ChainsOK, Blocks
<1>5. Chain(c) = From(v, i)
  <2>1. Chain(c) = ToSet(chain[c])
    BY <1>3, ChainFacts
  <2> QED BY <1>1, <1>2, <1>4, <2>1 DEF ChainNested
<1>6. ASSUME NEW j \in 1..Len(v), NEW k \in 1..Len(v), v[j] = v[k] PROVE j = k
  <2>1. j \in Nat /\ k \in Nat /\ v[j] \in Nat /\ v[k] \in Nat
    BY <1>1
  <2>2. j \in DOMAIN v /\ k \in DOMAIN v /\ \A x, y \in DOMAIN v : x < y => v[y] < v[x]
    BY <1>4 DEF ChainOK
  <2>3. ~(j < k) /\ ~(k < j)
    BY <1>6, <2>1, <2>2
  <2> QED BY <2>1, <2>3
<1>7. PICK n \in 0..Len(v) : /\ Above(b, Chain(c)) = Prefix(v, n)
                             /\ \A j \in 1..n : v[j] \notin Chain(c)
                             /\ n < Len(v) => v[n + 1] \in Chain(c)
  BY <1>1, AboveFacts
<1>8. PICK m \in 0..Len(v) : /\ Above(b, {c}) = Prefix(v, m)
                             /\ \A j \in 1..m : v[j] \notin {c}
                             /\ m < Len(v) => v[m + 1] \in {c}
  BY <1>1, AboveFacts
<1>9. m + 1 = i
  <2>1. ~(i <= m)
    BY <1>2, <1>8
  <2>2. m < Len(v) /\ m + 1 \in 1..Len(v)
    BY <1>1, <2>1
  <2> QED BY <1>2, <1>6, <1>8, <2>2
<1>10. n + 1 = i
  <2>1. v[i] \in Chain(c)
    BY <1>1, <1>5 DEF From
  <2>2. ~(i <= n)
    BY <1>7, <2>1
  <2>3. n < Len(v) /\ n + 1 \in 1..Len(v) /\ n + 1 <= i
    BY <1>1, <2>2
  <2>4. PICK j \in i..Len(v) : v[n + 1] = v[j]
    BY <1>5, <1>7, <2>3 DEF From
  <2>5. j \in 1..Len(v) /\ j >= i
    BY <1>1, <2>4
  <2>6. n + 1 = j
    BY <1>6, <2>3, <2>4, <2>5
  <2> QED BY <2>3, <2>5, <2>6
<1>11. n = m
  BY <1>1, <1>9, <1>10
<1> QED BY <1>3, <1>7, <1>8, <1>11

(* With the cursor on the selected chain, the query for the chain and the     *)
(* walk along its selected parents get the same blocks for the same limit,    *)
(* for chains of any length and shape and any limit                           *)
(* (fetchAddedChainBlocksFrom and its fallback).                              *)
THEOREM WaysAgreeAlways == RewardsSpec => []WaysAgree
<1>1. PInv => WaysAgree
  <2> SUFFICES ASSUME PInv, cursor \in Chain(virtual), NEW limit \in Blocks
               PROVE  FetchAdded(TRUE, virtual, cursor, limit, {})
                        = FetchAdded(FALSE, virtual, cursor, limit, {})
    BY DEF WaysAgree
  <2>0. ChainsOK(chain) /\ virtual \in Blocks
    BY DEF PInv
  <2>1. cursor \in Blocks /\ Above(virtual, Chain(cursor)) = Above(virtual, {cursor})
    BY <2>0, AboveCursor
  <2>2. cursor # 0 /\ limit \in Nat
    BY <2>0, <2>1, ChainFacts
  <2>3. PICK a \in Seq(Nat) : a = Above(virtual, {cursor})
    BY <2>0, CursorCovers
  <2>4. AddedChainBlockHashes(cursor) = Reverse(a) /\ (Reverse(a) = <<>> <=> a = <<>>)
    BY <2>1, <2>3, ReverseEmpty DEF AddedChainBlockHashes
  <2>5. Walk(virtual, {cursor} \union {}, limit) = IF Len(a) > limit THEN Prefix(a, limit) ELSE a
    <3>1. {cursor} \union {} = {cursor}
      OBVIOUS
    <3> QED BY <2>3, <3>1 DEF Walk, Prefix
  <2>6. Reverse(Capped(Reverse(a), limit)) = IF Len(a) > limit THEN Prefix(a, limit) ELSE a
    BY <2>2, ReverseCapped
  <2>7. FetchAdded(FALSE, virtual, cursor, limit, {}) = Walk(virtual, {cursor} \union {}, limit)
    BY DEF FetchAdded
  <2>8. FetchAdded(TRUE, virtual, cursor, limit, {})
          = IF Reverse(a) # <<>> THEN Reverse(Capped(Reverse(a), limit))
            ELSE Walk(virtual, {cursor} \union {}, limit)
    BY <2>2, <2>4 DEF FetchAdded
  <2> QED BY <2>5, <2>6, <2>7, <2>8
<1> QED BY <1>1, RewardsInitInv, RewardsNextInv, PTL DEF RewardsSpec

-----------------------------------------------------------------------------
(* The payment                                                                *)

LEMMA ProductLeq ==
    ASSUME NEW q \in Nat, NEW n \in Nat, NEW k \in Nat, k <= n
    PROVE  q * k <= q * n /\ q * k \in Nat /\ q * n \in Nat
<1>1. PICK d \in Nat : n = k + d
  <2>1. n - k \in Nat /\ n = k + (n - k)
    OBVIOUS
  <2> QED BY <2>1
<1>2. q * n = q * k + q * d
  BY <1>1
<1>3. q * d \in Nat /\ q * k \in Nat /\ q * n \in Nat
  OBVIOUS
<1> QED BY <1>2, <1>3

(* The remainder goes to one row, the portion to each. *)
LEMMA RowsSum ==
    ASSUME NEW S, IsFiniteSet(S), NEW first \in S, NEW q \in Nat, NEW r \in Nat,
           NEW f, f = [h \in S |-> q + (IF h = first THEN r ELSE 0)]
    PROVE  SumFunction(f) = q * Cardinality(S) + r
<1> DEFINE g == [h \in S |-> q]
<1>1. DOMAIN f = S /\ f[first] = g[first] + r /\ \A x \in S : x # first => f[x] = g[x]
  OBVIOUS
<1>2. \A x \in S : g[x] = q /\ g[x] \in Nat
  OBVIOUS
<1> HIDE DEF g
<1>3. SumFunctionOnSet(f, S) = SumFunctionOnSet(g, S) + r
  BY <1>1, <1>2, SumRaise
<1>4. SumFunctionOnSet(g, S) = q * Cardinality(S)
  BY <1>2, SumSteady
<1> QED BY <1>1, <1>3, <1>4 DEF SumFunction

(* The blues of the merge set that the database knows and finds *)
Mined(errs) == {h \in Blocks \ errs : db[h] # NoRig}

Included(want, errs) == {h \in Mined(errs) : want \in {NoRig, db[h]}}

(* The rows of a payment above zero, whatever order the merge set is in *)
LEMMA RowsOfPayment ==
    ASSUME NEW amount \in Nat \ {0}, NEW hashes, ToSet(hashes) = Blocks, NEW want, NEW errs,
           virtual \in Chain(virtual)
    PROVE  ProcessPayingBlock(virtual, amount, hashes, want, errs)
             = [h \in Included(want, errs) |->
                  (amount \div Cardinality(Mined(errs)))
                    + (IF h = Min(Included(want, errs)) THEN amount % Cardinality(Mined(errs)) ELSE 0)]
<1>1. FindMinedBlues(hashes, errs) = Mined(errs)
  BY DEF FindMinedBlues, Mined
<1>2. amount # 0
  OBVIOUS
<1> QED BY <1>1, <1>2 DEF ProcessPayingBlock, Included, FirstRow

LEMMA NoRowsOfNothing ==
    ASSUME NEW hashes, NEW want, NEW errs
    PROVE  ProcessPayingBlock(virtual, 0, hashes, want, errs) = [h \in {} |-> 0]
BY DEF ProcessPayingBlock

(* The rows of a paying block add up to its payment, to the atom, those of    *)
(* one worker to no more, and do not depend on the order of the merge set:    *)
(* for any payment, any merge set, any workers and any blocks the database    *)
(* fails on (processPayingBlock, findMinedBluesFromMergeSet).                 *)
THEOREM SplitExactAlways == RewardsSpec => []SplitExact
<1>1. PInv => SplitExact
  <2> SUFFICES ASSUME PInv, NEW amount \in 0..Atoms, NEW want \in Rigs \union {NoRig},
                      NEW errs, NEW answer,
                      answer = ProcessPayingBlock(virtual, amount, [h \in Blocks |-> h], want, errs)
               PROVE  /\ SumFunction(answer) <= amount
                      /\ want = NoRig /\ (\E h \in Blocks \ errs : db[h] # NoRig)
                           => SumFunction(answer) = amount
                      /\ \A order \in Orders : ProcessPayingBlock(virtual, amount, order, want, errs) = answer
    <3>1. Atoms \in 0..Atoms
      BY RewardsAssumption
    <3> QED BY <3>1 DEF SplitExact
  <2>0. virtual \in Chain(virtual)
    BY ChainFacts DEF PInv
  <2>1. amount \in Nat /\ ToSet([h \in Blocks |-> h]) = Blocks
    BY RewardsAssumption DEF ToSet
  <2>2. CASE amount = 0
    <3>1. answer = [h \in {} |-> 0]
      BY <2>2, NoRowsOfNothing
    <3>2. SumFunction(answer) = 0
      <4>1. DOMAIN answer = {}
        BY <3>1
      <4> QED BY <4>1, SumEmpty DEF SumFunction
    <3> QED BY <2>2, <3>1, <3>2, NoRowsOfNothing
  <2>3. CASE amount # 0
    <3>0. amount \in Nat \ {0}
      BY <2>1, <2>3
    <3>1. PICK split : split = [h \in Included(want, errs) |->
                  (amount \div Cardinality(Mined(errs)))
                    + (IF h = Min(Included(want, errs)) THEN amount % Cardinality(Mined(errs)) ELSE 0)]
      OBVIOUS
    <3>2. answer = split
      BY <2>0, <2>1, <3>0, <3>1, RowsOfPayment
    <3>3. \A order \in Orders : ProcessPayingBlock(virtual, amount, order, want, errs) = split
      BY <2>0, <3>0, <3>1, RowsOfPayment DEF Orders
    <3>4. /\ Blocks \in SUBSET Nat /\ IsFiniteSet(Blocks)
      <4>1. Len(chain) \in Nat /\ Blocks = 1..Len(chain)
        BY RewardsAssumption DEF PInv, ChainsOK, Blocks
      <4> QED BY <4>1, FS_Interval
    <3>5. /\ Mined(errs) \in SUBSET Blocks /\ IsFiniteSet(Mined(errs)) /\ Cardinality(Mined(errs)) \in Nat
          /\ Included(want, errs) \in SUBSET Mined(errs)
      BY <3>4, FS_Subset, FS_CardinalityType DEF Mined, Included
    <3>6. /\ IsFiniteSet(Included(want, errs)) /\ Cardinality(Included(want, errs)) \in Nat
          /\ Cardinality(Included(want, errs)) <= Cardinality(Mined(errs))
      BY <3>5, FS_Subset, FS_CardinalityType
    <3>7. want = NoRig => Included(want, errs) = Mined(errs)
      BY DEF Included
    <3>8. (\E h \in Blocks \ errs : db[h] # NoRig) => Mined(errs) # {}
      BY DEF Mined
    <3>9. CASE Included(want, errs) = {}
      <4>1. SumFunction(split) = 0
        <5>1. DOMAIN split = {}
          BY <3>1, <3>9
        <5> QED BY <5>1, SumEmpty DEF SumFunction
      <4>2. SumFunction(answer) <= amount
        BY <2>1, <3>2, <4>1
      <4>3. ~(want = NoRig /\ \E h \in Blocks \ errs : db[h] # NoRig)
        BY <3>7, <3>8, <3>9
      <4> QED BY <3>2, <3>3, <4>2, <4>3
    <3>10. CASE Included(want, errs) # {}
      <4>1. Cardinality(Mined(errs)) \in Nat \ {0}
        BY <3>5, <3>10, FS_EmptySet
      <4>2. PICK q \in Nat, r \in Nat : /\ q = amount \div Cardinality(Mined(errs))
                                        /\ r = amount % Cardinality(Mined(errs))
                                        /\ amount = q * Cardinality(Mined(errs)) + r
        BY <3>0, <4>1, Remainder
      <4>3. PICK first \in Included(want, errs) : first = Min(Included(want, errs))
        BY <3>4, <3>5, <3>10, MinFacts
      <4>4. split = [h \in Included(want, errs) |-> q + (IF h = first THEN r ELSE 0)]
        BY <3>1, <4>2, <4>3
      <4>5. SumFunction(split) = q * Cardinality(Included(want, errs)) + r
        BY <3>6, <4>4, RowsSum
      <4>6. PICK x \in Nat, y \in Nat : /\ x = q * Cardinality(Included(want, errs))
                                        /\ y = q * Cardinality(Mined(errs)) /\ x <= y
        BY <3>5, <3>6, ProductLeq
      <4>7. SumFunction(split) <= amount
        <5>1. SumFunction(split) = x + r
          BY <4>5, <4>6
        <5>2. amount = y + r
          BY <4>2, <4>6
        <5> QED BY <4>6, <5>1, <5>2
      <4>8. want = NoRig => SumFunction(split) = amount
        <5>1. want = NoRig => SumFunction(split) = q * Cardinality(Mined(errs)) + r
          BY <3>7, <4>5
        <5> QED BY <4>2, <5>1
      <4> QED BY <3>2, <3>3, <4>7, <4>8
    <3> QED BY <3>9, <3>10
  <2> QED BY <2>2, <2>3
<1> QED BY <1>1, RewardsInitInv, RewardsNextInv, PTL DEF RewardsSpec

=============================================================================
