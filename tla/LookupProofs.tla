---------------------------- MODULE LookupProofs ----------------------------
(***************************************************************************)
(* What a lookup answers.  Reading a list page by page while the table     *)
(* changes: the scan misses nothing that stayed and shows nothing twice,   *)
(* for tables of any size and any limits.  Finding an account through the  *)
(* cache: the open-addressing map stays well formed through every insert,  *)
(* erase, clear and growth, and a hit answers what the database holds, for *)
(* any hash function, any accounts and any capacity.                       *)
(***************************************************************************)
EXTENDS DatabaseApi, AccountIndex, FiniteSetTheorems, WellFoundedInduction, TLAPS

\* The solver may take its time on a large module.
USE SMTT(30)

\* A set of naturals that is not empty has a least element.
LEMMA LeastOf ==
  ASSUME NEW S \in SUBSET Nat, S # {}
  PROVE  \E i \in S : \A j \in S : i <= j
<1>1. PICK i \in S : \A j \in S : ~(<<j, i>> \in OpToRel(<, Nat))
  BY NatLessThanWellFounded, WFMin, Zenon
<1>2. \A j \in S : ~(j < i)
  BY <1>1, Zenon DEF OpToRel
<1> QED
  BY <1>2

\* And a greatest one if it is bounded.
LEMMA GreatestOf ==
  ASSUME NEW S \in SUBSET Nat, S # {}, NEW n \in Nat, \A x \in S : x <= n
  PROVE  \E i \in S : \A j \in S : j <= i
<1>1. PICK B : B = {u \in Nat : \A x \in S : x <= u}
  BY Zenon
<1>2. B \in SUBSET Nat /\ B # {}
  BY <1>1, Zenon
<1>3. PICK u \in B : \A v \in B : u <= v
  BY <1>2, LeastOf
<1>4. u \in Nat /\ \A x \in S : x <= u
  BY <1>1, <1>3
<1>5. u \in S
  <2> SUFFICES ASSUME u \notin S PROVE FALSE
    OBVIOUS
  <2>1. \A x \in S : x <= u - 1
    BY <1>4
  <2>2. u - 1 \in Nat
    <3>1. PICK x \in S : x \in Nat
      BY Zenon
    <3> QED
      BY <1>4, <2>1, <3>1
  <2>3. u - 1 \in B
    BY <1>1, <2>1, <2>2
  <2> QED
    BY <1>3, <1>4, <2>3
<1> QED
  BY <1>4, <1>5

----------------------------------------------------------------------------
\* The rows a list selects, and whether the node keeps the table at all.
Selected(q) == {id \in DOMAIN rows : Wanted(q, rows[id])}

Skipped(q) ==
  CASE q.table = "nft" -> config.nft_skip_state [] q.table = "htlc" -> config.htlc_skip_state
    [] q.table = "contract" -> config.contracts_skip

\* Every list is the walk over the rows that its query wants.
LEMMA ListedPage ==
  ASSUME NEW q \in Queries, NEW start, NEW limit
  PROVE  Listed(q, start, limit) = Page(Skipped(q), Selected(q), start, limit)
<1>1. <<q.table, q.list>> \in Lists
  BY ApiAssumption
<1>2. PICK t, l : t = q.table /\ l = q.list
  OBVIOUS
<1>3. \/ t = "nft" /\ l = "nfts_by_owner"
      \/ t = "nft" /\ l = "nfts_by_collection"
      \/ t = "htlc" /\ l = "htlcs_by_from"
      \/ t = "htlc" /\ l = "htlcs_by_to"
      \/ t = "htlc" /\ l = "htlcs_by_expiration"
      \/ t = "contract" /\ l = "contracts_by_owner"
  BY <1>1, <1>2, SMT DEF Lists
<1>4. CASE t = "nft" /\ l = "nfts_by_owner"
  BY <1>2, <1>4 DEF Listed, list_nfts_by_owner, Skipped, Selected, Wanted
<1>5. CASE t = "nft" /\ l = "nfts_by_collection"
  BY <1>2, <1>5 DEF Listed, list_nfts_by_collection, Skipped, Selected, Wanted
<1>6. CASE t = "htlc" /\ l = "htlcs_by_from"
  BY <1>2, <1>6 DEF Listed, list_htlcs_by_from, Skipped, Selected, Wanted
<1>7. CASE t = "htlc" /\ l = "htlcs_by_to"
  BY <1>2, <1>7 DEF Listed, list_htlcs_by_to, Skipped, Selected, Wanted
<1>8. CASE t = "htlc" /\ l = "htlcs_by_expiration"
  BY <1>2, <1>8 DEF Listed, list_htlcs_by_expiration, Skipped, Selected, Wanted
<1>9. CASE t = "contract" /\ l = "contracts_by_owner"
  BY <1>2, <1>9 DEF Listed, list_contracts_by_owner, Skipped, Selected, Wanted
<1> QED
  BY <1>3, <1>4, <1>5, <1>6, <1>7, <1>8, <1>9, Zenon

\* What get shows as wanted is selected by the list, in a table the node keeps.
LEMMA ShowingSelected ==
  ASSUME NEW q \in Queries, NEW id \in Showing(q)
  PROVE  ~Skipped(q) /\ id \in Selected(q) /\ id \in 1..MaxRows
<1>1. PICK row \in get(q, id) : Wanted(q, row) /\ id \in 1..MaxRows
  BY DEF Showing
<1>2. PICK t : t = q.table
  OBVIOUS
<1>3. t \in {"nft", "htlc", "contract"}
  BY <1>2, ApiAssumption, SMT DEF Lists
<1>4. get(q, id) = Found(Skipped(q), id)
  <2>1. CASE t = "nft"
    BY <1>2, <2>1, Zenon DEF get, Skipped, get_nft
  <2>2. CASE t = "htlc"
    BY <1>2, <2>2, Zenon DEF get, Skipped, get_htlc
  <2>3. CASE t = "contract"
    BY <1>2, <2>3, Zenon DEF get, Skipped, get_contract
  <2> QED
    BY <1>3, <2>1, <2>2, <2>3
<1>5. ~Skipped(q) /\ id \in DOMAIN rows /\ row = rows[id]
  BY <1>1, <1>4, Zenon DEF Found
<1> QED
  BY <1>1, <1>5, Zenon DEF Selected

----------------------------------------------------------------------------
\* A page starts at the first id reached: it is empty only if there is none.
LEMMA PageStarts ==
  ASSUME NEW ids \in SUBSET Nat, NEW start \in Nat, NEW limit \in Nat,
         NEW id \in ids, ~(id < start)
  PROVE  Page(FALSE, ids, start, limit) # {}
<1>1. PICK R : R = {x \in ids : Reached(x, start)}
  BY Zenon
<1>2. R \in SUBSET Nat /\ R # {}
  BY <1>1, Zenon DEF Reached
<1>3. PICK m \in R : \A x \in R : m <= x
  BY <1>2, LeastOf
<1>4. {x \in R : x < m} = {}
  <2>1. \A x \in R : x \in Nat /\ m <= x
    BY <1>2, <1>3
  <2>2. \A x \in R : ~(x < m)
    BY <1>3, <2>1
  <2> QED
    BY <2>2
<1>5. Cardinality({x \in R : x < m}) = 0
  BY <1>4, FS_EmptySet
<1>6. 0 < clamp_limit(limit)
  BY DEF clamp_limit
<1>7. m \in {x \in R : Cardinality({y \in R : y < x}) < clamp_limit(limit)}
  BY <1>3, <1>5, <1>6
<1> QED
  BY <1>1, <1>7 DEF Page

\* A page leaves out no id below one that is on it.
LEMMA PageGapless ==
  ASSUME NEW ids \in SUBSET Nat, NEW start \in Nat, NEW limit \in Nat,
         NEW id \in Page(FALSE, ids, start, limit), NEW x \in ids, ~(x < start), x <= id
  PROVE  x \in Page(FALSE, ids, start, limit)
<1>1. PICK R : R = {y \in ids : Reached(y, start)}
  BY Zenon
<1>2. /\ R \in SUBSET Nat /\ x \in R
      /\ id \in R /\ Cardinality({y \in R : y < id}) < clamp_limit(limit)
  BY <1>1, Zenon DEF Reached, Page
<1>3. PICK A, B : A = {y \in R : y < x} /\ B = {y \in R : y < id}
  BY Zenon
<1>4. A \subseteq B /\ B \subseteq 0..id
  <2>1. \A y \in R : y \in Nat
    BY <1>2
  <2>2. \A y \in R : (y < x => y < id) /\ (y < id => y \in 0..id)
    BY <1>2, <2>1
  <2> QED
    BY <1>3, <2>2
<1>5. IsFiniteSet(0..id)
  BY <1>2, FS_Interval
<1>6. IsFiniteSet(B)
  BY <1>4, <1>5, FS_Subset, Zenon
<1>7. IsFiniteSet(A) /\ Cardinality(A) <= Cardinality(B)
  BY <1>4, <1>6, FS_Subset, Zenon
<1>8. Cardinality(A) \in Nat /\ Cardinality(B) \in Nat
  BY <1>6, <1>7, FS_CardinalityType
<1>9. clamp_limit(limit) \in Nat
  BY DEF clamp_limit
<1>10. Cardinality({y \in R : y < x}) < clamp_limit(limit)
  BY <1>2, <1>3, <1>7, <1>8, <1>9
<1> QED
  BY <1>1, <1>2, <1>10 DEF Page

\* It holds selected ids that start reaches, of a table that is kept.
LEMMA PageHolds ==
  ASSUME NEW skip, NEW ids, NEW start, NEW limit, NEW id \in Page(skip, ids, start, limit)
  PROVE  ~skip /\ id \in ids /\ ~(id < start)
BY DEF Page, Reached

----------------------------------------------------------------------------
ScanType == [query: Queries, state: {"idle", "open", "closed"}, start: Nat, seen: SUBSET Nat,
             steady: SUBSET Nat, repeated: BOOLEAN]

\* Inductive: ids are handed out in order, the client has got nothing at start or
\* beyond, and of what get showed all along it has got everything before start.
ApiInv ==
  /\ next_id \in 1..(MaxRows + 1)
  /\ DOMAIN rows \subseteq 1..(next_id - 1)
  /\ scan \in ScanType
  /\ \A id \in scan.seen : id < scan.start
  /\ scan.state = "idle" => scan.start = 0
  /\ scan.state = "open" => /\ scan.steady \subseteq Showing(scan.query)
                            /\ \A id \in scan.steady : id < scan.start => id \in scan.seen
  /\ scan.state = "closed" => scan.steady \subseteq scan.seen
  /\ ~scan.repeated

\* What a step of the node keeps of it.
LEMMA NodeStepInv ==
  ASSUME ApiInv, Watched, next_id' \in 1..(MaxRows + 1), DOMAIN rows' \subseteq 1..(next_id' - 1)
  PROVE  ApiInv'
<1>1. CASE scan.state # "open" /\ UNCHANGED scan
  BY <1>1 DEF ApiInv
<1>2. CASE /\ scan.state = "open"
           /\ \E q \in {scan.query} : scan' = [scan EXCEPT !.steady = @ \cap Showing(q)']
  <2>1. PICK q \in {scan.query} : scan' = [scan EXCEPT !.steady = @ \cap Showing(q)']
    BY <1>2, Zenon
  <2>2. PICK s, S : s = scan /\ S = Showing(q)'
    OBVIOUS
  <2>3. scan' = [s EXCEPT !.steady = s.steady \cap S] /\ q = s.query /\ s \in ScanType
    BY <2>1, <2>2 DEF ApiInv
  <2>4. /\ scan' \in ScanType /\ scan'.steady = s.steady \cap S /\ scan'.query = q
        /\ scan'.state = s.state /\ scan'.start = s.start /\ scan'.seen = s.seen
        /\ scan'.repeated = s.repeated
    BY <2>3 DEF ScanType
  <2>5. Showing(scan.query)' = S
    BY <2>2, <2>4
  <2>6. s.state = "open"
    BY <1>2, <2>2
  <2> QED
    BY <2>2, <2>4, <2>5, <2>6 DEF ApiInv
<1> QED
  BY <1>1, <1>2 DEF Watched

\* What a call keeps of it.
LEMMA ReadPageInv ==
  ASSUME ApiInv, NEW limit \in Limits, ReadPage(limit)
  PROVE  ApiInv'
<1>1. PICK s, q, ids, skip : s = scan /\ q = scan.query /\ ids = Selected(q) /\ skip = Skipped(q)
  OBVIOUS
<1>2. s \in ScanType /\ q \in Queries /\ s.start \in Nat /\ s.state = "open"
  BY <1>1 DEF ApiInv, ScanType, ReadPage
<1>3. PICK page : page = Page(skip, ids, s.start, limit)
  OBVIOUS
<1>4. page = Listed(scan.query, scan.start, limit)
  BY <1>1, <1>2, <1>3, ListedPage
<1>5. limit \in Nat /\ MaxRows \in Nat
  BY ApiAssumption
<1>6. ids \subseteq 1..MaxRows /\ ids \in SUBSET Nat
  <2>1. ids \subseteq DOMAIN rows
    BY <1>1 DEF Selected
  <2>2. next_id \in 1..(MaxRows + 1) /\ DOMAIN rows \subseteq 1..(next_id - 1)
    BY DEF ApiInv
  <2>3. \A id \in 1..(next_id - 1) : id \in 1..MaxRows
    BY <1>5, <2>2
  <2> QED
    BY <1>5, <2>1, <2>2, <2>3
<1>7. \A id \in page : id \in ids /\ id \in Nat /\ s.start <= id
  <2> SUFFICES ASSUME NEW id \in page PROVE id \in ids /\ id \in Nat /\ s.start <= id
    OBVIOUS
  <2>1. id \in ids /\ ~(id < s.start)
    BY <1>3, PageHolds
  <2> QED
    BY <1>2, <1>6, <2>1
<1>8. \A id \in s.steady : ~skip /\ id \in ids
  <2>1. s.steady \subseteq Showing(q)
    BY <1>1, <1>2 DEF ApiInv
  <2> QED
    BY <1>1, <1>2, <2>1, ShowingSelected
<1>9. /\ \A id \in s.seen : id \in Nat /\ id < s.start
      /\ \A id \in s.steady : id \in Nat /\ (id < s.start => id \in s.seen)
      /\ s.repeated = FALSE
  BY <1>1, <1>2 DEF ApiInv, ScanType
<1>10. UNCHANGED <<config, rows, next_id>>
  BY DEF ReadPage, tableVars, dbVars
<1>11. next_id' \in 1..(MaxRows + 1) /\ DOMAIN rows' \subseteq 1..(next_id' - 1)
  BY <1>10 DEF ApiInv
<1>12. CASE page = {} /\ scan' = [scan EXCEPT !.state = "closed"]
  <2>1. s.steady \subseteq s.seen
    <3> SUFFICES ASSUME NEW id \in s.steady, ~(id < s.start) PROVE FALSE
      BY <1>9
    <3>1. skip = FALSE \/ page = {}
      BY <1>12
    <3>2. ~skip /\ id \in ids
      BY <1>8
    <3>3. Page(skip, ids, s.start, limit) = Page(FALSE, ids, s.start, limit)
      BY <3>2 DEF Page
    <3>4. Page(FALSE, ids, s.start, limit) # {}
      BY <1>2, <1>5, <1>6, <3>2, PageStarts, Zenon
    <3> QED
      BY <1>3, <1>12, <3>3, <3>4, Zenon
  <2>2. scan' = [s EXCEPT !.state = "closed"]
    BY <1>1, <1>12
  <2>3. /\ scan' \in ScanType /\ scan'.state = "closed" /\ scan'.seen = s.seen
        /\ scan'.steady = s.steady /\ scan'.start = s.start /\ scan'.repeated = s.repeated
    BY <1>2, <2>2, Zenon DEF ScanType
  <2> QED
    BY <1>9, <1>11, <2>1, <2>3 DEF ApiInv
<1>13. CASE /\ page # {}
            /\ scan' = [scan EXCEPT !.start = 1 + CHOOSE id \in page : \A x \in page : x <= id,
                                    !.seen = @ \cup page,
                                    !.repeated = @ \/ page \cap scan.seen # {}]
  <2>1. PICK m : m = CHOOSE id \in page : \A x \in page : x <= id
    OBVIOUS
  <2>2. m \in page /\ \A x \in page : x <= m
    <3>1. page \in SUBSET Nat /\ \A x \in page : x <= MaxRows
      BY <1>5, <1>6, <1>7
    <3>2. \E id \in page : \A x \in page : x <= id
      BY <1>5, <1>13, <3>1, GreatestOf
    <3> QED
      BY <2>1, <3>2, Zenon
  <2>3. page \cap s.seen = {}
    BY <1>2, <1>7, <1>9
  <2>4. scan' = [s EXCEPT !.start = 1 + m, !.seen = s.seen \cup page, !.repeated = FALSE]
    BY <1>1, <1>9, <1>13, <2>1, <2>3, Zenon
  <2>5. m \in Nat /\ s.start <= m /\ page \in SUBSET Nat
    BY <1>7, <2>2
  <2>6. /\ scan' \in ScanType /\ scan'.state = "open" /\ scan'.seen = s.seen \cup page
        /\ scan'.steady = s.steady /\ scan'.start = 1 + m /\ scan'.repeated = FALSE
        /\ scan'.query = q
    <3>1. PICK X : X = s.seen \cup page
      BY Zenon
    <3>2. X \in SUBSET Nat /\ 1 + m \in Nat /\ q = s.query
      <4>1. \A x \in X : x \in Nat
        BY <1>7, <1>9, <3>1
      <4> QED
        BY <1>1, <2>5, <4>1
    <3>3. scan' = [s EXCEPT !.start = 1 + m, !.seen = X, !.repeated = FALSE]
      BY <2>4, <3>1
    <3> QED
      BY <1>2, <3>1, <3>2, <3>3, Zenon DEF ScanType
  <2>7. \A id \in s.seen \cup page : id < 1 + m
    <3>1. \A id \in s.seen : id < 1 + m
      BY <1>2, <1>9, <2>5
    <3>2. \A id \in page : id < 1 + m
      BY <1>7, <2>2, <2>5
    <3> QED
      BY <3>1, <3>2
  <2>8. ASSUME NEW id \in s.steady, id < 1 + m
        PROVE  id \in s.seen \cup page
    <3>1. CASE id < s.start
      BY <1>9, <3>1
    <3>2. CASE ~(id < s.start)
      <4>1. ~skip /\ id \in ids /\ id <= m
        BY <1>8, <1>9, <2>5, <2>8
      <4>2. page = Page(FALSE, ids, s.start, limit)
        BY <1>3, <4>1 DEF Page
      <4>3. id \in Page(FALSE, ids, s.start, limit)
        BY <1>2, <1>5, <1>6, <2>2, <3>2, <4>1, <4>2, PageGapless, Zenon
      <4> QED
        BY <4>2, <4>3, Zenon
    <3> QED
      BY <3>1, <3>2
  <2>9. Showing(scan.query)' = Showing(q)
    BY <1>10, <2>6, Zenon DEF Showing, get, get_nft, get_htlc, get_contract, Found
  <2>10. s.steady \subseteq Showing(q)
    BY <1>1, <1>2 DEF ApiInv
  <2> QED
    BY <1>11, <2>6, <2>7, <2>8, <2>9, <2>10, Zenon DEF ApiInv
<1> QED
  BY <1>4, <1>12, <1>13 DEF ReadPage

\* The first request of a scan keeps the invariant.
LEMMA BeginScanInv ==
  ASSUME ApiInv, BeginScan
  PROVE  ApiInv'
<1>1. PICK s, S : s = scan /\ S = Showing(scan.query)
  OBVIOUS
<1>2. s \in ScanType /\ s.state = "idle" /\ s.start = 0
  BY <1>1 DEF ApiInv, BeginScan
<1>3. S \in SUBSET Nat /\ \A id \in S : ~(id < 0)
  BY <1>1 DEF Showing
<1>4. scan' = [s EXCEPT !.state = "open", !.steady = S]
  BY <1>1 DEF BeginScan
<1>5. /\ scan' \in ScanType /\ scan'.state = "open" /\ scan'.seen = s.seen /\ scan'.query = s.query
      /\ scan'.steady = S /\ scan'.start = 0 /\ scan'.repeated = s.repeated
  BY <1>2, <1>3, <1>4, Zenon DEF ScanType
<1>6. UNCHANGED <<config, rows, next_id>>
  BY DEF BeginScan, tableVars, dbVars
<1>7. Showing(scan.query)' = S
  BY <1>1, <1>5, <1>6 DEF Showing, get, get_nft, get_htlc, get_contract, Found
<1> QED
  BY <1>1, <1>2, <1>3, <1>5, <1>6, <1>7 DEF ApiInv

\* It holds of a fresh node with an empty table.
LEMMA ApiInitInv == Init => ApiInv
<1> SUFFICES ASSUME Init PROVE ApiInv
  OBVIOUS
<1>1. MaxRows \in Nat
  BY ApiAssumption
<1>2. rows = << >> /\ next_id = 1
  BY DEF Init
<1>3. /\ scan \in ScanType /\ scan.state = "idle" /\ scan.start = 0 /\ scan.seen = {}
      /\ ~scan.repeated
  <2>1. PICK R : R = {{}}
    BY Zenon
  <2>2. scan \in [query: Queries, state: {"idle"}, start: {0}, seen: R, steady: R, repeated: {FALSE}]
    BY <2>1, Zenon DEF Init
  <2>3. scan.seen \in R /\ \A x \in R : x = {} /\ x \in SUBSET Nat
    BY <2>1, <2>2
  <2>4. /\ scan.state = "idle" /\ scan.start = 0 /\ scan.seen = {} /\ ~scan.repeated
    BY <2>2, <2>3, Zenon
  <2>5. PICK N : N = SUBSET Nat
    BY Zenon
  <2>6. scan \in ScanType
    <3>1. \A x \in R : x \in N
      BY <2>3, <2>5
    <3>2. scan \in [query: Queries, state: {"idle", "open", "closed"}, start: Nat, seen: N,
                    steady: N, repeated: BOOLEAN]
      <4>1. PICK B : B = {FALSE}
        BY Zenon
      <4>2. scan \in [query: Queries, state: {"idle"}, start: {0}, seen: R, steady: R, repeated: B]
        BY <2>2, <4>1, Zenon
      <4>3. \A x \in B : x \in BOOLEAN
        BY <4>1, Zenon
      <4> QED
        BY <3>1, <4>2, <4>3
    <3> QED
      BY <2>5, <3>2, Zenon DEF ScanType
  <2> QED
    BY <2>4, <2>6
<1>4. DOMAIN rows = {}
  BY <1>2
<1> QED
  BY <1>1, <1>2, <1>3, <1>4 DEF ApiInv

\* Every read, and every change of the table between two reads, keeps it.
LEMMA ApiNextInv == ApiInv /\ [Next]_vars => ApiInv'
<1> SUFFICES ASSUME ApiInv, [Next]_vars PROVE ApiInv'
  OBVIOUS
<1>0. /\ next_id \in 1..(MaxRows + 1) /\ DOMAIN rows \subseteq 1..(next_id - 1)
      /\ MaxRows \in Nat
  BY ApiAssumption DEF ApiInv
<1>1. ASSUME NEW row, Insert(row) PROVE ApiInv'
  <2>1. /\ next_id' = next_id + 1 /\ next_id <= MaxRows
        /\ DOMAIN rows' = DOMAIN rows \cup {next_id} /\ Watched
    BY <1>1 DEF Insert
  <2>2. next_id' \in 1..(MaxRows + 1) /\ DOMAIN rows' \subseteq 1..(next_id' - 1)
    BY <1>0, <2>1
  <2> QED
    BY <2>1, <2>2, NodeStepInv
<1>2. ASSUME NEW id, NEW a, MoveToken(id, a) PROVE ApiInv'
  <2>1. next_id' = next_id /\ DOMAIN rows' = DOMAIN rows /\ Watched
    BY <1>2 DEF MoveToken
  <2> QED
    BY <1>0, <2>1, NodeStepInv
<1>3. ASSUME NEW id, BurnToken(id) PROVE ApiInv'
  <2>1. next_id' = next_id /\ DOMAIN rows' \subseteq DOMAIN rows /\ Watched
    BY <1>3 DEF BurnToken
  <2> QED
    BY <1>0, <2>1, NodeStepInv
<1>4. ASSUME NEW id, CloseHtlc(id) PROVE ApiInv'
  <2>1. next_id' = next_id /\ DOMAIN rows' = DOMAIN rows /\ Watched
    BY <1>4 DEF CloseHtlc
  <2> QED
    BY <1>0, <2>1, NodeStepInv
<1>5. ASSUME NEW p, Reconfigure(p) PROVE ApiInv'
  <2>1. next_id' = next_id /\ rows' = rows /\ Watched
    BY <1>5 DEF Reconfigure, tableVars
  <2> QED
    BY <1>0, <2>1, NodeStepInv
<1>6. ASSUME UNCHANGED vars PROVE ApiInv'
  <2>1. UNCHANGED <<config, rows, next_id, scan>>
    BY <1>6 DEF vars, tableVars, dbVars
  <2>2. Showing(scan.query)' = Showing(scan.query)
    BY <2>1 DEF Showing, get, get_nft, get_htlc, get_contract, Found
  <2> QED
    BY <2>1, <2>2 DEF ApiInv
<1> QED
  BY <1>1, <1>2, <1>3, <1>4, <1>5, <1>6, BeginScanInv, ReadPageInv, Zenon DEF Next, Read

\* A finished scan has shown every object that get would have shown, as one the
\* list selects, from its first call to its last: for tables of any size, any
\* limits and any sequence of changes.
THEOREM ScansAreComplete == Spec => []ScanComplete
<1>1. ApiInv => ScanComplete
  BY DEF ApiInv, ScanComplete
<1> QED
  BY <1>1, ApiInitInv, ApiNextInv, PTL DEF Spec

\* And shown none twice.
THEOREM ScansNeverRepeat == Spec => []ScanNoRepeat
<1>1. ApiInv => ScanNoRepeat
  BY DEF ApiInv, ScanNoRepeat
<1> QED
  BY <1>1, ApiInitInv, ApiNextInv, PTL DEF Spec

----------------------------------------------------------------------------
\* A remainder is found by taking multiples off.
LEMMA ModIs ==
  ASSUME NEW c \in Nat \ {0}, NEW q \in Int, NEW x \in 0..(c - 1)
  PROVE  (c * q + x) % c = x
<1> DEFINE y == c * q + x
<1>1. y \in Int
  BY Z3
<1>2. PICK r \in 0..(c - 1), p \in Int : y % c = r /\ y = c * p + r
  <2>1. y % c \in 0..(c - 1) /\ y \div c \in Int /\ y = c * (y \div c) + (y % c)
    BY <1>1, Z3
  <2> QED
    BY <2>1
<1>3. c * (q - p) = r - x
  BY <1>2, Z3
<1>4. r - x < c /\ x - r < c
  BY <1>2
<1>5. q - p = 0
  <2>1. ~(q - p >= 1)
    BY <1>2, <1>3, <1>4, Z3
  <2>2. ~(q - p <= -1)
    BY <1>2, <1>3, <1>4, Z3
  <2> QED
    BY <1>2, <2>1, <2>2
<1>6. r = x
  BY <1>2, <1>3, <1>5, Z3
<1> QED
  BY <1>2, <1>6

\* A walk of c steps from any home meets every slot, and none of them twice.
LEMMA WalkMeets ==
  ASSUME NEW c \in Nat \ {0}, NEW h \in Nat
  PROVE  /\ \A d \in Nat : ((h + d) % c) + 1 \in 1..c
         /\ \A i \in 1..c : \E d \in 0..(c - 1) : ((h + d) % c) + 1 = i
         /\ \A d, e \in 0..(c - 1) : ((h + d) % c) + 1 = ((h + e) % c) + 1 => d = e
<1>1. PICK r \in 0..(c - 1), q \in Nat : h = c * q + r
  <2>1. h % c \in 0..(c - 1) /\ h \div c \in Nat /\ h = c * (h \div c) + (h % c)
    BY Z3
  <2> QED
    BY <2>1, Zenon
<1>2. \A d \in Nat : ((h + d) % c) + 1 \in 1..c
  BY Z3
<1>3. \A d \in 0..(c - 1) : (h + d) % c = IF r + d < c THEN r + d ELSE r + d - c
  <2> SUFFICES ASSUME NEW d \in 0..(c - 1)
               PROVE  (h + d) % c = IF r + d < c THEN r + d ELSE r + d - c
    OBVIOUS
  <2>1. CASE r + d < c
    <3>1. h + d = c * q + (r + d) /\ r + d \in 0..(c - 1)
      BY <1>1, <2>1
    <3>2. (c * q + (r + d)) % c = r + d
      <4>1. q \in Int
        OBVIOUS
      <4> QED
        BY <3>1, <4>1, ModIs, Zenon
    <3> QED
      BY <2>1, <3>1, <3>2
  <2>2. CASE ~(r + d < c)
    <3>1. h + d = c * (q + 1) + (r + d - c) /\ r + d - c \in 0..(c - 1) /\ q + 1 \in Int
      <4>1. c * (q + 1) = c * q + c
        BY Z3
      <4> QED
        BY <1>1, <2>2, <4>1
    <3>2. (c * (q + 1) + (r + d - c)) % c = r + d - c
      BY <3>1, ModIs, Zenon
    <3> QED
      BY <2>2, <3>1, <3>2
  <2> QED
    BY <2>1, <2>2
<1>4. ASSUME NEW i \in 1..c
      PROVE  \E d \in 0..(c - 1) : ((h + d) % c) + 1 = i
  <2>1. CASE i - 1 >= r
    <3>1. i - 1 - r \in 0..(c - 1) /\ r + (i - 1 - r) < c /\ r + (i - 1 - r) = i - 1
      BY <2>1
    <3>2. (h + (i - 1 - r)) % c = i - 1
      BY <1>3, <3>1
    <3> QED
      BY <3>1, <3>2
  <2>2. CASE ~(i - 1 >= r)
    <3>1. /\ i - 1 - r + c \in 0..(c - 1) /\ ~(r + (i - 1 - r + c) < c)
          /\ r + (i - 1 - r + c) - c = i - 1
      BY <2>2
    <3>2. PICK d \in 0..(c - 1) : d = i - 1 - r + c
      BY <3>1
    <3>3. (h + d) % c = i - 1
      BY <1>3, <3>1, <3>2, Zenon
    <3>4. ((h + d) % c) + 1 = i
      BY <3>3
    <3> QED
      BY <3>4, Zenon
  <2> QED
    BY <2>1, <2>2
<1>5. ASSUME NEW d \in 0..(c - 1), NEW e \in 0..(c - 1), ((h + d) % c) + 1 = ((h + e) % c) + 1
      PROVE  d = e
  <2>1. (h + d) % c \in Int /\ (h + e) % c \in Int
    BY Z3
  <2>2. (h + d) % c = (h + e) % c
    BY <1>5, <2>1
  <2>3. (IF r + d < c THEN r + d ELSE r + d - c) = (IF r + e < c THEN r + e ELSE r + e - c)
    BY <1>3, <2>2
  <2> QED
    BY <1>1, <2>3
<1> QED
  BY <1>2, <1>4, <1>5

\* The double of a power of two is a power of two: rehash asks for one.
LEMMA DoublePower ==
  ASSUME NEW c \in Nat \ {0}, PowerOfTwo(c)
  PROVE  PowerOfTwo(c * 2)
<1> SUFFICES ASSUME NEW d \in 1..(c * 2), (c * 2) % d = 0, d # 1
             PROVE  d % 2 = 0
  BY DEF PowerOfTwo
<1> SUFFICES ASSUME d % 2 # 0 PROVE FALSE
  OBVIOUS
<1>1. PICK q \in Nat : c * 2 = d * q
  <2>1. (c * 2) \div d \in Nat /\ c * 2 = d * ((c * 2) \div d) + 0
    BY Z3
  <2> QED
    BY <2>1
<1>2. PICK m \in Nat : d = 2 * m + 1
  <2>1. d \div 2 \in Nat /\ d = 2 * (d \div 2) + 1
    OBVIOUS
  <2> QED
    BY <2>1
<1>3. PICK k \in Nat : q = 2 * k
  <2>1. q = 2 * (c - m * q)
    BY <1>1, <1>2, Z3
  <2>2. c - m * q \in Int
    BY <1>1, <1>2, Z3
  <2>3. c - m * q \in Nat
    BY <1>1, <2>1, <2>2
  <2> QED
    BY <2>1, <2>3
<1>4. c = d * k + 0
  BY <1>1, <1>3, Z3
<1>5. c % d = 0
  <2>1. d \in Nat \ {0} /\ k \in Int /\ 0 \in 0..(d - 1)
    OBVIOUS
  <2> QED
    BY <1>4, <2>1, ModIs, Zenon
<1>6. d \in 1..c
  <2>1. k >= 1
    BY <1>4, Z3
  <2> QED
    BY <1>4, <2>1, Z3
<1> QED
  BY <1>5, <1>6 DEF PowerOfTwo
----------------------------------------------------------------------------
\* The tables of the cache, and what the operations keep true of them.
Vals == [Symbols -> Nat]

Slots == {EmptySlot, TombSlot} \cup {FullSlot(k, v) : k \in Accounts, v \in Vals}

Full(t) == {i \in DOMAIN t.slots : t.slots[i].st = "full"}

Shape(t) ==
  /\ t \in [slots: Seq(Slots), size: Nat]
  /\ capacity(t) >= 4 /\ PowerOfTwo(capacity(t))

\* No empty slot lies between an entry and the home of its key.
NoGap(t) ==
  \A k \in Accounts : \A d \in Walk(t) :
    Holds(SlotAt(t, k, d), k) => \A e \in 0..(d - 1) : SlotAt(t, k, e).st # "empty"

Counted(t) == t.size = Cardinality(Full(t))

Table(t) == Shape(t) /\ NoGap(t) /\ Counted(t)

Room(t) == t.size < capacity(t)

\* Some slot holds the key, one at most does, one holds it with the value v.
HasKey(t, k) == \E i \in Full(t) : t.slots[i].key = k

One(t, k) == \A i, j \in Full(t) : t.slots[i].key = k /\ t.slots[j].key = k => i = j

Has(t, k, v) == \E i \in Full(t) : t.slots[i].key = k /\ t.slots[i].value = v

\* A slot is empty, a tombstone or full, and a full one holds a key and a value.
LEMMA SlotCases ==
  ASSUME NEW s \in Slots
  PROVE  /\ s.st \in {"empty", "tomb", "full"}
         /\ s.st = "full" => s.key \in Accounts /\ s.value \in Vals
  BY DEF Slots, EmptySlot, TombSlot, FullSlot

\* The slots of a table and the distances of a walk over them.
LEMMA Extent ==
  ASSUME NEW t, Shape(t)
  PROVE  /\ capacity(t) \in Nat \ {0} /\ DOMAIN t.slots = 1..capacity(t) /\ t.size \in Nat
         /\ Walk(t) = 0..(capacity(t) - 1)
         /\ \A i \in DOMAIN t.slots : t.slots[i] \in Slots
<1>1. capacity(t) \in Nat \ {0} /\ DOMAIN t.slots = 1..capacity(t) /\ t.size \in Nat
  BY DEF Shape, capacity
<1>2. Walk(t) = 0..(capacity(t) - 1)
  BY Zenon DEF Walk
<1>3. \A i \in DOMAIN t.slots : t.slots[i] \in Slots
  BY DEF Shape
<1> QED
  BY <1>1, <1>2, <1>3, Zenon

\* The walk of any key meets every slot once.
LEMMA Walking ==
  ASSUME IndexAssumption, NEW t, Shape(t), NEW k \in Accounts
  PROVE  /\ \A d \in Walk(t) : Probe(t, k, d) \in DOMAIN t.slots
         /\ \A i \in DOMAIN t.slots : \E d \in Walk(t) : Probe(t, k, d) = i
         /\ \A d, e \in Walk(t) : Probe(t, k, d) = Probe(t, k, e) => d = e
<1>4. PICK c : c = capacity(t)
  OBVIOUS
<1>5. PICK h : h = hash_of[k]
  OBVIOUS
<1>6. c \in Nat \ {0} /\ h \in Nat
  BY <1>4, <1>5, Extent DEF IndexAssumption
<1>7. \A d : Probe(t, k, d) = ((h + d) % c) + 1
  BY <1>4, <1>5, Zenon DEF Probe
<1>8. /\ \A d \in Nat : ((h + d) % c) + 1 \in 1..c
      /\ \A i \in 1..c : \E d \in 0..(c - 1) : ((h + d) % c) + 1 = i
      /\ \A d, e \in 0..(c - 1) : ((h + d) % c) + 1 = ((h + e) % c) + 1 => d = e
  BY <1>6, WalkMeets, Zenon
<1>9. Walk(t) = 0..(c - 1) /\ DOMAIN t.slots = 1..c
  BY <1>4, Extent, Zenon
<1>10. \A d \in Walk(t) : Probe(t, k, d) \in DOMAIN t.slots
  <2> SUFFICES ASSUME NEW d \in Walk(t) PROVE Probe(t, k, d) \in DOMAIN t.slots
    OBVIOUS
  <2>1. d \in Nat
    BY <1>6, <1>9
  <2>2. ((h + d) % c) + 1 \in 1..c
    BY <1>8, <2>1
  <2> QED
    BY <1>7, <1>9, <2>2, Zenon
<1>11. \A i \in DOMAIN t.slots : \E d \in Walk(t) : Probe(t, k, d) = i
  BY <1>7, <1>8, <1>9, Zenon
<1>12. \A d, e \in Walk(t) : Probe(t, k, d) = Probe(t, k, e) => d = e
  <2> SUFFICES ASSUME NEW d \in Walk(t), NEW e \in Walk(t), Probe(t, k, d) = Probe(t, k, e)
               PROVE  d = e
    OBVIOUS
  <2>1. ((h + d) % c) + 1 = ((h + e) % c) + 1
    BY <1>7, Zenon
  <2> QED
    BY <1>8, <1>9, <2>1, Zenon
<1> QED
  BY <1>10, <1>11, <1>12, Zenon

\* A walk that may stop somewhere stops at the nearest such slot.
LEMMA StopsFirst ==
  ASSUME NEW S \in SUBSET Nat, S # {}
  PROVE  \E d \in S : FirstStop(S) = {d} /\ \A e \in S : d <= e
<1>1. PICK d \in S : \A e \in S : d <= e
  BY LeastOf
<1>2. d \in FirstStop(S)
  BY <1>1 DEF FirstStop
<1>3. \A x \in FirstStop(S) : x = d
  BY <1>1 DEF FirstStop
<1>4. FirstStop(S) = {d}
  BY <1>2, <1>3, Zenon
<1> QED
  BY <1>1, <1>4

\* A lookup finds a key exactly when some slot holds it.
LEMMA LookupFinds ==
  ASSUME IndexAssumption, NEW t, Shape(t), NoGap(t), NEW k \in Accounts
  PROVE  /\ Present(t, k) <=> HasKey(t, k)
         /\ Present(t, k) => \E d \in Walk(t) : Lookup(t, k) = {d} /\ Holds(SlotAt(t, k, d), k)
<1> DEFINE S == {w \in Walk(t) : SlotAt(t, k, w).st = "empty" \/ Holds(SlotAt(t, k, w), k)}
<1>1. Lookup(t, k) = {d \in FirstStop(S) : Holds(SlotAt(t, k, d), k)}
  BY Zenon DEF Lookup
<1>2. S \in SUBSET Nat /\ S \subseteq Walk(t)
  BY Extent
<1>3. ASSUME Present(t, k)
      PROVE  \E d \in Walk(t) : Lookup(t, k) = {d} /\ Holds(SlotAt(t, k, d), k)
  <2>1. S # {}
    BY <1>1, <1>3 DEF Present, FirstStop
  <2>2. PICK d \in S : FirstStop(S) = {d} /\ \A e \in S : d <= e
    BY <1>2, <2>1, StopsFirst, Zenon
  <2>3. Lookup(t, k) = {d} /\ Holds(SlotAt(t, k, d), k)
    BY <1>1, <1>3, <2>2, Zenon DEF Present
  <2> QED
    BY <1>2, <2>3
<1>4. ASSUME Present(t, k)
      PROVE  HasKey(t, k)
  <2>1. PICK d \in Walk(t) : Holds(SlotAt(t, k, d), k)
    BY <1>3, <1>4
  <2>2. Probe(t, k, d) \in DOMAIN t.slots
    BY Walking, Zenon
  <2> QED
    BY <2>1, <2>2 DEF HasKey, Full, Holds, SlotAt
<1>5. ASSUME HasKey(t, k)
      PROVE  Present(t, k)
  <2>1. PICK i \in DOMAIN t.slots : Holds(t.slots[i], k)
    BY <1>5 DEF HasKey, Full, Holds
  <2>2. PICK d \in Walk(t) : Probe(t, k, d) = i
    BY Walking, Zenon
  <2>3. Holds(SlotAt(t, k, d), k)
    BY <2>1, <2>2 DEF SlotAt
  <2>4. PICK e \in S : FirstStop(S) = {e} /\ \A x \in S : e <= x
    <3>1. S # {}
      BY <2>3
    <3> QED
      BY <1>2, <3>1, StopsFirst, Zenon
  <2>5. Holds(SlotAt(t, k, e), k)
    <3> SUFFICES ASSUME ~Holds(SlotAt(t, k, e), k) PROVE FALSE
      OBVIOUS
    <3>1. SlotAt(t, k, e).st = "empty" /\ e # d /\ e <= d
      BY <2>3, <2>4
    <3>2. e \in 0..(d - 1)
      <4>1. d \in Nat /\ e \in Nat
        BY <1>2, Extent
      <4> QED
        BY <3>1, <4>1
    <3> QED
      BY <2>3, <3>1, <3>2 DEF NoGap
  <2> QED
    BY <1>1, <2>4, <2>5, Zenon DEF Present
<1> QED
  BY <1>3, <1>4, <1>5
----------------------------------------------------------------------------
\* p is t with slot i overwritten and n entries counted.
Wrote(t, p, i, s, n) == p = [slots |-> [t.slots EXCEPT ![i] = s], size |-> n]

Rewritten(t, p, i, s, n) ==
  /\ Shape(p) /\ capacity(p) = capacity(t) /\ p.size = n
  /\ DOMAIN p.slots = DOMAIN t.slots /\ Walk(p) = Walk(t)
  /\ \A j \in DOMAIN t.slots : p.slots[j] = IF j = i THEN s ELSE t.slots[j]
  /\ \A k, d : Probe(p, k, d) = Probe(t, k, d)

\* Overwriting one slot leaves the table its shape and every other slot.
LEMMA SlotWritten ==
  ASSUME IndexAssumption, NEW t, Shape(t), NEW i \in DOMAIN t.slots, NEW s \in Slots,
         NEW n \in Nat, NEW p, Wrote(t, p, i, s, n)
  PROVE  Rewritten(t, p, i, s, n)
<1>1. p.slots = [t.slots EXCEPT ![i] = s] /\ p.size = n
  BY DEF Wrote
<1>2. t.slots \in Seq(Slots)
  BY DEF Shape
<1>3. PICK q : q = t.slots
  OBVIOUS
<1>4. /\ [q EXCEPT ![i] = s] \in Seq(Slots) /\ Len([q EXCEPT ![i] = s]) = Len(q)
      /\ \A j \in DOMAIN q : [q EXCEPT ![i] = s][j] = IF j = i THEN s ELSE q[j]
      /\ DOMAIN [q EXCEPT ![i] = s] = DOMAIN q
  BY <1>2, <1>3
<1>5. /\ p.slots \in Seq(Slots) /\ DOMAIN p.slots = DOMAIN t.slots
      /\ \A j \in DOMAIN t.slots : p.slots[j] = IF j = i THEN s ELSE t.slots[j]
  BY <1>1, <1>3, <1>4, Zenon
<1>6. capacity(p) = capacity(t)
  BY <1>1, <1>3, <1>4, Zenon DEF capacity
<1>7. p \in [slots: Seq(Slots), size: Nat]
  BY <1>1, <1>5, Zenon DEF Wrote
<1>8. Shape(p)
  BY <1>6, <1>7 DEF Shape
<1>9. Walk(p) = Walk(t) /\ \A k, d : Probe(p, k, d) = Probe(t, k, d)
  BY <1>6, Zenon DEF Walk, Probe
<1> QED
  BY <1>1, <1>5, <1>6, <1>8, <1>9, Zenon DEF Rewritten

\* The full slots of a table are finitely many, at most as many as it has slots.
LEMMA FullFinite ==
  ASSUME IndexAssumption, NEW t, Shape(t)
  PROVE  IsFiniteSet(Full(t)) /\ Cardinality(Full(t)) \in Nat /\ Cardinality(Full(t)) <= capacity(t)
<1>1. capacity(t) \in Nat /\ DOMAIN t.slots = 1..capacity(t)
  BY DEF Shape, capacity
<1>2. IsFiniteSet(1..capacity(t)) /\ Cardinality(1..capacity(t)) = capacity(t)
  <2>1. 1 \in Int /\ capacity(t) \in Int
    BY <1>1
  <2>2. PICK c : c = capacity(t)
    OBVIOUS
  <2>3. IsFiniteSet(1..c) /\ Cardinality(1..c) = IF 1 > c THEN 0 ELSE c - 1 + 1
    BY <2>1, <2>2, FS_Interval, Zenon
  <2> QED
    BY <1>1, <2>2, <2>3
<1>3. Full(t) \subseteq 1..capacity(t)
  BY <1>1 DEF Full
<1> QED
  BY <1>2, <1>3, FS_Subset, FS_CardinalityType

\* Where an insert into a table with room writes: at a slot that is free or holds
\* the key, and all the slots before it are full.
LEMMA PlaceWrites ==
  ASSUME IndexAssumption, NEW t, Table(t), Room(t), NEW k \in Accounts, NEW v \in Vals
  PROVE  \E d \in Walk(t) :
           /\ Wrote(t, Place(t, k, v), Probe(t, k, d), FullSlot(k, v),
                    IF Holds(SlotAt(t, k, d), k) THEN t.size ELSE t.size + 1)
           /\ SlotAt(t, k, d).st # "full" \/ Holds(SlotAt(t, k, d), k)
           /\ \A e \in 0..(d - 1) : SlotAt(t, k, e).st = "full" /\ ~Holds(SlotAt(t, k, e), k)
<1> DEFINE S == {w \in Walk(t) : SlotAt(t, k, w).st # "full" \/ Holds(SlotAt(t, k, w), k)}
<1>1. PICK i \in DOMAIN t.slots : t.slots[i].st # "full"
  <2> SUFFICES ASSUME \A i \in DOMAIN t.slots : t.slots[i].st = "full" PROVE FALSE
    BY Zenon
  <2>1. Full(t) = 1..capacity(t)
    BY Extent, Zenon DEF Full, Table
  <2>2. capacity(t) \in Nat /\ capacity(t) > 0
    BY Extent DEF Table
  <2>3. PICK c : c = capacity(t)
    OBVIOUS
  <2>4. Cardinality(1..c) = IF 1 > c THEN 0 ELSE c - 1 + 1
    <3>1. 1 \in Int /\ c \in Int
      BY <2>2, <2>3
    <3> QED
      BY <3>1, FS_Interval
  <2>5. Cardinality(Full(t)) = capacity(t)
    BY <2>1, <2>2, <2>3, <2>4
  <2> QED
    BY <2>2, <2>5 DEF Table, Counted, Room
<1>2. S # {}
  <2>1. PICK w \in Walk(t) : Probe(t, k, w) = i
    BY Walking, Zenon DEF Table
  <2> QED
    BY <1>1, <2>1 DEF SlotAt
<1>3. S \in SUBSET Nat /\ S \subseteq Walk(t)
  BY Extent DEF Table
<1>4. PICK d \in S : FirstStop(S) = {d} /\ \A e \in S : d <= e
  BY <1>2, <1>3, StopsFirst, Zenon
<1>5. (CHOOSE x \in FirstStop(S) : TRUE) = d
  BY <1>4
<1>6. Wrote(t, Place(t, k, v), Probe(t, k, d), FullSlot(k, v),
            IF Holds(SlotAt(t, k, d), k) THEN t.size ELSE t.size + 1)
  BY <1>5, Zenon DEF Place, Wrote
<1>7. \A e \in 0..(d - 1) : SlotAt(t, k, e).st = "full" /\ ~Holds(SlotAt(t, k, e), k)
  <2> SUFFICES ASSUME NEW e \in 0..(d - 1)
               PROVE  SlotAt(t, k, e).st = "full" /\ ~Holds(SlotAt(t, k, e), k)
    BY Zenon
  <2>1. capacity(t) \in Nat /\ Walk(t) = 0..(capacity(t) - 1) /\ d \in Walk(t)
    BY <1>3, Extent, Zenon DEF Table
  <2>2. e \in Walk(t) /\ ~(d <= e)
    BY <2>1
  <2> QED
    BY <1>4, <2>2, Zenon
<1> QED
  BY <1>3, <1>4, <1>6, <1>7, Zenon

NoTombs(t) == \A j \in DOMAIN t.slots : t.slots[j].st # "tomb"

Placed(t, p, k, v) ==
  /\ Table(p) /\ capacity(p) = capacity(t) /\ p.size <= t.size + 1
  /\ \A a, b : Has(p, a, b) => (a = k /\ b = v) \/ Has(t, a, b)
  /\ \A a : a # k /\ One(t, a) => One(p, a)
  /\ ~HasKey(t, k) => One(p, k) /\ \A b : Has(p, k, b) => b = v
  /\ NoTombs(t) /\ One(t, k) => NoTombs(p) /\ One(p, k)

\* What an insert into a table with room makes of it: a table of the same capacity,
\* whose entries are those of before and the one inserted.  The key gets a second
\* slot only behind a tombstone.
LEMMA PlaceKeeps ==
  ASSUME IndexAssumption, NEW t, Table(t), Room(t), NEW k \in Accounts, NEW v \in Vals,
         NEW p, p = Place(t, k, v)
  PROVE  Placed(t, p, k, v)
<1>0. Shape(t) /\ NoGap(t) /\ Counted(t)
  BY Zenon DEF Table
<1>1. PICK d \in Walk(t) :
        /\ Wrote(t, p, Probe(t, k, d), FullSlot(k, v),
                 IF Holds(SlotAt(t, k, d), k) THEN t.size ELSE t.size + 1)
        /\ SlotAt(t, k, d).st # "full" \/ Holds(SlotAt(t, k, d), k)
        /\ \A e \in 0..(d - 1) : SlotAt(t, k, e).st = "full" /\ ~Holds(SlotAt(t, k, e), k)
  BY PlaceWrites
<1>2. PICK i : i = Probe(t, k, d)
  OBVIOUS
<1>3. PICK s : s = FullSlot(k, v)
  OBVIOUS
<1>4. PICK n : n = IF Holds(SlotAt(t, k, d), k) THEN t.size ELSE t.size + 1
  OBVIOUS
<1>5. i \in DOMAIN t.slots
  BY <1>0, <1>2, Walking, Zenon
<1>6. s \in Slots /\ s.st = "full" /\ s.key = k /\ s.value = v
  BY <1>3 DEF Slots, FullSlot
<1>7. n \in Nat /\ t.size \in Nat /\ n <= t.size + 1
  BY <1>0, <1>4 DEF Shape
<1>8. Wrote(t, p, i, s, n)
  BY <1>1, <1>2, <1>3, <1>4
<1>9. /\ Shape(p) /\ capacity(p) = capacity(t) /\ p.size = n
      /\ DOMAIN p.slots = DOMAIN t.slots /\ Walk(p) = Walk(t)
      /\ \A j \in DOMAIN t.slots : p.slots[j] = IF j = i THEN s ELSE t.slots[j]
      /\ \A a, e : Probe(p, a, e) = Probe(t, a, e)
  <2>1. Rewritten(t, p, i, s, n)
    BY <1>0, <1>5, <1>6, <1>7, <1>8, SlotWritten, Zenon
  <2> QED
    BY <2>1, Zenon DEF Rewritten
<1>10. SlotAt(t, k, d) = t.slots[i] /\ (t.slots[i].st # "full" \/ Holds(t.slots[i], k))
  BY <1>1, <1>2, Zenon DEF SlotAt
<1>11. Full(p) = Full(t) \cup {i}
  BY <1>5, <1>6, <1>9, Zenon DEF Full
<1>12. Counted(p)
  <2>1. IsFiniteSet(Full(t)) /\ Cardinality(Full(t)) \in Nat
    BY <1>0, FullFinite
  <2>2. Cardinality(Full(t) \cup {i}) = IF i \in Full(t) THEN Cardinality(Full(t)) ELSE Cardinality(Full(t)) + 1
    BY <2>1, FS_AddElement, Zenon
  <2>3. Holds(t.slots[i], k) <=> i \in Full(t)
    BY <1>5, <1>10 DEF Full, Holds
  <2>4. n = Cardinality(Full(t) \cup {i})
    BY <1>0, <1>4, <1>10, <2>2, <2>3, Zenon DEF Counted
  <2> QED
    BY <1>9, <1>11, <2>4, Zenon DEF Counted
<1>13. NoGap(p)
  <2> SUFFICES ASSUME NEW a \in Accounts, NEW x \in Walk(p), Holds(SlotAt(p, a, x), a),
                      NEW e \in 0..(x - 1)
               PROVE  SlotAt(p, a, e).st # "empty"
    BY Zenon DEF NoGap
  <2>1. capacity(t) \in Nat /\ Walk(t) = 0..(capacity(t) - 1)
    BY <1>0, Extent, Zenon
  <2>2. x \in Walk(t) /\ e \in Walk(t) /\ x \in Nat
    BY <1>9, <2>1
  <2>3. Probe(t, a, x) \in DOMAIN t.slots /\ Probe(t, a, e) \in DOMAIN t.slots
    BY <1>0, <2>2, Walking, Zenon
  <2>4. /\ SlotAt(p, a, x) = IF Probe(t, a, x) = i THEN s ELSE SlotAt(t, a, x)
        /\ SlotAt(p, a, e) = IF Probe(t, a, e) = i THEN s ELSE SlotAt(t, a, e)
    BY <1>9, <2>3, Zenon DEF SlotAt
  <2>5. CASE Probe(t, a, x) = i
    <3>1. a = k
      BY <1>6, <2>4, <2>5 DEF Holds
    <3>2. x = d
      <4>1. Probe(t, k, x) = Probe(t, k, d)
        BY <1>2, <2>5, <3>1, Zenon
      <4> QED
        BY <1>0, <2>2, <4>1, Walking, Zenon
    <3>3. SlotAt(t, a, e).st = "full"
      BY <1>1, <3>1, <3>2, Zenon
    <3> QED
      BY <1>6, <2>4, <3>3, Zenon
  <2>6. CASE Probe(t, a, x) # i
    <3>1. SlotAt(t, a, e).st # "empty"
      BY <1>0, <2>2, <2>4, <2>6, Zenon DEF NoGap
    <3> QED
      BY <1>6, <2>4, <3>1, Zenon
  <2> QED
    BY <2>5, <2>6
<1>14. \A j \in Full(p) : (j = i /\ p.slots[j] = s) \/ (j # i /\ j \in Full(t) /\ p.slots[j] = t.slots[j])
  BY <1>5, <1>9, Zenon DEF Full
<1>15. \A a, b : Has(p, a, b) => (a = k /\ b = v) \/ Has(t, a, b)
  BY <1>6, <1>14, Zenon DEF Has
<1>16. \A a : a # k /\ One(t, a) => One(p, a)
  BY <1>6, <1>14 DEF One
<1>17. ~HasKey(t, k) => One(p, k) /\ \A b : Has(p, k, b) => b = v
  BY <1>6, <1>14 DEF One, Has, HasKey
<1>18. ASSUME NoTombs(t), One(t, k)
       PROVE  NoTombs(p) /\ One(p, k)
  <2>1. NoTombs(p)
    BY <1>6, <1>9, <1>18, Zenon DEF NoTombs
  <2>2. ASSUME NEW j \in Full(t), t.slots[j].key = k
        PROVE  j = i
    <3>1. j \in DOMAIN t.slots /\ Holds(t.slots[j], k)
      BY <2>2 DEF Full, Holds
    <3>2. PICK x \in Walk(t) : Probe(t, k, x) = j
      BY <1>0, <3>1, Walking, Zenon
    <3>3. Holds(SlotAt(t, k, x), k)
      BY <3>1, <3>2, Zenon DEF SlotAt
    <3>4. capacity(t) \in Nat /\ Walk(t) = 0..(capacity(t) - 1)
      BY <1>0, Extent, Zenon
    <3>5. ~(x < d)
      <4> SUFFICES ASSUME x < d PROVE FALSE
        OBVIOUS
      <4>1. x \in 0..(d - 1)
        BY <3>4
      <4> QED
        BY <1>1, <3>3, <4>1, Zenon
    <3>6. ~(d < x)
      <4> SUFFICES ASSUME d < x PROVE FALSE
        OBVIOUS
      <4>1. d \in 0..(x - 1)
        BY <3>4
      <4>2. t.slots[i].st # "empty"
        BY <1>0, <1>10, <3>3, <4>1, Zenon DEF NoGap
      <4>3. t.slots[i].st = "full"
        <5>1. t.slots[i] \in Slots
          BY <1>0, <1>5, Extent, Zenon
        <5> QED
          BY <1>5, <1>18, <4>2, <5>1, SlotCases, Zenon DEF NoTombs
      <4>4. i \in Full(t) /\ t.slots[i].key = k
        BY <1>5, <1>10, <4>3, Zenon DEF Full, Holds
      <4>5. i = j
        BY <1>18, <2>2, <4>4 DEF One
      <4>6. x = d
        BY <1>0, <1>2, <3>2, <4>5, Walking, Zenon
      <4> QED
        BY <3>4, <4>6
    <3>7. x = d
      BY <3>4, <3>5, <3>6
    <3> QED
      BY <1>2, <3>2, <3>7, Zenon
  <2>3. One(p, k)
    BY <1>14, <2>2 DEF One
  <2> QED
    BY <2>1, <2>3, Zenon
<1>19. Table(p)
  BY <1>9, <1>12, <1>13 DEF Table
<1> QED
  BY <1>7, <1>9, <1>15, <1>16, <1>17, <1>18, <1>19, Zenon DEF Placed

Erased(t, p, k) ==
  /\ Table(p) /\ Room(p)
  /\ \A a, b : Has(p, a, b) => Has(t, a, b)
  /\ \A a : One(t, a) => One(p, a)
  /\ One(t, k) => ~HasKey(p, k)

\* What an erase makes of a table: one entry of the key less, if it had any.
LEMMA EraseKeeps ==
  ASSUME IndexAssumption, NEW t, Table(t), Room(t), NEW k \in Accounts, NEW p, p = erase(t, k)
  PROVE  Erased(t, p, k)
<1>0. Shape(t) /\ NoGap(t) /\ Counted(t)
  BY DEF Table
<1>1. CASE ~Present(t, k)
  <2>1. p = t
    BY <1>1 DEF erase
  <2>2. ~HasKey(t, k)
    BY <1>0, <1>1, LookupFinds
  <2> QED
    BY <2>1, <2>2, Zenon DEF Erased
<1>2. CASE Present(t, k)
  <2>1. PICK d \in Walk(t) : Lookup(t, k) = {d} /\ Holds(SlotAt(t, k, d), k)
    BY <1>0, <1>2, LookupFinds
  <2>2. (CHOOSE x \in Lookup(t, k) : TRUE) = d
    BY <2>1
  <2>3. PICK i : i = Probe(t, k, d)
    OBVIOUS
  <2>4. PICK s : s = TombSlot
    OBVIOUS
  <2>5. PICK n : n = t.size - 1
    OBVIOUS
  <2>6. Wrote(t, p, i, s, n)
    BY <1>2, <2>2, <2>3, <2>4, <2>5, Zenon DEF erase, Wrote, ErasedSlot
  <2>7. i \in DOMAIN t.slots /\ i \in Full(t) /\ t.slots[i].key = k
    <3>1. i \in DOMAIN t.slots
      BY <1>0, <2>3, Walking, Zenon
    <3> QED
      BY <2>1, <2>3, <3>1 DEF Full, Holds, SlotAt
  <2>8. s \in Slots /\ s.st = "tomb"
    BY <2>4 DEF Slots, TombSlot
  <2>9. /\ IsFiniteSet(Full(t)) /\ Cardinality(Full(t)) \in Nat
        /\ Cardinality(Full(t) \ {i}) = Cardinality(Full(t)) - 1
        /\ Cardinality(Full(t) \ {i}) \in Nat
    <3>1. IsFiniteSet(Full(t)) /\ Cardinality(Full(t)) \in Nat
      BY <1>0, FullFinite, Zenon
    <3>2. /\ IsFiniteSet(Full(t) \ {i})
          /\ Cardinality(Full(t) \ {i}) = IF i \in Full(t) THEN Cardinality(Full(t)) - 1 ELSE Cardinality(Full(t))
      BY <3>1, FS_RemoveElement, Zenon
    <3> QED
      BY <2>7, <3>1, <3>2, FS_CardinalityType, Zenon
  <2>10. n \in Nat /\ n = Cardinality(Full(t) \ {i}) /\ n < t.size
    BY <1>0, <2>5, <2>9 DEF Counted
  <2>11. /\ Shape(p) /\ capacity(p) = capacity(t) /\ p.size = n
         /\ DOMAIN p.slots = DOMAIN t.slots /\ Walk(p) = Walk(t)
         /\ \A j \in DOMAIN t.slots : p.slots[j] = IF j = i THEN s ELSE t.slots[j]
         /\ \A a, e : Probe(p, a, e) = Probe(t, a, e)
    <3>1. Rewritten(t, p, i, s, n)
      BY <1>0, <2>6, <2>7, <2>8, <2>10, SlotWritten, Zenon
    <3> QED
      BY <3>1, Zenon DEF Rewritten
  <2>12. Full(p) = Full(t) \ {i}
    BY <2>7, <2>8, <2>11, Zenon DEF Full
  <2>13. Counted(p) /\ Room(p)
    <3>1. t.size \in Nat /\ capacity(t) \in Nat
      BY <1>0, Extent, Zenon DEF Shape
    <3> QED
      BY <2>10, <2>11, <2>12, <3>1 DEF Counted, Room
  <2>14. NoGap(p)
    <3> SUFFICES ASSUME NEW a \in Accounts, NEW x \in Walk(p), Holds(SlotAt(p, a, x), a),
                        NEW e \in 0..(x - 1)
                 PROVE  SlotAt(p, a, e).st # "empty"
      BY Zenon DEF NoGap
    <3>1. capacity(t) \in Nat /\ Walk(t) = 0..(capacity(t) - 1)
      BY <1>0, Extent, Zenon
    <3>2. x \in Walk(t) /\ e \in Walk(t) /\ x \in Nat
      BY <2>11, <3>1
    <3>3. Probe(t, a, x) \in DOMAIN t.slots /\ Probe(t, a, e) \in DOMAIN t.slots
      BY <1>0, <3>2, Walking, Zenon
    <3>4. /\ SlotAt(p, a, x) = IF Probe(t, a, x) = i THEN s ELSE SlotAt(t, a, x)
          /\ SlotAt(p, a, e) = IF Probe(t, a, e) = i THEN s ELSE SlotAt(t, a, e)
      BY <2>11, <3>3, Zenon DEF SlotAt
    <3>5. Holds(SlotAt(t, a, x), a)
      BY <2>8, <3>4, Zenon DEF Holds
    <3>6. SlotAt(t, a, e).st # "empty"
      BY <1>0, <3>2, <3>5, Zenon DEF NoGap
    <3> QED
      BY <2>8, <3>4, <3>6, Zenon
  <2>15. \A j \in Full(p) : j # i /\ j \in Full(t) /\ p.slots[j] = t.slots[j]
    BY <2>11, <2>12, Zenon DEF Full
  <2>16. /\ \A a, b : Has(p, a, b) => Has(t, a, b)
         /\ \A a : One(t, a) => One(p, a)
         /\ One(t, k) => ~HasKey(p, k)
    BY <2>7, <2>15 DEF Has, One, HasKey
  <2> QED
    BY <2>11, <2>13, <2>14, <2>16, Zenon DEF Table, Erased
<1> QED
  BY <1>1, <1>2

\* A table of empty slots only.
LEMMA AllEmpty ==
  ASSUME IndexAssumption, NEW c \in Nat, c >= 4, PowerOfTwo(c),
         NEW t, t = [slots |-> [i \in 1..c |-> EmptySlot], size |-> 0]
  PROVE  /\ Table(t) /\ Room(t) /\ capacity(t) = c /\ t.size = 0 /\ Full(t) = {}
         /\ NoTombs(t)
         /\ \A k : ~HasKey(t, k)
<1>1. PICK q : q = [i \in 1..c |-> EmptySlot]
  BY Zenon
<1>2. EmptySlot \in Slots /\ EmptySlot.st = "empty"
  BY DEF Slots, EmptySlot
<1>3. q \in Seq(Slots) /\ Len(q) = c /\ DOMAIN q = 1..c
  BY <1>1, <1>2
<1>4. \A i \in 1..c : q[i].st = "empty"
  BY <1>1, <1>2, Zenon
<1>5. t.slots = q /\ t.size = 0 /\ t \in [slots: Seq(Slots), size: Nat]
  BY <1>1, <1>3, Zenon
<1>6. Shape(t) /\ capacity(t) = c /\ Room(t)
  BY <1>3, <1>5 DEF Shape, capacity, Room
<1>7. Full(t) = {}
  BY <1>3, <1>4, <1>5 DEF Full
<1>8. Counted(t)
  BY <1>5, <1>7, FS_EmptySet, Zenon DEF Counted
<1>9. NoGap(t)
  <2>1. ASSUME NEW k \in Accounts, NEW d \in Walk(t)
        PROVE  ~Holds(SlotAt(t, k, d), k)
    <3>1. Probe(t, k, d) \in DOMAIN t.slots
      BY <1>6, Walking, Zenon
    <3> QED
      BY <1>7, <3>1 DEF Holds, SlotAt, Full
  <2> QED
    BY <2>1, Zenon DEF NoGap
<1>10. NoTombs(t)
  BY <1>3, <1>4, <1>5, Zenon DEF NoTombs
<1> QED
  BY <1>5, <1>6, <1>7, <1>8, <1>9, <1>10, Zenon DEF Table, HasKey

\* clear leaves such a table, of the capacity there was.
LEMMA ClearKeeps ==
  ASSUME IndexAssumption, NEW t, Shape(t), NEW p, p = clear(t)
  PROVE  Table(p) /\ Room(p) /\ Full(p) = {} /\ \A k : ~HasKey(p, k)
<1>1. PICK c : c = capacity(t)
  OBVIOUS
<1>2. c \in Nat /\ c >= 4 /\ PowerOfTwo(c) /\ DOMAIN t.slots = 1..c
  BY <1>1 DEF Shape, capacity
<1>3. p = [slots |-> [i \in 1..c |-> EmptySlot], size |-> 0]
  BY <1>2, Zenon DEF clear
<1> QED
  BY <1>2, <1>3, AllEmpty, Zenon

\* So does FreshTable of a power of two.
LEMMA FreshIs ==
  ASSUME IndexAssumption, NEW n \in Nat, n >= 4, PowerOfTwo(n), NEW t, t = FreshTable(n)
  PROVE  /\ Table(t) /\ Room(t) /\ capacity(t) >= n /\ t.size = 0 /\ Full(t) = {}
         /\ NoTombs(t)
         /\ \A k : ~HasKey(t, k)
<1>1. PICK c : c = CHOOSE x \in n..(2 * n - 1) : PowerOfTwo(x)
  OBVIOUS
<1>2. \E x \in n..(2 * n - 1) : PowerOfTwo(x)
  BY n \in n..(2 * n - 1)
<1>3. c \in n..(2 * n - 1) /\ PowerOfTwo(c)
  BY <1>1, <1>2, Zenon
<1>4. c \in Nat /\ c >= 4 /\ c >= n
  BY <1>3
<1>5. t = [slots |-> [i \in 1..c |-> EmptySlot], size |-> 0]
  BY <1>1, Zenon DEF FreshTable
<1> QED
  BY <1>3, <1>4, <1>5, AllEmpty, Zenon

\* rehash: the table `prev` after the old slot i went in, and the tables after the
\* first slots up to m.
MovedIn(t, prev, i) ==
  IF t.slots[i].st = "full" THEN Place(prev, t.slots[i].key, t.slots[i].value) ELSE prev

MovesTo(t, n, m, g) ==
  g = [i \in 0..m |-> IF i = 0 THEN FreshTable(n) ELSE MovedIn(t, g[i - 1], i)]

\* The loop of rehash over any number of slots has a result.
LEMMA MovesExist ==
  ASSUME NEW t, NEW n, NEW c \in Nat
  PROVE  \E g : MovesTo(t, n, c, g)
<1> DEFINE Bad == {m \in Nat : ~\E g : MovesTo(t, n, m, g)}
<1> SUFFICES ASSUME Bad # {} PROVE FALSE
  OBVIOUS
<1>1. PICK m \in Bad : \A j \in Bad : m <= j
  <2>1. Bad \in SUBSET Nat
    OBVIOUS
  <2> QED
    BY <2>1, LeastOf, Zenon
<1>2. m \in Nat /\ ~\E g : MovesTo(t, n, m, g)
  OBVIOUS
<1>3. CASE m = 0
  <2>1. PICK F : F = FreshTable(n)
    OBVIOUS
  <2>2. PICK g : g = [i \in 0..0 |-> F]
    BY Zenon
  <2>3. g = [i \in 0..0 |-> IF i = 0 THEN F ELSE MovedIn(t, g[i - 1], i)]
    BY <2>2
  <2> QED
    BY <1>2, <1>3, <2>1, <2>3, Zenon DEF MovesTo
<1>4. CASE m # 0
  <2>1. m - 1 \in Nat /\ ~(m <= m - 1)
    BY <1>2, <1>4
  <2>2. PICK h : MovesTo(t, n, m - 1, h)
    BY <1>1, <2>1
  <2>3. PICK F : F = FreshTable(n)
    OBVIOUS
  <2>4. h = [i \in 0..(m - 1) |-> IF i = 0 THEN F ELSE MovedIn(t, h[i - 1], i)]
    BY <2>2, <2>3, Zenon DEF MovesTo
  <2>5. PICK g : g = [i \in 0..m |-> IF i = m THEN MovedIn(t, h[m - 1], m) ELSE h[i]]
    BY Zenon
  <2>6. \A i \in 0..m : g[i] = IF i = 0 THEN F ELSE MovedIn(t, g[i - 1], i)
    <3> SUFFICES ASSUME NEW i \in 0..m
                 PROVE  g[i] = IF i = 0 THEN F ELSE MovedIn(t, g[i - 1], i)
      BY Zenon
    <3>1. CASE i = 0
      BY <1>2, <1>4, <2>4, <2>5, <3>1
    <3>2. CASE i # 0
      <4>1. i - 1 \in 0..(m - 1) /\ i - 1 # m /\ i - 1 \in 0..m
        BY <1>2, <3>2
      <4>2. g[i - 1] = h[i - 1]
        BY <2>5, <4>1, Zenon
      <4>3. CASE i = m
        BY <2>5, <3>2, <4>2, <4>3, Zenon
      <4>4. CASE i # m
        <5>1. i \in 0..(m - 1)
          BY <1>2, <4>4
        <5>2. h[i] = MovedIn(t, h[i - 1], i)
          BY <2>4, <3>2, <5>1, Zenon
        <5>3. g[i] = h[i]
          BY <2>5, <4>4, Zenon
        <5> QED
          BY <3>2, <4>2, <5>2, <5>3, Zenon
      <4> QED
        BY <4>3, <4>4, Zenon
    <3> QED
      BY <3>1, <3>2, Zenon
  <2>7. g = [i \in 0..m |-> g[i]]
    BY <2>5
  <2>8. g = [i \in 0..m |-> IF i = 0 THEN F ELSE MovedIn(t, g[i - 1], i)]
    BY <2>6, <2>7, Zenon
  <2> QED
    BY <1>2, <2>3, <2>8, Zenon DEF MovesTo
<1> QED
  BY <1>3, <1>4

\* The table rehash leaves is the one after the last old slot.
LEMMA RehashIs ==
  ASSUME NEW t, NEW n, capacity(t) \in Nat
  PROVE  \E g : MovesTo(t, n, capacity(t), g) /\ rehash(t, n) = g[capacity(t)]
<1>1. \E g : MovesTo(t, n, capacity(t), g)
  BY MovesExist
<1>2. PICK g : g = CHOOSE h : h = [i \in 0..capacity(t) |->
                                    IF i = 0 THEN FreshTable(n)
                                    ELSE IF t.slots[i].st = "full"
                                    THEN Place(h[i - 1], t.slots[i].key, t.slots[i].value)
                                    ELSE h[i - 1]]
  OBVIOUS
<1>3. g = [i \in 0..capacity(t) |->
             IF i = 0 THEN FreshTable(n)
             ELSE IF t.slots[i].st = "full"
             THEN Place(g[i - 1], t.slots[i].key, t.slots[i].value)
             ELSE g[i - 1]]
  BY <1>1, <1>2, Zenon DEF MovesTo, MovedIn
<1>4. MovesTo(t, n, capacity(t), g)
  BY <1>3, Zenon DEF MovesTo, MovedIn
<1>5. rehash(t, n) = g[capacity(t)]
  BY <1>2, Zenon DEF rehash
<1> QED
  BY <1>4, <1>5

\* After the first i slots of t the new table has room for the next, is far from
\* crowded, has no tombstone, and no key twice; its entries are entries of t.
Moving(t, i, p) ==
  /\ Table(p) /\ capacity(p) >= capacity(t) * 2 /\ p.size <= i
  /\ NoTombs(p)
  /\ \A a : One(p, a)
  /\ \A a, b : Has(p, a, b) => Has(t, a, b)

\* A table with twice as many slots as went in before has room and is not crowded.
LEMMA RoomToMove ==
  ASSUME NEW c \in Nat, c >= 4, NEW i \in Nat \ {0}, i <= c, NEW cap \in Nat, cap >= c * 2,
         NEW n \in Nat, n <= i - 1
  PROVE  n < cap /\ ~(n * 10 >= cap * 7)
OBVIOUS

\* One more entry is still no more than the slots that were looked at.
LEMMA OneMore ==
  ASSUME NEW i \in Nat \ {0}, NEW n \in Nat, n <= i - 1, NEW m \in Nat, m <= n + 1
  PROVE  m <= i
OBVIOUS

\* One turn of the loop of rehash keeps that, and its insert does not rehash again.
LEMMA MovingStep ==
  ASSUME IndexAssumption, NEW t, Shape(t), NEW i \in Nat \ {0}, i <= capacity(t), NEW prev,
         Moving(t, i - 1, prev)
  PROVE  ~Crowded(prev) /\ Moving(t, i, MovedIn(t, prev, i))
<1>1. PICK c : c = capacity(t)
  OBVIOUS
<1>2. c \in Nat /\ c >= 4 /\ DOMAIN t.slots = 1..c
  BY <1>1 DEF Shape, capacity
<1>3. /\ Table(prev) /\ capacity(prev) >= c * 2 /\ prev.size <= i - 1
      /\ prev.size \in Nat /\ capacity(prev) \in Nat
  BY <1>1 DEF Moving, Table, Shape, capacity
<1>4. Room(prev) /\ ~Crowded(prev)
  BY <1>1, <1>2, <1>3, RoomToMove, Zenon DEF Room, Crowded
<1>5. i \in DOMAIN t.slots /\ t.slots[i] \in Slots
  BY <1>1, <1>2 DEF Shape
<1>6. PICK p : p = MovedIn(t, prev, i)
  OBVIOUS
<1>7. CASE t.slots[i].st # "full"
  <2>1. p = prev
    BY <1>6, <1>7, Zenon DEF MovedIn
  <2>2. p.size <= i
    BY <1>3, <2>1
  <2>3. Moving(t, i, p)
    BY <2>1, <2>2, Zenon DEF Moving
  <2> QED
    BY <1>4, <1>6, <2>3
<1>8. CASE t.slots[i].st = "full"
  <2>1. PICK k : k = t.slots[i].key
    OBVIOUS
  <2>2. PICK v : v = t.slots[i].value
    BY Zenon
  <2>3. p = Place(prev, k, v)
    BY <1>6, <1>8, <2>1, <2>2, Zenon DEF MovedIn
  <2>4. k \in Accounts /\ v \in Vals
    BY <1>5, <1>8, <2>1, <2>2, SlotCases, Zenon
  <2>5. Has(t, k, v)
    BY <1>5, <1>8, <2>1, <2>2, Zenon DEF Has, Full
  <2>6. Placed(prev, p, k, v)
    BY <1>3, <1>4, <2>3, <2>4, PlaceKeeps, Zenon
  <2>7. p.size <= i /\ capacity(p) >= capacity(t) * 2
    <3>1. Shape(p) /\ capacity(p) = capacity(prev) /\ p.size <= prev.size + 1
      BY <2>6, Zenon DEF Placed, Table
    <3>2. p.size \in Nat
      BY <3>1 DEF Shape
    <3> QED
      BY <1>1, <1>3, <3>1, <3>2, OneMore, Zenon
  <2>8. /\ Table(p) /\ NoTombs(p)
        /\ \A a : One(p, a)
        /\ \A a, b : Has(p, a, b) => Has(t, a, b)
    BY <2>5, <2>6, Zenon DEF Moving, Placed
  <2>9. Moving(t, i, p)
    BY <2>7, <2>8, Zenon DEF Moving
  <2> QED
    BY <1>4, <1>6, <2>9
<1> QED
  BY <1>7, <1>8

\* The table grows into one twice as large that holds entries of the old one only,
\* one for each key, and that no insert on the way found crowded.
LEMMA RehashKeeps ==
  ASSUME IndexAssumption, NEW t, Shape(t), NEW p, p = rehash(t, capacity(t) * 2)
  PROVE  Moving(t, capacity(t), p) /\ Room(p) /\ p.size + 1 < capacity(p)
<1>1. PICK c : c = capacity(t)
  BY Zenon
<1>2. c \in Nat \ {0} /\ c >= 4 /\ PowerOfTwo(c) /\ c * 2 \in Nat /\ c * 2 >= 4 /\ PowerOfTwo(c * 2)
  <2>1. c \in Nat \ {0} /\ c >= 4 /\ PowerOfTwo(c)
    BY <1>1 DEF Shape, capacity
  <2> QED
    BY <2>1, DoublePower
<1>3. PICK g : MovesTo(t, c * 2, c, g) /\ p = g[c]
  BY <1>1, <1>2, RehashIs, Zenon
<1>4. g[0] = FreshTable(c * 2) /\ \A i \in 1..c : g[i] = MovedIn(t, g[i - 1], i)
  <2>1. PICK F : F = FreshTable(c * 2)
    OBVIOUS
  <2>2. g = [i \in 0..c |-> IF i = 0 THEN F ELSE MovedIn(t, g[i - 1], i)]
    BY <1>3, <2>1, Zenon DEF MovesTo
  <2>3. \A i \in 0..c : g[i] = IF i = 0 THEN F ELSE MovedIn(t, g[i - 1], i)
    BY <2>2, Zenon
  <2> QED
    BY <1>2, <2>1, <2>3
<1>5. Moving(t, 0, g[0])
  <2>1. PICK f : f = g[0]
    BY Zenon
  <2>2. /\ Table(f) /\ capacity(f) >= c * 2 /\ f.size = 0 /\ Full(f) = {}
        /\ NoTombs(f)
    BY <1>2, <1>4, <2>1, FreshIs, Zenon
  <2>3. f.size <= 0
    BY <2>2
  <2>4. (\A a : One(f, a)) /\ \A a, b : ~Has(f, a, b)
    BY <2>2, Zenon DEF One, Has
  <2>5. Moving(t, 0, f)
    BY <1>1, <2>2, <2>3, <2>4, Zenon DEF Moving
  <2> QED
    BY <2>1, <2>5, Zenon
<1>6. \A i \in 0..c : Moving(t, i, g[i])
  <2> DEFINE Bad == {i \in 0..c : ~Moving(t, i, g[i])}
  <2> SUFFICES ASSUME Bad # {} PROVE FALSE
    OBVIOUS
  <2>1. PICK m \in Bad : \A j \in Bad : m <= j
    <3>1. Bad \in SUBSET Nat
      BY <1>2
    <3> QED
      BY <3>1, LeastOf, Zenon
  <2>2. m # 0 /\ m \in 0..c /\ ~Moving(t, m, g[m])
    BY <1>5, Zenon
  <2>3. m \in Nat \ {0} /\ m \in 1..c /\ m <= c /\ m - 1 \in 0..c /\ ~(m <= m - 1)
    BY <1>2, <2>2
  <2>4. Moving(t, m - 1, g[m - 1])
    BY <2>1, <2>3, Zenon
  <2>5. Moving(t, m, MovedIn(t, g[m - 1], m))
    BY <1>1, <2>3, <2>4, MovingStep, Zenon
  <2> QED
    BY <1>4, <2>2, <2>3, <2>5, Zenon
<1>7. Moving(t, c, p)
  BY <1>2, <1>3, <1>6
<1>8. p.size \in Nat /\ capacity(p) \in Nat /\ p.size <= c /\ capacity(p) >= c * 2
  BY <1>1, <1>7 DEF Moving, Table, Shape, capacity
<1> QED
  BY <1>1, <1>2, <1>7, <1>8 DEF Room

Inserted(t, p, k, v) ==
  /\ Table(p) /\ Room(p)
  /\ \A a, b : Has(p, a, b) => (a = k /\ b = v) \/ Has(t, a, b)
  /\ \A a : a # k /\ One(t, a) => One(p, a)
  /\ ~HasKey(t, k) => One(p, k) /\ \A b : Has(p, k, b) => b = v

\* What insert makes of a table, growing it first when it is crowded.
LEMMA InsertKeeps ==
  ASSUME IndexAssumption, NEW t, Table(t), Room(t), NEW k \in Accounts, NEW v \in Vals,
         NEW p, p = insert(t, k, v)
  PROVE  Inserted(t, p, k, v)
<1>1. PICK q : q = IF Crowded(t) THEN rehash(t, capacity(t) * 2) ELSE t
  BY Zenon
<1>2. p = Place(q, k, v)
  BY <1>1, Zenon DEF insert
<1>3. /\ Table(q) /\ Room(q) /\ q.size + 1 < capacity(q)
      /\ \A a, b : Has(q, a, b) => Has(t, a, b)
      /\ \A a : One(t, a) => One(q, a)
  <2>1. CASE Crowded(t)
    <3>1. q = rehash(t, capacity(t) * 2)
      BY <1>1, <2>1, Zenon
    <3>2. Moving(t, capacity(t), q) /\ Room(q) /\ q.size + 1 < capacity(q)
      BY <3>1, RehashKeeps, Zenon DEF Table
    <3> QED
      BY <3>2, Zenon DEF Moving
  <2>2. CASE ~Crowded(t)
    <3>1. t.size \in Nat /\ capacity(t) \in Nat /\ capacity(t) >= 4
      BY DEF Table, Shape, capacity
    <3>2. t.size + 1 < capacity(t)
      BY <2>2, <3>1 DEF Crowded
    <3> QED
      BY <1>1, <2>2, <3>2, Zenon
  <2> QED
    BY <2>1, <2>2
<1>4. Placed(q, p, k, v)
  BY <1>2, <1>3, PlaceKeeps, Zenon
<1>5. Room(p)
  <2>1. capacity(p) = capacity(q) /\ p.size <= q.size + 1 /\ Table(p)
    BY <1>4, Zenon DEF Placed
  <2>2. p.size \in Nat /\ q.size \in Nat /\ capacity(q) \in Nat
    BY <1>3, <2>1 DEF Table, Shape, capacity
  <2> QED
    BY <1>3, <2>1, <2>2 DEF Room
<1>6. HasKey(q, k) => HasKey(t, k)
  BY <1>3, Zenon DEF HasKey, Has
<1> QED
  BY <1>3, <1>4, <1>5, <1>6, Zenon DEF Placed, Inserted

----------------------------------------------------------------------------
\* The inductive invariant.  The accounts have balances; the cache is a table with
\* room; only an account created again has two entries; an entry belongs to an
\* account and, unless the account was created again or changed behind the cache,
\* it is the balance; a disabled cache is empty.
IndexInv ==
  /\ DOMAIN balances \subseteq Accounts
  /\ \A a \in DOMAIN balances : balances[a] \in Vals
  /\ cache_enabled \in BOOLEAN
  /\ Table(cache) /\ Room(cache)
  /\ \A a : a \notin recreated => One(cache, a)
  /\ \A a, b : Has(cache, a, b) =>
       /\ a \in DOMAIN balances
       /\ a \notin recreated \cup behind => b = balances[a]
  /\ ~cache_enabled => Full(cache) = {}

\* A fresh index has the invariant: no account, a table of empty slots.
LEMMA IndexInitial ==
  ASSUME IndexAssumption, IndexInit
  PROVE  IndexInv
<1>1. DOMAIN balances = {}
  BY DEF IndexInit, DbInit
<1>2. /\ Table(cache) /\ Room(cache) /\ Full(cache) = {}
  <2>1. PICK t : t = cache
    OBVIOUS
  <2>2. t = FreshTable(MIN_CAPACITY)
    BY <2>1 DEF IndexInit
  <2>3. /\ Table(t) /\ Room(t) /\ Full(t) = {}
    BY <2>2, FreshIs, Zenon DEF IndexAssumption
  <2> QED
    BY <2>1, <2>3
<1>3. (\A a : One(cache, a)) /\ \A a, b : ~Has(cache, a, b)
  BY <1>2, Zenon DEF One, Has
<1>4. cache_enabled \in BOOLEAN
  BY Zenon DEF IndexInit
<1> QED
  BY <1>1, <1>2, <1>3, <1>4, Zenon DEF IndexInv

\* What an adjustment in the database does to the balances.
LEMMA DbAdjusted ==
  ASSUME IndexAssumption, IndexInv, NEW a \in Accounts, NEW d \in Deltas,
         DbAdjusts(a, d[1], d[2])
  PROVE  /\ a \in DOMAIN balances /\ DOMAIN balances' = DOMAIN balances
         /\ \A x \in DOMAIN balances : balances'[x] \in Vals
         /\ \A x \in DOMAIN balances : x # a => balances'[x] = balances[x]
<1>1. PICK n : n = d[1]
  OBVIOUS
<1>2. PICK s : s = d[2]
  OBVIOUS
<1>3. n \in Int /\ s \in Symbols
  BY <1>1, <1>2, Zenon DEF IndexAssumption
<1>4. a \in DOMAIN balances /\ ~(n < 0 /\ balances[a][s] < -n)
  BY <1>1, <1>2 DEF DbAdjusts, CanAdjust, account_exists
<1>5. balances' = [balances EXCEPT ![a] = [balances[a] EXCEPT ![s] = balances[a][s] + n]]
  BY <1>1, <1>2, Zenon DEF DbAdjusts, adjust_balance
<1>6. PICK old : old = balances[a]
  BY Zenon
<1>7. old \in [Symbols -> Nat]
  BY <1>4, <1>6, Zenon DEF IndexInv, Vals
<1>8. [old EXCEPT ![s] = old[s] + n] \in [Symbols -> Nat]
  BY <1>3, <1>4, <1>6, <1>7
<1>9. PICK new : new = [old EXCEPT ![s] = old[s] + n]
  BY Zenon
<1>10. balances' = [balances EXCEPT ![a] = new] /\ new \in Vals
  BY <1>5, <1>6, <1>8, <1>9, Zenon DEF Vals
<1>11. /\ DOMAIN balances' = DOMAIN balances
       /\ \A x \in DOMAIN balances : balances'[x] = IF x = a THEN new ELSE balances[x]
  BY <1>10, Zenon
<1> QED
  BY <1>4, <1>10, <1>11, Zenon DEF IndexInv

\* Every operation of account_index, and every change behind it, keeps the invariant.
LEMMA IndexStep ==
  ASSUME IndexAssumption, DatabaseAssumption, IndexInv, [IndexNext]_indexVars
  PROVE  IndexInv'
<1>0. /\ Table(cache) /\ Room(cache) /\ Shape(cache)
      /\ \A a : a \notin recreated => One(cache, a)
      /\ \A a, b : Has(cache, a, b) =>
           /\ a \in DOMAIN balances
           /\ a \notin recreated \cup behind => b = balances[a]
      /\ ~cache_enabled => Full(cache) = {}
      /\ DOMAIN balances \subseteq Accounts
      /\ \A a \in DOMAIN balances : balances[a] \in Vals
      /\ cache_enabled \in BOOLEAN
  BY Zenon DEF IndexInv, Table
<1>1. CASE UNCHANGED indexVars
  <2>1. /\ balances' = balances /\ cache' = cache /\ cache_enabled' = cache_enabled
        /\ recreated' = recreated /\ behind' = behind
    BY <1>1, Zenon DEF indexVars, dbVars
  <2> QED
    BY <1>0, <2>1, Zenon DEF IndexInv
<1> DEFINE t == cache  p == cache'
\* An empty cache satisfies what the invariant says of its entries.
<1>2. ASSUME Cleared, UNCHANGED balances, cache_enabled' \in BOOLEAN
      PROVE  IndexInv'
  <2>1. cache' = clear(cache)
    BY <1>2, Zenon DEF Cleared
  <2>2. Table(cache') /\ Room(cache') /\ Full(cache') = {}
    BY <1>0, <2>1, ClearKeeps, Zenon
  <2>3. (\A a : One(cache', a)) /\ \A a, b : ~Has(cache', a, b)
    BY <2>2, Zenon DEF One, Has
  <2> QED
    BY <1>0, <1>2, <2>2, <2>3, Zenon DEF IndexInv
<1>3. ASSUME NEW on \in BOOLEAN, SetCacheEnabled(on)
      PROVE  IndexInv'
  <2>1. UNCHANGED balances /\ cache_enabled' = on
    BY <1>3, Zenon DEF SetCacheEnabled, dbVars
  <2>2. CASE on
    <3>1. UNCHANGED <<cache, recreated, behind>>
      BY <1>3, <2>2, Zenon DEF SetCacheEnabled
    <3> QED
      BY <1>0, <2>1, <2>2, <3>1, Zenon DEF IndexInv
  <2>3. CASE ~on
    BY <1>2, <1>3, <2>1, <2>3, Zenon DEF SetCacheEnabled
  <2> QED
    BY <2>2, <2>3, Zenon
<1>4. ASSUME ClearCache
      PROVE  IndexInv'
  BY <1>0, <1>2, <1>4, Zenon DEF ClearCache, dbVars
<1>5. ASSUME NEW a \in Accounts, NEW e \in Endowments, Create(a, e)
      PROVE  IndexInv'
  <2>1. e \in Vals
    BY DEF DatabaseAssumption, Vals
  <2>2. /\ DOMAIN balances' = DOMAIN balances \cup {a} /\ balances'[a] = e
        /\ \A x \in DOMAIN balances : x # a => balances'[x] = balances[x]
    BY <1>5, Zenon DEF Create, CreateAccount
  <2>3. /\ DOMAIN balances' \subseteq Accounts
        /\ \A x \in DOMAIN balances' : balances'[x] \in Vals
    BY <1>0, <2>1, <2>2, Zenon
  <2>4. cache_enabled' = cache_enabled /\ behind' = behind \ {a}
    BY <1>5 DEF Create, Refreshed
  <2>5. CASE ~cache_enabled
    <3>1. cache' = cache /\ recreated' = recreated
      BY <1>5, <2>5, Zenon DEF Create
    <3>2. Full(cache') = {}
      BY <1>0, <2>5, <3>1
    <3>3. (\A x : One(cache', x)) /\ \A x, y : ~Has(cache', x, y)
      BY <3>2, Zenon DEF One, Has
    <3> QED
      BY <1>0, <2>3, <2>4, <3>1, <3>2, <3>3, Zenon DEF IndexInv
  <2>6. CASE cache_enabled
    <3>1. /\ cache' = insert(cache, a, e)
          /\ recreated' = IF a \in DOMAIN balances THEN recreated \cup {a} ELSE recreated
      BY <1>5, <2>6 DEF Create, put, account_exists
    <3>2. /\ Table(p) /\ Room(p)
          /\ \A x, y : Has(p, x, y) => (x = a /\ y = e) \/ Has(t, x, y)
          /\ \A x : x # a /\ One(t, x) => One(p, x)
          /\ ~HasKey(t, a) => One(p, a) /\ \A y : Has(p, a, y) => y = e
      <4>1. Inserted(t, p, a, e)
        BY <1>0, <2>1, <3>1, InsertKeeps, Zenon
      <4> QED
        BY <4>1, Zenon DEF Inserted
    <3>3. a \notin DOMAIN balances => ~HasKey(t, a)
      BY <1>0, Zenon DEF HasKey, Has
    <3>4. \A x : x \notin recreated' => One(p, x)
      BY <1>0, <3>1, <3>2, <3>3, Zenon
    <3>5. \A x, y : Has(p, x, y) =>
            /\ x \in DOMAIN balances'
            /\ x \notin recreated' \cup behind' => y = balances'[x]
      <4> SUFFICES ASSUME NEW x, NEW y, Has(p, x, y)
                   PROVE  /\ x \in DOMAIN balances'
                          /\ x \notin recreated' \cup behind' => y = balances'[x]
        OBVIOUS
      <4>1. CASE x = a
        BY <2>2, <3>1, <3>2, <3>3, <4>1, Zenon
      <4>2. CASE x # a
        BY <1>0, <2>2, <2>4, <3>1, <3>2, <4>2, Zenon
      <4> QED
        BY <4>1, <4>2, Zenon
    <3> QED
      BY <2>3, <2>4, <2>6, <1>0, <3>2, <3>4, <3>5, Zenon DEF IndexInv
  <2> QED
    BY <2>5, <2>6, Zenon
<1>6. ASSUME NEW a \in Accounts, Find(a)
      PROVE  IndexInv'
  <2>1. /\ cache_enabled /\ ~Present(cache, a) /\ a \in DOMAIN balances
        /\ cache' = insert(cache, a, balances[a]) /\ behind' = behind \ {a}
        /\ balances' = balances /\ cache_enabled' = cache_enabled /\ recreated' = recreated
    BY <1>6 DEF Find, Hit, account_exists, put, Refreshed, dbVars
  <2>2. ~HasKey(t, a)
    BY <1>0, <2>1, LookupFinds, Zenon DEF Table
  <2>3. /\ Table(p) /\ Room(p)
        /\ \A x, y : Has(p, x, y) => (x = a /\ y = balances[a]) \/ Has(t, x, y)
        /\ \A x : x # a /\ One(t, x) => One(p, x)
        /\ One(p, a) /\ \A y : Has(p, a, y) => y = balances[a]
    <3>1. Inserted(t, p, a, balances[a])
      BY <1>0, <2>1, InsertKeeps, Zenon
    <3> QED
      BY <2>2, <3>1, Zenon DEF Inserted
  <2>4. \A x, y : Has(p, x, y) =>
          /\ x \in DOMAIN balances'
          /\ x \notin recreated' \cup behind' => y = balances'[x]
    BY <1>0, <2>1, <2>3, Zenon
  <2> QED
    BY <1>0, <2>1, <2>3, <2>4, Zenon DEF IndexInv
\* Dropping the entry of an account whose balance may have changed.
<1>7. ASSUME NEW a \in Accounts, cache' = erase(cache, a), Refreshed(a),
             DOMAIN balances' = DOMAIN balances,
             \A x \in DOMAIN balances : balances'[x] \in Vals,
             \A x \in DOMAIN balances : x # a => balances'[x] = balances[x],
             UNCHANGED balances \/ cache_enabled,
             UNCHANGED <<cache_enabled, recreated>>
      PROVE  IndexInv'
  <2>1. /\ Table(p) /\ Room(p)
        /\ \A x, y : Has(p, x, y) => Has(t, x, y)
        /\ \A x : One(t, x) => One(p, x)
        /\ One(t, a) => ~HasKey(p, a)
    <3>1. Erased(t, p, a)
      BY <1>0, <1>7, EraseKeeps, Zenon
    <3> QED
      BY <3>1, Zenon DEF Erased
  <2>2. \A y : Has(p, a, y) => HasKey(p, a)
    BY Zenon DEF Has, HasKey
  <2>3. \A x, y : Has(p, x, y) =>
          /\ x \in DOMAIN balances'
          /\ x \notin recreated' \cup behind' => y = balances'[x]
    <3> SUFFICES ASSUME NEW x, NEW y, Has(p, x, y)
                 PROVE  /\ x \in DOMAIN balances'
                        /\ x \notin recreated' \cup behind' => y = balances'[x]
      BY Zenon
    <3>1. Has(t, x, y) /\ x \in DOMAIN balances' /\ x \in DOMAIN balances
      BY <1>0, <1>7, <2>1, Zenon
    <3>2. CASE x # a
      <4>1. recreated' = recreated /\ behind' = behind \ {a}
        BY <1>7 DEF Refreshed
      <4>2. x \notin recreated' \cup behind' => x \notin recreated \cup behind
        BY <3>2, <4>1, Zenon
      <4> QED
        BY <1>0, <1>7, <3>1, <3>2, <4>2, Zenon
    <3>3. CASE x = a
      BY <1>0, <1>7, <2>1, <2>2, <3>1, <3>3, Zenon
    <3> QED
      BY <3>2, <3>3, Zenon
  <2>4. ~cache_enabled' => Full(cache') = {}
    <3> SUFFICES ASSUME ~cache_enabled, Full(cache') # {} PROVE FALSE
      BY <1>7, Zenon
    <3>1. PICK i \in Full(cache') : TRUE
      OBVIOUS
    <3>2. Has(p, p.slots[i].key, p.slots[i].value)
      BY <3>1, Zenon DEF Has
    <3> QED
      BY <1>0, <2>1, <3>2, Zenon DEF Has
  <2>5. cache_enabled' \in BOOLEAN /\ recreated' = recreated
    BY <1>0, <1>7, Zenon
  <2> QED
    BY <1>0, <1>7, <2>1, <2>3, <2>4, <2>5, Zenon DEF IndexInv
<1>8. ASSUME NEW a \in Accounts, Invalidate(a)
      PROVE  IndexInv'
  BY <1>0, <1>7, <1>8 DEF Invalidate, invalidate, dbVars
\* With the cache disabled there is no entry to be wrong.
<1>9. ASSUME NEW a \in Accounts, ~cache_enabled, UNCHANGED <<cache, cache_enabled, recreated>>,
             DOMAIN balances' = DOMAIN balances,
             \A x \in DOMAIN balances : balances'[x] \in Vals
      PROVE  IndexInv'
  <2>1. Full(cache') = {}
    BY <1>0, <1>9, Zenon
  <2>2. (\A x : One(cache', x)) /\ \A x, y : ~Has(cache', x, y)
    BY <2>1, Zenon DEF One, Has
  <2> QED
    BY <1>0, <1>9, <2>1, <2>2, Zenon DEF IndexInv
<1>10. ASSUME NEW a \in Accounts, NEW d \in Deltas, AdjustBalance(a, d[1], d[2])
       PROVE  IndexInv'
  <2>1. /\ a \in DOMAIN balances /\ DOMAIN balances' = DOMAIN balances
        /\ \A x \in DOMAIN balances : balances'[x] \in Vals
        /\ \A x \in DOMAIN balances : x # a => balances'[x] = balances[x]
    BY <1>10, DbAdjusted, Zenon DEF AdjustBalance
  <2>2. Refreshed(a) /\ UNCHANGED <<cache_enabled, recreated>> /\ cache' = Invalidated(a)
    BY <1>10, Zenon DEF AdjustBalance
  <2>3. CASE cache_enabled
    BY <1>7, <2>1, <2>2, <2>3, Zenon DEF Invalidated, invalidate
  <2>4. CASE ~cache_enabled
    BY <1>9, <2>1, <2>2, <2>4, Zenon DEF Invalidated
  <2> QED
    BY <2>3, <2>4
<1>11. ASSUME NEW a \in Accounts, NEW d \in Deltas, AdjustBehind(a, d[1], d[2])
       PROVE  IndexInv'
  <2>1. /\ a \in DOMAIN balances /\ DOMAIN balances' = DOMAIN balances
        /\ \A x \in DOMAIN balances : balances'[x] \in Vals
        /\ \A x \in DOMAIN balances : x # a => balances'[x] = balances[x]
    BY <1>11, DbAdjusted, Zenon DEF AdjustBehind
  <2>2. /\ UNCHANGED <<cache, cache_enabled, recreated>>
        /\ behind' = IF cache_enabled THEN behind \cup {a} ELSE behind
    BY <1>11 DEF AdjustBehind
  <2>3. CASE cache_enabled
    BY <1>0, <2>1, <2>2, <2>3, Zenon DEF IndexInv
  <2>4. CASE ~cache_enabled
    BY <1>9, <2>1, <2>2, <2>4, Zenon
  <2> QED
    BY <2>3, <2>4
<1> QED
  BY <1>1, <1>3, <1>4, <1>5, <1>6, <1>8, <1>10, <1>11, Zenon DEF IndexNext

\* The invariant says of the cache what the two properties ask.
LEMMA IndexSafe ==
  ASSUME IndexAssumption, IndexInv
  PROVE  MapWellFormed /\ CacheCoherent
<1>0. Shape(cache) /\ NoGap(cache) /\ Counted(cache) /\ Used = Full(cache)
  BY Zenon DEF IndexInv, Table, Used, Full
<1>1. \A a \in Accounts : Hit(a) <=> HasKey(cache, a)
  BY <1>0, LookupFinds DEF Hit
<1>2. \A i \in Full(cache) : cache.slots[i].key \in Accounts /\ HasKey(cache, cache.slots[i].key)
  <2> SUFFICES ASSUME NEW i \in Full(cache)
               PROVE  cache.slots[i].key \in Accounts /\ HasKey(cache, cache.slots[i].key)
    BY Zenon
  <2>1. cache.slots[i] \in Slots /\ cache.slots[i].st = "full"
    BY <1>0 DEF Full, Shape
  <2> QED
    BY <2>1, SlotCases, Zenon DEF HasKey
<1>3. MapWellFormed
  BY <1>0, <1>1, <1>2, Zenon DEF MapWellFormed, Counted, IndexInv, Room, One
<1>4. ASSUME NEW a \in Accounts
      PROVE  /\ cache_enabled /\ Hit(a) => account_exists(a)
             /\ account_exists(a) /\ a \notin recreated \cup behind => Answer(a) = balances[a]
  <2>1. CASE ~Hit(a)
    BY <2>1, Zenon DEF Answer
  <2>2. CASE Hit(a)
    <3>1. PICK d \in Walk(cache) : Lookup(cache, a) = {d} /\ Holds(SlotAt(cache, a, d), a)
      BY <1>0, <2>2, LookupFinds, Zenon DEF Hit
    <3>2. (CHOOSE x \in Lookup(cache, a) : TRUE) = d
      BY <3>1
    <3>3. find(cache, a) = SlotAt(cache, a, d).value
      BY <3>2, Zenon DEF find
    <3>4. Has(cache, a, find(cache, a))
      <4>1. Probe(cache, a, d) \in DOMAIN cache.slots
        BY <1>0, Walking, Zenon
      <4> QED
        BY <3>1, <3>3, <4>1 DEF Has, Full, Holds, SlotAt
    <3> QED
      BY <3>4, Zenon DEF IndexInv, Answer, account_exists
  <2> QED
    BY <2>1, <2>2, Zenon
<1> QED
  BY <1>3, <1>4, Zenon DEF CacheCoherent

\* The invariant holds in every state of the index.
LEMMA IndexInductive == IndexSpec => []IndexInv
<1>1. IndexInit => IndexInv
  BY IndexInitial, IndexAssumption, Zenon
<1>2. IndexInv /\ [IndexNext]_indexVars => IndexInv'
  BY IndexStep, IndexAssumption, DatabaseAssumption
<1> QED
  BY <1>1, <1>2, PTL DEF IndexSpec

\* Whatever is created, found, dropped or adjusted, the map of the cache counts its
\* entries, reaches each of them, keeps a slot free for the walk of insert to stop
\* at, and gives a second slot only to an account created again (flat_hash_map).
THEOREM MapAlwaysWellFormed == IndexSpec => []MapWellFormed
<1>1. IndexInv => MapWellFormed
  BY IndexSafe, IndexAssumption, Zenon
<1> QED
  BY <1>1, IndexInductive, PTL

\* A find through the cache answers what the database holds, except for accounts
\* changed behind the cache or created again while they existed (account_index).
THEOREM CacheAlwaysCoherent == IndexSpec => []CacheCoherent
<1>1. IndexInv => CacheCoherent
  BY IndexSafe, IndexAssumption
<1> QED
  BY <1>1, IndexInductive, PTL
============================================================================
