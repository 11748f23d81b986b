---------------------------- MODULE DatabaseApi ----------------------------
(***************************************************************************)
(* The get and list methods of the database API over a table that keeps    *)
(* changing: a client reads a list page by page while evaluators and       *)
(* profile changes run between its calls.  The client reads one of the     *)
(* three tables; rows carry the fields the lists select by.  What a row    *)
(* may go through is taken from the modules Nft, Htlc and Contracts: ids   *)
(* only grow, a token moves or burns, an HTLC closes once, a contract      *)
(* stays.  The fields that light mode leaves out are no part of a row.     *)
(***************************************************************************)
EXTENDS Database, FiniteSets

CONSTANTS NewRows,  \* table -> rows that may come into it
          Queries,  \* the lists a client may read, each with its argument
          Limits,   \* limits a client may ask for
          MaxRows   \* bound: rows that come into the table

\* Each list with the table it reads.
Lists == {<<"nft", "nfts_by_owner">>, <<"nft", "nfts_by_collection">>,
          <<"htlc", "htlcs_by_from">>, <<"htlc", "htlcs_by_to">>,
          <<"htlc", "htlcs_by_expiration">>, <<"contract", "contracts_by_owner">>}

ASSUME ApiAssumption ==
  /\ \A q \in Queries : q.table \in DOMAIN NewRows /\ <<q.table, q.list>> \in Lists
  /\ Limits \subseteq Nat /\ MaxRows \in Nat

VARIABLES rows,     \* id -> row of the table the client reads
          next_id,
          scan      \* the client's scan

tableVars == <<rows, next_id>>
vars      == <<dbVars, tableVars, scan>>

----------------------------------------------------------------------------
\* An optional is a set of at most one row.
Found(skip, id) == IF skip \/ id \notin DOMAIN rows THEN {} ELSE {rows[id]}

get_nft(id)      == Found(config.nft_skip_state, id)
get_htlc(id)     == Found(config.htlc_skip_state, id)
get_contract(id) == Found(config.contracts_skip, id)

clamp_limit(limit) == IF limit = 0 THEN 1 ELSE IF limit > 100 THEN 100 ELSE limit

\* Mutant: start is not looked at.
ReachedAlways(id, start) == TRUE

Reached(id, start) == ~(id < start)

\* The loop of every list: the table is walked in the order of the ids until the
\* page is full.
Page(skip, ids, start, limit) ==
  LET reached == {id \in ids : Reached(id, start)}
  IN  IF skip THEN {}
      ELSE {id \in reached : Cardinality({x \in reached : x < id}) < clamp_limit(limit)}

list_nfts_by_owner(owner, start, limit) ==
  Page(config.nft_skip_state, {id \in DOMAIN rows : rows[id].owner = owner}, start, limit)

list_nfts_by_collection(c, start, limit) ==
  Page(config.nft_skip_state, {id \in DOMAIN rows : rows[id].collection = c}, start, limit)

list_htlcs_by_from(from, start, limit) ==
  Page(config.htlc_skip_state, {id \in DOMAIN rows : rows[id].from = from}, start, limit)

list_htlcs_by_to(to, start, limit) ==
  Page(config.htlc_skip_state, {id \in DOMAIN rows : rows[id].to = to}, start, limit)

\* Mutant: the expiration itself is left out.
list_htlcs_after_expiration(min_expiration, start, limit) ==
  Page(config.htlc_skip_state,
       {id \in DOMAIN rows : rows[id].expiration > min_expiration /\ rows[id].status = "open"},
       start, limit)

list_htlcs_by_expiration(min_expiration, start, limit) ==
  Page(config.htlc_skip_state,
       {id \in DOMAIN rows : ~(rows[id].expiration < min_expiration) /\ rows[id].status = "open"},
       start, limit)

list_contracts_by_owner(owner, start, limit) ==
  Page(config.contracts_skip, {id \in DOMAIN rows : rows[id].owner = owner}, start, limit)

Listed(q, start, limit) ==
  CASE q.list = "nfts_by_owner"       -> list_nfts_by_owner(q.account, start, limit)
    [] q.list = "nfts_by_collection"  -> list_nfts_by_collection(q.collection, start, limit)
    [] q.list = "htlcs_by_from"       -> list_htlcs_by_from(q.account, start, limit)
    [] q.list = "htlcs_by_to"         -> list_htlcs_by_to(q.account, start, limit)
    [] q.list = "htlcs_by_expiration" -> list_htlcs_by_expiration(q.min_expiration, start, limit)
    [] q.list = "contracts_by_owner"  -> list_contracts_by_owner(q.account, start, limit)

----------------------------------------------------------------------------
\* What the query asks for, told from the row that get returns.
Wanted(q, row) ==
  CASE q.list \in {"nfts_by_owner", "contracts_by_owner"} -> row.owner = q.account
    [] q.list = "nfts_by_collection"  -> row.collection = q.collection
    [] q.list = "htlcs_by_from"       -> row.from = q.account
    [] q.list = "htlcs_by_to"         -> row.to = q.account
    [] q.list = "htlcs_by_expiration" -> ~(row.expiration < q.min_expiration) /\ row.status = "open"

get(q, id) ==
  CASE q.table = "nft" -> get_nft(id) [] q.table = "htlc" -> get_htlc(id)
    [] q.table = "contract" -> get_contract(id)

Showing(q) == {id \in 1..MaxRows : \E row \in get(q, id) : Wanted(q, row)}

\* The client starts to read; steady: the ids get has shown as wanted ever since.
BeginScan ==
  /\ scan.state = "idle"
  /\ scan' = [scan EXCEPT !.state = "open", !.steady = Showing(scan.query)]
  /\ UNCHANGED <<dbVars, tableVars>>

\* One call.  The client goes on behind the last id it got; an empty page ends
\* the scan.
ReadPage(limit) ==
  LET page == Listed(scan.query, scan.start, limit)
  IN  /\ scan.state = "open"
      /\ \/ /\ page = {}
            /\ scan' = [scan EXCEPT !.state = "closed"]
         \/ /\ page # {}
            /\ scan' = [scan EXCEPT !.start = 1 + CHOOSE id \in page : \A x \in page : x <= id,
                                    !.seen = @ \cup page,
                                    !.repeated = @ \/ page \cap scan.seen # {}]
      /\ UNCHANGED <<dbVars, tableVars>>

\* The scan after a step of the node.
Watched ==
  \/ scan.state # "open" /\ UNCHANGED scan
  \/ /\ scan.state = "open"
     /\ \E q \in {scan.query} : scan' = [scan EXCEPT !.steady = @ \cap Showing(q)']

Insert(row) ==
  /\ next_id <= MaxRows
  /\ rows' = [id \in DOMAIN rows \cup {next_id} |-> IF id = next_id THEN row ELSE rows[id]]
  /\ next_id' = next_id + 1
  /\ UNCHANGED dbVars /\ Watched

MoveToken(id, owner) ==
  /\ scan.query.table = "nft"
  /\ rows' = [rows EXCEPT ![id].owner = owner]
  /\ UNCHANGED <<dbVars, next_id>> /\ Watched

BurnToken(id) ==
  /\ scan.query.table = "nft"
  /\ rows' = [x \in DOMAIN rows \ {id} |-> rows[x]]
  /\ UNCHANGED <<dbVars, next_id>> /\ Watched

CloseHtlc(id) ==
  /\ scan.query.table = "htlc"
  /\ rows' = [rows EXCEPT ![id].status = "closed"]
  /\ UNCHANGED <<dbVars, next_id>> /\ Watched

Reconfigure(p) == ApplyProfile(p) /\ UNCHANGED tableVars /\ Watched

----------------------------------------------------------------------------
Init ==
  /\ DbInit
  /\ rows = << >> /\ next_id = 1
  /\ scan \in [query: Queries, state: {"idle"}, start: {0}, seen: {{}}, steady: {{}},
               repeated: {FALSE}]

Read == \E l \in Limits : ReadPage(l)

Next ==
  \/ BeginScan \/ Read
  \/ \E row \in NewRows[scan.query.table] : Insert(row)
  \/ \E id \in DOMAIN rows, a \in Accounts : MoveToken(id, a)
  \/ \E id \in DOMAIN rows : BurnToken(id) \/ CloseHtlc(id)
  \/ \E p \in NodeProfiles : Reconfigure(p)

\* A client that has started to read keeps asking for the next page.
Spec == Init /\ [][Next]_vars /\ WF_vars(Read)

----------------------------------------------------------------------------
\* A finished scan has shown every object that get would have shown, as one the
\* list selects, from its first call to its last, whatever was added, moved,
\* closed or burned meanwhile.
ScanComplete == scan.state = "closed" => scan.steady \subseteq scan.seen

\* No object is shown twice in a scan.
ScanNoRepeat == ~scan.repeated

\* Every scan comes to an end: the client never reads the same page for ever.
ScanEnds == scan.state = "open" ~> scan.state = "closed"
============================================================================
