---------------------------- MODULE InvoicePages ----------------------------
(***************************************************************************)
(* GET /api/invoices with cursors (routes/invoices.ts): newest first, a page *)
(* at a time, each page asked for with the next_cursor of the one before and *)
(* cached in Redis for 30 s (lib/cache.ts).  A client walks from the first   *)
(* page to the last while invoices are created and change their status, and  *)
(* while other clients ask for the same pages.                               *)
(* A cursor holds the created_at and invoice_id of the last row of a page;   *)
(* neither ever changes, so the row's id stands for it.                      *)
(***************************************************************************)
EXTENDS Naturals, Sequences, FiniteSets

CONSTANTS
  RowId,      \* invoice ids; their order is the one Mongo gives the strings
  PageSize,   \* limit
  MaxMillis,  \* bound on the milliseconds created_at tells apart
  MaxOthers   \* bound on other clients' requests

ASSUME InvoicePagesAssumption == RowId \subseteq Nat \ {0} /\ PageSize \in Nat \ {0}
                                  /\ MaxMillis \in Nat /\ MaxOthers \in Nat

VARIABLES
  millis,     \* the clock
  created,    \* created[i]: the row's created_at, 0 while there is no row
  filteredOut, \* rows whose status is not the one the walk asks for
  pageCache,  \* pageCache[c]: the cached page after cursor c, or NoPage
  others,     \* other clients' requests so far
  walk        \* the client: what it does, the cursor it asks for, the pages it has

pageVars == <<millis, created, filteredOut, pageCache, others, walk>>

First == 0       \* no cursor: the first page
NoMore == 0      \* next_cursor: null
NoPage == [data |-> {}, next |-> NoMore, matching |-> {First}]   \* no page matches this

PagesInit ==
  /\ millis = 1
  /\ created = [i \in RowId |-> 0] /\ filteredOut = {}
  /\ others = 0 /\ pageCache = [c \in RowId \cup {First} |-> NoPage]
  /\ walk = [at |-> "asking", cursor |-> First, pages |-> << >>]

-----------------------------------------------------------------------------
(* The query.                                                              *)

\* Every page of a walk has the same filters; without any, no row is ever left out.
buildListFilter == {i \in RowId : created[i] > 0 /\ i \notin filteredOut}

\* sort({created_at: -1, invoice_id: -1})
Newer(i, j) == created[i] > created[j] \/ (created[i] = created[j] /\ i > j)

\* A cursor that forgets that two invoices may be created in one millisecond.
Mut_pageFilter(c) ==
  IF c = First THEN buildListFilter ELSE {i \in buildListFilter : created[i] < created[c]}

pageFilter(c) == IF c = First THEN buildListFilter ELSE {i \in buildListFilter : Newer(c, i)}

\* limit + 1 rows are read, to know whether there are more.
hasMore(c) == Cardinality(pageFilter(c)) > PageSize
pageData(c) == {i \in pageFilter(c) : Cardinality({j \in pageFilter(c) : Newer(j, i)}) < PageSize}

encodeInvoiceCursor(data) == CHOOSE i \in data : \A j \in data \ {i} : Newer(j, i)

\* "matching" is history: the rows that matched when the page was read.
readPage(c) ==
  [data |-> pageData(c), matching |-> buildListFilter,
   next |-> IF hasMore(c) THEN encodeInvoiceCursor(pageData(c)) ELSE NoMore]

-----------------------------------------------------------------------------
(* A client asks for a page, and for the next one until there is none.     *)

\* res.json: the client has the page, and its next_cursor.
Served(p) ==
  walk' = [at |-> IF p.next = NoMore THEN "done" ELSE "asking", cursor |-> p.next,
           pages |-> Append(walk.pages, p)]

\* cacheGet finds the page ...
CacheHit ==
  /\ walk.at = "asking" /\ pageCache[walk.cursor] # NoPage
  /\ Served(pageCache[walk.cursor])
  /\ UNCHANGED <<millis, created, filteredOut, pageCache, others>>

\* ... or not: it was never stored, cacheSet failed, its 30 s are over, Redis does not
\* answer.  Mongo is asked and the page cached.  (A cacheSet that is late, and replaces a
\* newer page, leaves what a later page that was never stored leaves.)
CacheMiss ==
  /\ walk.at = "asking" /\ Served(readPage(walk.cursor))
  /\ pageCache' = [pageCache EXCEPT ![walk.cursor] = readPage(walk.cursor)]
  /\ UNCHANGED <<millis, created, filteredOut, others>>

\* Another client's request for a page; it may have had the cursor for a long time.
OtherRead(c) ==
  /\ others < MaxOthers /\ others' = others + 1
  /\ c # First => created[c] > 0
  /\ pageCache' = [pageCache EXCEPT ![c] = readPage(c)]
  /\ UNCHANGED <<millis, created, filteredOut, walk>>

-----------------------------------------------------------------------------
(* Meanwhile.                                                              *)

\* The time of an insertion is taken before it is made, by this process or another.
InsertRow(i, t) ==
  /\ created[i] = 0 /\ t \in {millis, millis - 1} \ {0}
  /\ created' = [created EXCEPT ![i] = t]
  /\ UNCHANGED <<millis, filteredOut, pageCache, others, walk>>

\* A new status takes the row out of what the filter finds, or puts it in.
ChangeStatus(i) ==
  /\ created[i] > 0
  /\ filteredOut' = IF i \in filteredOut THEN filteredOut \ {i} ELSE filteredOut \cup {i}
  /\ UNCHANGED <<millis, created, pageCache, others, walk>>

PassMillis ==
  /\ millis < MaxMillis /\ millis' = millis + 1
  /\ UNCHANGED <<created, filteredOut, pageCache, others, walk>>

PagesNext ==
  \/ CacheHit \/ CacheMiss
  \/ \E c \in DOMAIN pageCache : OtherRead(c)
  \/ \E i \in RowId : ChangeStatus(i) \/ \E t \in 1 .. MaxMillis : InsertRow(i, t)
  \/ PassMillis

PagesSpec == PagesInit /\ [][PagesNext]_pageVars

-----------------------------------------------------------------------------
\* A walk along next_cursor lists every invoice once: none appears on two pages, and
\* one that matched the filters each time a page was read is on one of them, although
\* others are created or leave the filter between pages and although pages come from
\* the cache, older than the page before them.
WalkListsAll ==
  LET pages == walk.pages IN
    /\ \A k, l \in DOMAIN pages : k # l => pages[k].data \cap pages[l].data = {}
    /\ walk.at = "done" =>
         \A i \in RowId : (\A k \in DOMAIN pages : i \in pages[k].matching)
                             => \E k \in DOMAIN pages : i \in pages[k].data
=============================================================================
