----------------------------- MODULE AuditPages -----------------------------
(***************************************************************************)
(* GET /admin/audit-logs while requests commit audit rows (UnitOfWork):    *)
(* one client reads page after page, newest row first, until a page is     *)
(* short.  Every page is a request of its own; the count that it sends     *)
(* first has a snapshot of its own and decides nothing here.  The filters  *)
(* of the route choose among the rows and change nothing else.             *)
(*                                                                         *)
(* A row is stamped when it is flushed and appears when it is committed,   *)
(* so rows also appear in the middle.  No two have the same stamp: it has  *)
(* microseconds.                                                           *)
(***************************************************************************)
EXTENDS UnitOfWork

CONSTANT PageSize  \* page_size

ASSUME PageSizeIsPositive == PageSize \in Nat \ {0}

VARIABLES
  page,    \* the page that the client asks for next, or 0: it has not begun, or has
           \* read them all
  seen,    \* rows on the pages read so far
  before   \* the rows there were when it began; no code reads it

pageVars == <<page, seen, before>>

\* Rows that come before r in the order of the query.
Newer(r) == {q \in audits : created_at[q] > created_at[r]}

\* Mutant of OnPage: the first page is page 0.
OnPage_FromZero(n) ==
  {r \in audits : Cardinality(Newer(r)) \in (n * PageSize)..((n + 1) * PageSize - 1)}

\* ORDER BY created_at DESC OFFSET (page - 1) * page_size LIMIT page_size
OnPage(n) ==
  {r \in audits : Cardinality(Newer(r)) \in ((n - 1) * PageSize)..(n * PageSize - 1)}

PagesInit ==
  /\ Init
  /\ page = 0
  /\ seen = {}
  /\ before = {}

StartReading ==
  /\ page = 0
  /\ before = {}
  /\ page' = 1
  /\ before' = audits
  /\ UNCHANGED seen

ReadPage ==
  /\ page # 0
  /\ seen' = seen \cup OnPage(page)
  /\ page' = IF Cardinality(OnPage(page)) < PageSize THEN 0 ELSE page + 1
  /\ UNCHANGED before

Read == StartReading \/ ReadPage

PagesNext == (Next /\ UNCHANGED pageVars) \/ (Read /\ UNCHANGED vars)

PagesSpec == PagesInit /\ [][PagesNext]_<<vars, pageVars>> /\ Fairness

-----------------------------------------------------------------------------
\* Rows that appear while a client reads shift the others to later pages, never to
\* earlier ones: what was there when it began is on a page it has read, or on one it
\* has not read yet, and a short page is the last one (api/v1/admin.py, lines 258-259).
ReaderMissesNothing ==
  \A r \in before \ seen : page # 0 /\ Cardinality(Newer(r)) >= (page - 1) * PageSize

=============================================================================
