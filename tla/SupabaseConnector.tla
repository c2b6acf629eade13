------------------------- MODULE SupabaseConnector -------------------------
(***************************************************************************)
(* The Supabase connector on one resource of one subject: the rows of a    *)
(* table, the objects of a bucket, or the user of the auth service.  Rows  *)
(* and the user are erased and exported at once; the objects of a bucket   *)
(* page by page, behind a cursor, while the application uploads and        *)
(* removes objects.                                                        *)
(*                                                                         *)
(* An item is known by its place in the order of names.  What leaves the   *)
(* subject, because it is deleted or because its identity column is set to *)
(* null, is gone.  An HTTP request that is carried out after its           *)
(* connection broke is a removal by the application.                       *)
(***************************************************************************)
EXTENDS Naturals, Sequences, SequencesExt, FiniteSets

CONSTANTS
  Calls,       \* calls of the connector
  Names,       \* 1..n: names of the items of the subject
  Batch,       \* STORAGE_DELETE_BATCH, STORAGE_PAGE_SIZE
  MaxUploads   \* bound: items that the application adds

VARIABLES
  resource,  \* "table", "storage" or "user"
  items,     \* the items of the subject
  uploads,   \* how many the application added
  kind,      \* call -> "erase", "export" or "verify", or "none"
  outcome,   \* call -> "none", "running", "ok" or "failed"
  after,     \* call -> the cursor, 0 at first
  page,      \* call -> the names of the page that are not handled yet
  ends,      \* call -> whether that page is the last
  exported,  \* call -> the items it wrote into the sink
  steady     \* history: call -> items there from its first step until now

vars == <<resource, items, uploads, kind, outcome, after, page, ends, exported,
          steady>>
sweep == <<after, page, ends>>

CallKinds == {"erase", "export", "verify"}

\* A user of the auth service is one item.
Init ==
  /\ resource \in {"table", "storage", "user"}
  /\ items \in SUBSET Names
  /\ resource = "user" => Cardinality(items) < 2
  /\ uploads = 0
  /\ kind = [c \in Calls |-> "none"]
  /\ outcome = [c \in Calls |-> "none"]
  /\ after = [c \in Calls |-> 0]
  /\ page = [c \in Calls |-> <<>>]
  /\ ends = [c \in Calls |-> FALSE]
  /\ exported = [c \in Calls |-> <<>>]
  /\ steady = [c \in Calls |-> {}]

Runs(c, k) == outcome[c] = "running" /\ kind[c] = k

\* Items that leave the subject are not steady any more.
Leave(gone) ==
  /\ items' = items \ gone
  /\ steady' = [c \in Calls |-> steady[c] \ gone]

InOrder(S) ==
  CHOOSE s \in [1..Cardinality(S) -> S] :
    /\ ToSet(s) = S
    /\ \A i, j \in 1..Cardinality(S) : i < j => s[i] < s[j]

-----------------------------------------------------------------------------
(* The application. *)

Upload(n) ==
  /\ uploads < MaxUploads
  /\ n \notin items
  /\ resource = "user" => items = {}
  /\ items' = items \cup {n}
  /\ uploads' = uploads + 1
  /\ UNCHANGED <<resource, kind, outcome, sweep, exported, steady>>

Withdraw(n) ==
  /\ n \in items
  /\ Leave({n})
  /\ UNCHANGED <<resource, uploads, kind, outcome, sweep, exported>>

-----------------------------------------------------------------------------
(* Every call. *)

Begin(c, k) ==
  /\ outcome[c] = "none"
  /\ kind' = [kind EXCEPT ![c] = k]
  /\ outcome' = [outcome EXCEPT ![c] = "running"]
  /\ steady' = [steady EXCEPT ![c] = items]
  /\ UNCHANGED <<resource, items, uploads, sweep, exported>>

\* A query or request fails before it changes anything: the connection, a
\* missing field of the subject, a name that is no path, a body that is too
\* large, an object that is gone when it is downloaded.
Fail(c) ==
  /\ outcome[c] = "running"
  /\ outcome' = [outcome EXCEPT ![c] = "failed"]
  /\ UNCHANGED <<resource, items, uploads, kind, sweep, exported, steady>>

\* verify_subject: it is satisfied when the count is zero.
Verify(c) ==
  /\ Runs(c, "verify")
  /\ outcome' = [outcome EXCEPT ![c] = IF items = {} THEN "ok" ELSE "failed"]
  /\ UNCHANGED <<resource, items, uploads, kind, sweep, exported, steady>>

-----------------------------------------------------------------------------
(* Tables and the auth user. *)

\* erase_table: a statement, which deletes the rows or clears their identity
\* column, and its commit, whose answer may be lost.
EraseTable(c) ==
  /\ Runs(c, "erase")
  /\ resource = "table"
  /\ Leave(items)
  /\ outcome' \in {[outcome EXCEPT ![c] = o] : o \in {"ok", "failed"}}
  /\ UNCHANGED <<resource, uploads, kind, sweep, exported>>

\* erase_auth_user: a user that is not found is erased.
EraseUser(c) ==
  /\ Runs(c, "erase")
  /\ resource = "user"
  /\ Leave(items)
  /\ outcome' \in {[outcome EXCEPT ![c] = o] : o \in {"ok", "failed"}}
  /\ UNCHANGED <<resource, uploads, kind, sweep, exported>>

\* export_subject, the part of tables: the rows of one statement.
ExportTable(c) ==
  /\ Runs(c, "export")
  /\ resource = "table"
  /\ exported' = [exported EXCEPT ![c] = InOrder(items)]
  /\ outcome' = [outcome EXCEPT ![c] = "ok"]
  /\ UNCHANGED <<resource, items, uploads, kind, sweep, steady>>

\* export_subject, the part of the user: no user is no failure.
ExportUser(c) ==
  /\ Runs(c, "export")
  /\ resource = "user"
  /\ exported' = [exported EXCEPT ![c] = InOrder(items)]
  /\ outcome' = [outcome EXCEPT ![c] = "ok"]
  /\ UNCHANGED <<resource, items, uploads, kind, sweep, steady>>

-----------------------------------------------------------------------------
(* Storage. *)

\* A wrong version: the cursor itself is listed again.
BadBeyond(n, cursor) == n >= cursor

Beyond(n, cursor) == n > cursor

\* A wrong version: a full page is taken for the last one.
BadIsLast(names) == Len(names) <= Batch

IsLast(names) == Len(names) < Batch

\* The first Batch names beyond the cursor.  No name: the call is done.
List(c) ==
  /\ outcome[c] = "running" /\ kind[c] \in {"erase", "export"}
  /\ resource = "storage"
  /\ page[c] = <<>>
  /\ LET rest  == InOrder({n \in items : Beyond(n, after[c])})
         names == SubSeq(rest, 1, IF Len(rest) < Batch THEN Len(rest) ELSE Batch)
     IN IF names = <<>>
        THEN /\ outcome' = [outcome EXCEPT ![c] = "ok"]
             /\ UNCHANGED sweep
        ELSE /\ page' = [page EXCEPT ![c] = names]
             /\ after' = [after EXCEPT ![c] = Last(names)]
             /\ ends' = [ends EXCEPT ![c] = IsLast(names)]
             /\ UNCHANGED outcome
  /\ UNCHANGED <<resource, items, uploads, kind, exported, steady>>

\* The page is handled: the call is done, or goes on to the next one.
PageDone(c) ==
  outcome' = IF ends[c] THEN [outcome EXCEPT ![c] = "ok"] ELSE outcome

\* erase_storage: the page is deleted in one request, which is a success or
\* finds none of it.
DeletePage(c) ==
  /\ Runs(c, "erase")
  /\ page[c] # <<>>
  /\ Leave(ToSet(page[c]))
  /\ page' = [page EXCEPT ![c] = <<>>]
  /\ PageDone(c)
  /\ UNCHANGED <<resource, uploads, kind, after, ends, exported>>

\* The request fails, or its answer is lost: any part of the page is gone.
DeletePageFails(c) ==
  /\ Runs(c, "erase")
  /\ page[c] # <<>>
  /\ \E gone \in SUBSET ToSet(page[c]) : Leave(gone)
  /\ outcome' = [outcome EXCEPT ![c] = "failed"]
  /\ UNCHANGED <<resource, uploads, kind, sweep, exported>>

\* download_storage_object for the next name of the page.
Download(c) ==
  /\ Runs(c, "export")
  /\ page[c] # <<>>
  /\ Head(page[c]) \in items
  /\ exported' = [exported EXCEPT ![c] = Append(@, Head(page[c]))]
  /\ page' = [page EXCEPT ![c] = Tail(@)]
  /\ IF Tail(page[c]) = <<>> THEN PageDone(c) ELSE UNCHANGED outcome
  /\ UNCHANGED <<resource, items, uploads, kind, after, ends, steady>>

-----------------------------------------------------------------------------

Next ==
  \/ \E n \in Names : Upload(n) \/ Withdraw(n)
  \/ \E c \in Calls :
        \/ \E k \in CallKinds : Begin(c, k)
        \/ Fail(c) \/ Verify(c)
        \/ EraseTable(c) \/ EraseUser(c) \/ ExportTable(c) \/ ExportUser(c)
        \/ List(c) \/ DeletePage(c) \/ DeletePageFails(c) \/ Download(c)

Spec == Init /\ [][Next]_vars

-----------------------------------------------------------------------------
(* Properties. *)

(* An erasure that succeeds leaves nothing that was there when it began and  *)
(* stayed: pages of erase_storage skip no object, although objects come and  *)
(* go, and another call works on the same prefix.                            *)
ErasuresAreWhole ==
  \A c \in Calls : kind[c] = "erase" /\ outcome[c] = "ok" => steady[c] = {}

(* An export that succeeds has every item that was there from its beginning  *)
(* to its end, and none twice: the cursor of export_subject neither skips    *)
(* nor repeats an object at the edge of a page.                              *)
ExportsAreWhole ==
  \A c \in Calls : kind[c] = "export" /\ outcome[c] = "ok" =>
    /\ steady[c] \subseteq ToSet(exported[c])
    /\ IsInjective(exported[c])

=============================================================================
