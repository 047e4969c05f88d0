----------------------------- MODULE CommentPages -----------------------------
(***************************************************************************)
(* Reading the comments of a note page by page while comments come and go  *)
(* (ListComments, CreateComment, DeleteComment in internal/note/service.go *)
(* and repository.go).                                                     *)
(*                                                                         *)
(* The first page comes from a cache entry that serves every page size, or *)
(* from a load that the requests of one process share; the next pages come *)
(* from PostgreSQL, below a cursor.  Comments are numbered in the order of *)
(* (created_at, id); created_at is the beginning of the transaction, so    *)
(* they need not appear in that order.  The note stays readable.           *)
(***************************************************************************)
EXTENDS Integers, FiniteSetsExt

CONSTANTS
    Comment,    \* the comments there may be, by their place in the order
    OldComment, \* the ones that exist from the beginning
    PageLimit,  \* sizes of the pages clients ask for
    FullLimit,  \* maxCommentLimit: the size of the shared first page
    Process,    \* API processes
    Client,     \* clients, each reading all pages once
    MaxChanges, \* bound: comments created or deleted
    Nothing

ASSUME CommentConstants ==
    /\ Comment \subseteq Nat \ {0} /\ IsFiniteSet(Comment) /\ OldComment \subseteq Comment
    /\ PageLimit \subseteq Nat \ {0} /\ FullLimit \in Nat \ {0} /\ MaxChanges \in Nat

VARIABLES
    active,     \* note_comments with status = 1
    deleted,    \* soft-deleted comments
    cached,     \* the cached first page, or Nothing
    pending,    \* commits whose invalidation is still to come
    load,       \* per process: the shared load
    client,     \* per client: where it is and what it has shown
    changes     \* comments created or deleted so far

commentVars == <<active, deleted, cached, pending, load, client, changes>>

NoLoad == [pc |-> "none", page |-> Nothing]

\* `next` is the cursor, 0 at the end; `shown` and `twice` what the client has seen, and
\* `asOf` the comments that were there when the first page was read.
NewClient == [pc |-> "idle", process |-> Nothing, limit |-> 0, next |-> 0,
              shown |-> {}, twice |-> {}, asOf |-> {}]

CommentInit ==
    /\ active = OldComment /\ deleted = {}
    /\ cached = Nothing /\ pending = 0
    /\ load = [p \in Process |-> NoLoad]
    /\ client = [c \in Client |-> NewClient]
    /\ changes = 0

-----------------------------------------------------------------------------
(* Pages.                                                                  *)

\* The n last comments of a set; all of them if there are fewer.
Latest(comments, n) == {c \in comments : Cardinality({d \in comments : d > c}) < n}

\* Repository.ListComments reads one more than asked for; buildCommentPage adds the cursor.
ReadPage(comments, n) ==
    LET items == Latest(comments, n)
    IN  [items |-> items, next |-> IF items # comments THEN Min(items) ELSE 0, asOf |-> active]

\* Seeded defect: the shorter page keeps the cursor of the long one.
LimitCommentPageKeepsCursor(page, n) ==
    [page EXCEPT !.items = Latest(page.items, n)]

\* limitCommentPage: a shorter page has its own cursor.
LimitCommentPage(page, n) ==
    LET items == Latest(page.items, n)
    IN  IF items = page.items THEN page
        ELSE [page EXCEPT !.items = items, !.next = Min(items)]

Show(c, page) ==
    [c EXCEPT !.pc = IF page.next = 0 THEN "done" ELSE "paging", !.process = Nothing,
              !.limit = IF page.next = 0 THEN 0 ELSE @, !.next = page.next, !.shown = @ \cup page.items,
              !.twice = @ \cup (c.shown \cap page.items)]

\* The first page also fixes what the client can expect.
ShowFirst(c, page) ==
    Show([c EXCEPT !.asOf = page.asOf], LimitCommentPage(page, c.limit))

-----------------------------------------------------------------------------
(* Writers.                                                                *)

CreateComment(k) ==
    /\ changes < MaxChanges /\ changes' = changes + 1
    /\ k \notin active \cup deleted
    /\ active' = active \cup {k} /\ pending' = pending + 1
    /\ UNCHANGED <<deleted, cached, load, client>>

SoftDeleteComment(k) ==
    /\ changes < MaxChanges /\ changes' = changes + 1
    /\ k \in active
    /\ active' = active \ {k} /\ deleted' = deleted \cup {k} /\ pending' = pending + 1
    /\ UNCHANGED <<cached, load, client>>

\* invalidateCommentFirstPage after the commit; an error is ignored, and a process that
\* dies never gets here.
InvalidateCommentFirstPage ==
    /\ pending > 0 /\ pending' = pending - 1
    /\ cached' \in {Nothing, cached}
    /\ UNCHANGED <<active, deleted, load, client, changes>>

\* commentFirstPageTTL passes.
ExpireFirstPage ==
    /\ cached # Nothing /\ cached' = Nothing
    /\ UNCHANGED <<active, deleted, pending, load, client, changes>>

-----------------------------------------------------------------------------
(* ListComments.                                                           *)

ServeCached(c, n) ==
    /\ client[c].pc = "idle" /\ cached # Nothing
    /\ client' = [client EXCEPT ![c] = ShowFirst([@ EXCEPT !.limit = n], cached)]
    /\ UNCHANGED <<active, deleted, cached, pending, load, changes>>

\* No entry, or Redis does not answer: the request starts or joins the load.
MissCached(c, n, p) ==
    /\ client[c].pc = "idle"
    /\ client' = [client EXCEPT ![c] = [@ EXCEPT !.pc = "waiting", !.limit = n, !.process = p]]
    /\ load' = IF load[p].pc = "none" THEN [load EXCEPT ![p].pc = "check"] ELSE load
    /\ UNCHANGED <<active, deleted, cached, pending, changes>>

WaitingAt(p) == {c \in Client : client[c].pc = "waiting" /\ client[c].process = p}

\* The load ends and every request that waits gets its part of the page.
Deliver(p, page) ==
    /\ client' = [c \in Client |-> IF c \in WaitingAt(p) THEN ShowFirst(client[c], page)
                                   ELSE client[c]]
    /\ load' = [load EXCEPT ![p] = NoLoad]

\* The load looks into the cache again.
LoadFromCache(p) ==
    /\ load[p].pc = "check" /\ cached # Nothing
    /\ Deliver(p, cached)
    /\ UNCHANGED <<active, deleted, cached, pending, changes>>

\* ... and reads the longest page from PostgreSQL.
LoadFromDatabase(p) ==
    /\ load[p].pc = "check"
    /\ load' = [load EXCEPT ![p] = [pc |-> "store", page |-> ReadPage(active, FullLimit)]]
    /\ UNCHANGED <<active, deleted, cached, pending, client, changes>>

\* setCommentFirstPageCache, whose error is ignored.
StoreFirstPage(p) ==
    /\ load[p].pc = "store"
    /\ cached' \in {load[p].page, cached}
    /\ Deliver(p, load[p].page)
    /\ UNCHANGED <<active, deleted, pending, changes>>

\* The load fails or runs out of time: so does every request that waits.
LoadFails(p) ==
    /\ load[p].pc # "none"
    /\ client' = [c \in Client |-> IF c \in WaitingAt(p) THEN NewClient ELSE client[c]]
    /\ load' = [load EXCEPT ![p] = NoLoad]
    /\ UNCHANGED <<active, deleted, cached, pending, changes>>

\* The client goes away; the load goes on without it.
Leave(c) ==
    /\ client[c].pc = "waiting"
    /\ client' = [client EXCEPT ![c] = NewClient]
    /\ UNCHANGED <<active, deleted, cached, pending, load, changes>>

\* The pages after the first, below the cursor.
ListNextPage(c) ==
    /\ client[c].pc = "paging"
    /\ LET below == {k \in active : k < client[c].next}
       IN  client' = [client EXCEPT ![c] = Show(@, ReadPage(below, @.limit))]
    /\ UNCHANGED <<active, deleted, cached, pending, load, changes>>

CommentNext ==
    \/ \E k \in Comment : CreateComment(k) \/ SoftDeleteComment(k)
    \/ InvalidateCommentFirstPage \/ ExpireFirstPage
    \/ \E c \in Client, n \in PageLimit : ServeCached(c, n)
    \/ \E c \in Client, n \in PageLimit, p \in Process : MissCached(c, n, p)
    \/ \E p \in Process : LoadFromCache(p) \/ LoadFromDatabase(p) \/ StoreFirstPage(p)
    \/ \E p \in Process : LoadFails(p)
    \/ \E c \in Client : Leave(c) \/ ListNextPage(c)

CommentSpec == CommentInit /\ [][CommentNext]_commentVars

-----------------------------------------------------------------------------
\* A client's pages fit together, whatever page size and whatever copy of the first page
\* it was served: no comment is shown twice, and at the end every comment that was there
\* when the first page was read, and still is, has been shown (ListComments,
\* limitCommentPage).
PagesFit ==
    \A c \in Client :
        /\ client[c].twice = {}
        /\ client[c].pc = "done" => client[c].asOf \cap active \subseteq client[c].shown

-----------------------------------------------------------------------------
(* Why it holds: the parts of the inductive invariant *)

\* A first page is the part from its cursor on of what was there when it was read.
PageOf(page) ==
    /\ page.asOf \subseteq active \cup deleted
    /\ page.next \in Nat
    /\ page.next # 0 => page.next \in page.items
    /\ page.items = {k \in page.asOf : k >= page.next}

PageType == [items : SUBSET Comment, next : Nat, asOf : SUBSET Comment]

ClientType == [pc : {"idle", "waiting", "paging", "done"}, process : Process \cup {Nothing},
               limit : PageLimit \cup {0}, next : Nat, shown : SUBSET Comment,
               twice : SUBSET Comment, asOf : SUBSET Comment]

CommentTypeOK ==
    /\ active \subseteq Comment /\ deleted \subseteq Comment
    /\ cached \in PageType \cup {Nothing}
    /\ pending \in Nat /\ changes \in 0..MaxChanges
    /\ load \in [Process -> [pc : {"none", "check", "store"}, page : PageType \cup {Nothing}]]
    /\ client \in [Client -> ClientType]

\* The pages under way are such parts.
PagesKept ==
    /\ cached # Nothing => PageOf(cached)
    /\ \A p \in Process : load[p].pc = "store" => load[p].page \in PageType /\ PageOf(load[p].page)

\* A client's cursor splits the comments: nothing below it was shown, and everything
\* from it on that was there at the beginning and still is.
SplitAtCursor(x) ==
    /\ x.twice = {}
    /\ x.asOf \subseteq active \cup deleted
    /\ x.pc \in {"idle", "waiting"} => x.shown = {}
    /\ x.pc \in {"waiting", "paging"} => x.limit # 0
    /\ x.pc = "done" => x.next = 0
    /\ x.pc \in {"paging", "done"} =>
          /\ \A k \in x.shown : k >= x.next
          /\ \A k \in x.asOf \cap active : k >= x.next => k \in x.shown

\* The inductive invariant.
CommentInv == CommentTypeOK /\ PagesKept /\ \A c \in Client : SplitAtCursor(client[c])
=============================================================================
