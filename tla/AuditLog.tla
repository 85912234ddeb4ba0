------------------------------ MODULE AuditLog ------------------------------
(***************************************************************************)
(* The audit log: the in-memory repository and the PostgreSQL table, given *)
(* the same drafts, and the use case that shows pages of them              *)
(* (adapters/driven/persistence/{memory,database}/.../audit_repository.py, *)
(* application/use_cases/audit/view_audits.py, pagination.py).             *)
(*                                                                         *)
(* A draft keeps the fields a filter can name, its event and its envelope. *)
(* A filter and a page are functions from the fields that are given.       *)
(***************************************************************************)
EXTENDS Integers, Sequences, FiniteSets, SequencesExt, TLC

CONSTANTS
  None,
  Users,      \* users with a runtime account: [user_id, username]
  Auditors,   \* those with AUDIT_VIEW
  Kinds,      \* what an event is about: [event_type, resource_type, resource_id, action]
  Sources,    \* where a command came from
  Times,      \* business times and instants
  Filters,    \* the filters asked for
  Pages,      \* the pages asked for: limit, offset and include_total
  LogBound    \* bound: additions explored

\* What a draft says of its event.
KindFields == {"event_type", "resource_type", "resource_id", "action", "source"}

ASSUME AuditLogAssumption ==
  /\ Auditors \subseteq Users
  /\ \A u, v \in Users : u.user_id = v.user_id <=> u.username = v.username
  /\ \A u \in Users : u.user_id # None
  /\ \A kind \in Kinds : DOMAIN kind = KindFields
  /\ \A filters \in Filters : \A f \in DOMAIN filters : filters[f] # None
  /\ \A page \in Pages : /\ page.limit # None => page.limit \in Int
                         /\ page.offset \in Int
  /\ Times \subseteq Nat /\ LogBound \in Nat /\ None \notin Nat

VARIABLES
  records,  \* InMemoryAuditRepository._records_by_event_id, in insertion order
  rows,     \* public.audit_records
  serial,   \* next value of the identity column, conflicts included
  now,      \* the clock both backends stamp created_at with
  answer    \* the last request to view the log and its outcome

vars == <<records, rows, serial, now, answer>>

-----------------------------------------------------------------------------
(* The in-memory repository.                                               *)

FirstRecords == {records[i] : i \in DOMAIN records}

\* f and the fields of g that f does not have.
With(f, g) == [x \in DOMAIN f \cup DOMAIN g |-> IF x \in DOMAIN f THEN f[x] ELSE g[x]]

\* _build_record, and the columns the table fills in by itself.
BuildRecord(draft, id) == With([audit_id |-> id, created_at |-> now], draft)

\* Without the early return: a second delivery replaces the first.
MemoryOverwrite(draft) ==
  LET kept == SelectSeq(records, LAMBDA r : r.event_id # draft.event_id)
  IN  Append(kept, BuildRecord(draft, Len(records) + 1))

MemoryAdd(draft) ==
  IF \E r \in FirstRecords : r.event_id = draft.event_id
  THEN records
  ELSE Append(records, BuildRecord(draft, Len(records) + 1))

Equalities ==
  {"event_type", "resource_type", "resource_id", "action", "actor_user_id", "actor_username",
   "source"}

Given(filters, f) == f \in DOMAIN filters

InRange(record, filters, field, from, to) ==
  /\ Given(filters, from) => record[field] >= filters[from]
  /\ Given(filters, to) => record[field] <= filters[to]

Matches(record, filters) ==
  /\ \A f \in Equalities : Given(filters, f) => record[f] = filters[f]
  /\ InRange(record, filters, "occurred_at", "occurred_from", "occurred_to")
  /\ InRange(record, filters, "created_at", "created_from", "created_to")

\* The order of both backends: latest occurrence first, then latest addition.
Before(r, s) ==
  \/ r.occurred_at > s.occurred_at
  \/ r.occurred_at = s.occurred_at /\ r.audit_id > s.audit_id

Rank(S, r) == Cardinality({q \in S : Before(q, r)})

\* The records of S in that order: the i-th has i - 1 before it.
Sorted(S) == [i \in 1 .. Cardinality(S) |-> CHOOSE r \in S : Rank(S, r) = i - 1]

MemoryListAll(filters) == Sorted({r \in FirstRecords : Matches(r, filters)})

\* records[offset : limit]
SliceUpToLimit(s, limit, offset) ==
  SubSeq(s, offset + 1, IF limit < Len(s) THEN limit ELSE Len(s))

\* records[offset : offset + limit]
Slice(s, limit, offset) ==
  SubSeq(s, offset + 1, IF offset + limit < Len(s) THEN offset + limit ELSE Len(s))

MemoryListPage(filters, limit, offset) == Slice(MemoryListAll(filters), limit, offset)

-----------------------------------------------------------------------------
(* The PostgreSQL table.  A comparison with NULL is not true.              *)

\* INSERT ... ON CONFLICT (event_id) DO NOTHING
TableAdd(draft) ==
  IF \E r \in rows : r.event_id = draft.event_id
  THEN rows
  ELSE rows \cup {BuildRecord(draft, serial)}

SqlTest(value, filters, f, Op(_, _)) ==
  Given(filters, f) => value # None /\ Op(value, filters[f])

WhereClause(row, filters) ==
  /\ \A f \in Equalities : SqlTest(row[f], filters, f, LAMBDA x, y : x = y)
  /\ SqlTest(row.occurred_at, filters, "occurred_from", LAMBDA x, y : x >= y)
  /\ SqlTest(row.occurred_at, filters, "occurred_to", LAMBDA x, y : x <= y)
  /\ SqlTest(row.created_at, filters, "created_from", LAMBDA x, y : x >= y)
  /\ SqlTest(row.created_at, filters, "created_to", LAMBDA x, y : x <= y)

Selected(filters) == {r \in rows : WhereClause(r, filters)}

\* ORDER BY occurred_at DESC, audit_id DESC
TableListAll(filters) == Sorted(Selected(filters))

\* LIMIT and OFFSET: the rows with `offset` to `offset + limit - 1` rows before them.
TableListPage(filters, limit, offset) ==
  LET selected == Selected(filters)
  IN  Sorted({r \in selected : Rank(selected, r) \in offset .. offset + limit - 1})

\* The total beside the page's rows, or beside NULLs when the page is empty.
JoinedRows(filters, limit, offset) ==
  LET page == TableListPage(filters, limit, offset)
      total == Cardinality(Selected(filters))
  IN  IF page = <<>> THEN <<[audit_id |-> None, total |-> total]>>
      ELSE [i \in DOMAIN page |-> With([total |-> total], page[i])]

\* Without the test on audit_id.
KeepsOuterRow(filters, limit, offset) ==
  LET joined == JoinedRows(filters, limit, offset)
  IN  [items |-> joined, total |-> joined[1].total]

\* Rows without a record are left out: only the row of NULLs is one.
TableListPageWithTotal(filters, limit, offset) ==
  LET joined == JoinedRows(filters, limit, offset)
  IN  [items |-> IF joined[1].audit_id = None THEN <<>> ELSE joined, total |-> joined[1].total]

-----------------------------------------------------------------------------
(* Pages (application/use_cases/pagination.py).                            *)

ValidPage(page) ==
  IF page.limit = None THEN page.offset = 0 ELSE page.limit >= 1 /\ page.offset >= 0

MemoryPage(filters, page) ==
  IF page.limit = None THEN [items |-> MemoryListAll(filters), total |-> None]
  ELSE [items |-> MemoryListPage(filters, page.limit, page.offset),
        total |-> IF page.include_total THEN Len(MemoryListAll(filters)) ELSE None]

TablePage(filters, page) ==
  IF page.limit = None THEN [items |-> TableListAll(filters), total |-> None]
  ELSE IF page.include_total THEN TableListPageWithTotal(filters, page.limit, page.offset)
  ELSE [items |-> TableListPage(filters, page.limit, page.offset), total |-> None]

-----------------------------------------------------------------------------
(* Deliveries and views.                                                   *)

Actors == Users \cup {[user_id |-> None, username |-> None]}

\* The envelope is new on every delivery, the event's id only on the first.
DraftOf(event_id, kind, occurred_at, actor) ==
  With([event_id |-> event_id, envelope_id |-> serial, occurred_at |-> occurred_at,
        actor_user_id |-> actor.user_id, actor_username |-> actor.username],
       kind)

Add(draft) ==
  /\ serial <= LogBound
  /\ records' = MemoryAdd(draft)
  /\ rows' = TableAdd(draft)
  /\ serial' = serial + 1

Deliver(kind, occurred_at, actor) ==
  /\ Add(DraftOf(Len(records) + 1, kind, occurred_at, actor))
  /\ UNCHANGED <<now, answer>>

\* An event published before and kept by its recorder is published again, by
\* whichever command drains the recorder.
Redeliver(first, actor) ==
  /\ Add(DraftOf(first.event_id,
                 [f \in KindFields |-> first[f]],
                 first.occurred_at, actor))
  /\ UNCHANGED <<now, answer>>

Tick ==
  /\ now + 1 \in Times
  /\ now' = now + 1
  /\ UNCHANGED <<records, rows, serial, answer>>

Denial(resource_type, resource_id) ==
  [event_type |-> "AuthorizationDenied", resource_type |-> resource_type,
   resource_id |-> resource_id, action |-> "authorization_denied",
   source |-> CHOOSE s \in Sources : TRUE]

\* ViewAuditsUseCase.execute: whom the filters ask about, beside the viewer.
AsksForOthers(viewer, filters) ==
  \/ Given(filters, "actor_user_id") /\ filters.actor_user_id # viewer.user_id
  \/ Given(filters, "actor_username") /\ filters.actor_username # viewer.username

\* The denied target: the other user's id when the filter gives one, or the name.
OtherUser(viewer, filters) ==
  IF Given(filters, "actor_user_id") /\ filters.actor_user_id # viewer.user_id
  THEN ToString(filters.actor_user_id)
  ELSE filters.actor_username

EffectiveFilters(viewer, filters) ==
  IF viewer \in Auditors THEN filters ELSE With([actor_user_id |-> viewer.user_id], filters)

Refuse(viewer, filters, denial) ==
  /\ Add(DraftOf(Len(records) + 1, denial, now, viewer))
  /\ answer' = [viewer |-> viewer, filters |-> filters, outcome |-> "denied"]
  /\ UNCHANGED now

View(viewer, filters, page) ==
  \/ /\ viewer \notin Users
     /\ Refuse(viewer, filters, Denial("audit_log", None))
  \/ /\ viewer \in Users \ Auditors
     /\ AsksForOthers(viewer, filters)
     /\ Refuse(viewer, filters, Denial("user", OtherUser(viewer, filters)))
  \/ /\ viewer \in Users
     /\ viewer \in Auditors \/ ~AsksForOthers(viewer, filters)
     /\ LET effective == EffectiveFilters(viewer, filters) IN
          answer' =
            IF ValidPage(page)
            THEN [viewer |-> viewer, filters |-> filters, page |-> page, outcome |-> "page",
                  memory |-> MemoryPage(effective, page), table |-> TablePage(effective, page)]
            ELSE [viewer |-> viewer, filters |-> filters, outcome |-> "invalid page"]
     /\ UNCHANGED <<records, rows, serial, now>>

Init ==
  /\ records = <<>>
  /\ rows = {}
  /\ serial = 1
  /\ now \in {t \in Times : \A u \in Times : t <= u}
  /\ answer = None

\* The response has been sent.
Answered ==
  /\ answer # None
  /\ answer' = None
  /\ UNCHANGED <<records, rows, serial, now>>

Next ==
  \/ /\ answer = None
     /\ \/ \E kind \in Kinds, occurred_at \in Times, actor \in Actors :
             Deliver(kind, occurred_at, actor)
        \/ \E first \in FirstRecords, actor \in Actors : Redeliver(first, actor)
        \/ Tick
        \/ \E viewer \in Actors, filters \in Filters, page \in Pages :
             View(viewer, filters, page)
  \/ Answered

Spec == Init /\ [][Next]_vars

-----------------------------------------------------------------------------
(* Properties.                                                             *)

Content(record) == [f \in DOMAIN record \ {"audit_id", "total"} |-> record[f]]

SamePage(p, q) ==
  /\ p.total = q.total
  /\ Len(p.items) = Len(q.items)
  /\ \A i \in DOMAIN p.items : Content(p.items[i]) = Content(q.items[i])

\* Whatever was delivered, and however often, the in-memory repository and the
\* table show the same page: the same records, envelopes and total, although
\* their audit ids differ (audit_repository.py of both backends).
BackendsAgree ==
  answer # None /\ answer.outcome = "page" => SamePage(answer.memory, answer.table)

\* How many items a page has: those asked for that are left from its offset on,
\* and no more than its limit.
ItemsDue(page, count) ==
  IF page.limit = None THEN count
  ELSE IF count <= page.offset THEN 0
  ELSE IF count <= page.offset + page.limit THEN count - page.offset
  ELSE page.limit

\* A page holds exactly the records of its places among those its viewer may
\* see and asked for, the latest first: an auditor all that match, another user
\* those of their own (view_audits.py, which swaps the filter on actors for the
\* viewer's id).  It is as long as those records last, and the total, when it
\* is included, counts all of them.
PageIsExact ==
  answer # None /\ answer.outcome = "page" =>
    LET allowed == {r \in FirstRecords : answer.viewer \in Auditors
                                            \/ r.actor_user_id = answer.viewer.user_id}
        asked == {r \in allowed : Matches(r, answer.filters)}
        page == answer.page
        items == answer.memory.items
    IN  /\ \A i \in DOMAIN items :
             /\ items[i] \in asked
             /\ Cardinality({r \in asked : Before(r, items[i])}) = page.offset + i - 1
        /\ Len(items) = ItemsDue(page, Cardinality(asked))
        /\ answer.memory.total =
             IF page.limit # None /\ page.include_total THEN Cardinality(asked) ELSE None

\* Records are only ever added: a second delivery changes nothing that the
\* first one wrote, in either backend (AuditRepositoryPort.add).
RecordsAreKept ==
  [][IsPrefix(records, records') /\ rows \subseteq rows'
       /\ Len(records') = Cardinality(rows')]_vars

=============================================================================
