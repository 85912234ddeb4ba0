-------------------------- MODULE DispatchDatabase --------------------------
(***************************************************************************)
(* Routes, trucks and packages in PostgreSQL, under HTTP handlers that run *)
(* at the same time (adapters/driven/persistence/database).                *)
(*                                                                         *)
(* A command reads copies, statement by statement, decides on them, and    *)
(* writes whole rows back.  AssignPackages writes each row in a            *)
(* transaction of its own; the other commands use the unit of work.  A     *)
(* process has one container, hence one PostgresUnitOfWork object, which   *)
(* its handler threads share: __enter__ replaces the connection, and each  *)
(* statement, commit and __exit__ uses the one it finds there.             *)
(*                                                                         *)
(* Reading commits what others committed (READ COMMITTED); a written row   *)
(* is locked until its transaction ends.  A row's data is its links: the   *)
(* truck of a route, the route of a package, and whether a truck is free.  *)
(* Every package weighs one and travels the same segment.  Heartbeats are  *)
(* left out: the HTTP API runs none.                                       *)
(***************************************************************************)
EXTENDS Integers, Sequences, FiniteSets, SequencesExt

CONSTANTS
  None,          \* NULL
  Gone,          \* no such row
  Routes, Trucks, Packages,
  Processes,     \* server processes, each with its container
  Capacity,      \* packages a truck carries
  ThreadBound,   \* bound: commands in progress at a time
  CommandBound   \* bound: commands started

ASSUME DispatchDatabaseAssumption ==
  /\ None # Gone /\ {None, Gone} \cap (Routes \cup Trucks) = {}
  /\ Routes \cap (Trucks \cup Packages) = {} /\ Trucks \cap Packages = {}
  /\ IsFiniteSet(Packages)
  /\ {Capacity, ThreadBound, CommandBound} \subseteq Nat

VARIABLES
  db,           \* the committed rows
  connections,  \* opened by units of work: [open, aborted, writes]
  unit,         \* the unit of work of each process: [connection, committed]
  commands,     \* the commands so far
  stale         \* a write was committed whose copies no longer matched the rows

vars == <<db, connections, unit, commands, stale>>

Rows == Routes \cup Trucks \cup Packages

Load(rows, r) == {p \in Packages : rows[p] = r}
RouteOf(rows, t) == {r \in Routes : rows[r] = t}

\* Reads and writes of one command on one row each.
Statement(row, value) == [row |-> row, value |-> value]

NoCopy == [truck |-> None, packages |-> {}]

NewCommand ==
  [kind |-> "", process |-> None, route |-> None, truck |-> None, packages |-> <<>>,
   phase |-> "route", copy |-> NoCopy,
   todo |-> <<>>,       \* statements of the unit of work still to execute,
   planned |-> 0,       \* and how many there are;
   kept |-> 0,          \* how many have been committed
   cursor |-> 0,        \* connection of a statement that waits for a row
   failed |-> FALSE,
   unanswered |-> FALSE,   \* its COMMIT took effect and the answer was lost
   shared |-> FALSE, outcome |-> "running"]

Running(k) == commands[k].phase # "ended"
InUnit(k) == commands[k].phase \in {"statements", "commit", "exit"}
Others(k) == DOMAIN commands \ {k}

Goto(k, phase) == commands' = [commands EXCEPT ![k].phase = phase]

\* What is remembered of a command is its outcome and what it wrote.
Ended(c, outcome) ==
  [NewCommand EXCEPT !.phase = "ended", !.outcome = outcome, !.planned = c.planned,
                     !.kept = c.kept, !.unanswered = c.unanswered, !.shared = c.shared]
End(k, outcome) == commands' = [commands EXCEPT ![k] = Ended(@, outcome)]

Untouched == UNCHANGED <<db, connections, unit, stale>>

-----------------------------------------------------------------------------
(* Requests.                                                               *)

Begin(command) ==
  /\ Len(commands) < CommandBound
  /\ Cardinality({k \in DOMAIN commands : Running(k)}) < ThreadBound
  /\ \E p \in Processes : commands' = Append(commands, [command EXCEPT !.process = p])
  /\ Untouched

Start ==
  \/ \E r \in Routes, t \in Trucks :
       Begin([NewCommand EXCEPT !.kind = "assign truck", !.route = r, !.truck = t])
  \/ \E r \in Routes, ps \in {s \in SeqOf(Packages, 2) : s # <<>> /\ IsInjective(s)} :
       Begin([NewCommand EXCEPT !.kind = "assign packages", !.route = r, !.packages = ps])
  \/ \E r \in Routes : Begin([NewCommand EXCEPT !.kind = "remove route", !.route = r])
  \/ \E p \in Packages :
       Begin([NewCommand EXCEPT !.kind = "remove package", !.packages = <<p>>,
                                !.phase = "package"])

-----------------------------------------------------------------------------
(* Reading.  A graph is read in several statements of one transaction, each *)
(* of which sees what is committed when it runs.                           *)

\* sql/routes/get_by_id.sql
ReadRoute(k) ==
  /\ commands[k].phase = "route"
  /\ IF db[commands[k].route] = Gone THEN End(k, "raised") ELSE Goto(k, "truck of route")
  /\ Untouched

\* sql/trucks/get_by_route_id.sql: the join finds nothing once the route is gone.
ReadTruckOfRoute(k) ==
  /\ commands[k].phase = "truck of route"
  /\ LET t == db[commands[k].route] IN
       commands' = [commands EXCEPT ![k].phase = "load",
                                    ![k].copy.truck = IF t \in Trucks THEN t ELSE None]
  /\ Untouched

\* What the unit of work of RemoveRoute executes, given the route's copy.
RemovalStatements(r, copy) ==
  LET ps == SetToSeq(copy.packages) IN
  [i \in DOMAIN ps |-> Statement(ps[i], None)]
    \o (IF copy.truck = None THEN <<>> ELSE <<Statement(copy.truck, "Free")>>)
    \o <<Statement(r, Gone)>>

Entering(c, todo) == [c EXCEPT !.phase = "enter", !.todo = todo, !.planned = Len(todo)]

\* sql/packages/list_by_route.sql
ReadPackagesOfRoute(k) ==
  /\ commands[k].phase = "load"
  /\ LET c == [commands[k] EXCEPT !.copy.packages = Load(db, commands[k].route)] IN
       commands' = [commands EXCEPT ![k] =
         CASE c.kind = "assign truck" -> [c EXCEPT !.phase = "truck"]
           [] c.kind = "assign packages" -> [c EXCEPT !.phase = "package"]
           [] c.kind = "remove route" -> Entering(c, RemovalStatements(c.route, c.copy))]
  /\ Untouched

\* AssignTruckToRoute without the test of the truck's capacity.
AnyLoadIsSuitable(c) ==
  /\ c.copy.truck = None
  /\ db[c.truck] = "Free" /\ RouteOf(db, c.truck) = {}

\* The copies allow it: _ensure_route_has_no_truck, is_suitable_for_route and
\* DeliveryRoute.assign_truck.
TruckFits(c) ==
  /\ c.copy.truck = None
  /\ Cardinality(c.copy.packages) <= Capacity
  /\ db[c.truck] = "Free" /\ RouteOf(db, c.truck) = {}

\* sql/trucks/get_by_id_with_route.sql, then the decision.  Range, place and
\* schedule may refuse the truck too.
ReadTruck(k) ==
  /\ commands[k].phase = "truck"
  /\ LET c == commands[k] IN
       \/ /\ TruckFits(c)
          /\ commands' = [commands EXCEPT ![k] =
               Entering(c, <<Statement(c.route, c.truck), Statement(c.truck, "On the way")>>)]
       \/ End(k, "raised")
  /\ Untouched

\* The package is read, with its route's graph: which is torn, and the loader
\* raises, only when another command changes it in between.
GraphTorn(k, p) ==
  db[p] \in Routes /\ \E j \in Others(k) : Running(j)

ReadRemovedPackage(k) ==
  /\ commands[k].phase = "package" /\ commands[k].kind = "remove package"
  /\ LET p == Head(commands[k].packages) IN
       \/ /\ db[p] # Gone
          /\ commands' = [commands EXCEPT ![k] = Entering(@, <<Statement(p, Gone)>>)]
       \/ /\ db[p] = Gone \/ GraphTorn(k, p)
          /\ End(k, "raised")
  /\ Untouched

\* AssignPackages takes the packages one by one; what it cannot assign is listed
\* among the errors of its result.
NextPackage(c) ==
  IF Len(c.packages) > 1 THEN [c EXCEPT !.phase = "package", !.packages = Tail(@)]
  ELSE Ended(c, "returned")

LoadAllows(c, p) ==
  \/ p \in c.copy.packages
  \/ c.copy.truck = None \/ Cardinality(c.copy.packages) < Capacity

ReadAssignedPackage(k) ==
  /\ commands[k].phase = "package" /\ commands[k].kind = "assign packages"
  /\ LET c == commands[k]
         p == Head(c.packages)
     IN  \/ /\ db[p] = None /\ LoadAllows(c, p)
            /\ Goto(k, "write package")
         \/ commands' = [commands EXCEPT ![k] = NextPackage(c)]
         \/ /\ GraphTorn(k, p)
            /\ End(k, "raised")
  /\ Untouched

-----------------------------------------------------------------------------
(* Rows, locks and transactions.                                           *)

RowsWritten(c) == {w.row : w \in ToSet(connections[c].writes)}

Live(c) == connections[c].open

\* Rows after some writes: of those to one row, the last counts.
Overlay(rows, writes) ==
  LET to(x) == {i \in DOMAIN writes : writes[i].row = x}
  IN  [x \in Rows |-> IF to(x) = {} THEN rows[x] ELSE writes[Max(to(x))].value]

\* The rows as the transaction of a connection sees them.
View(c) == Overlay(db, connections[c].writes)

WrittenBy(k, writes) == {i \in DOMAIN writes : writes[i].by = k}

\* ON DELETE SET NULL takes the packages off a deleted route.
Cascade(rows, s) ==
  IF s.row \in Routes /\ s.value = Gone
  THEN SetToSeq({[row |-> p, value |-> None, by |-> 0] : p \in Load(rows, s.row)})
  ELSE <<>>

Writes(rows, s, k) ==
  <<[row |-> s.row, value |-> s.value, by |-> k]>> \o Cascade(rows, s)

\* Transaction d has locked a row that c writes, or has written the same unique value.
WaitsFor(c, s, d) ==
  \/ RowsWritten(d) \cap {w.row : w \in ToSet(Writes(View(c), s, 0))} # {}
  \/ /\ s.row \in Routes /\ s.value \in Trucks
     /\ \E w \in ToSet(connections[d].writes) : w.row \in Routes /\ w.value = s.value

MustWait(c, s) == \E d \in DOMAIN connections \ {c} : WaitsFor(c, s, d)

\* routes.truck_vehicle_id without UNIQUE.
NotUnique(rows, s) == TRUE

\* routes.truck_vehicle_id is UNIQUE.
Unique(rows, s) ==
  s.row \in Routes /\ s.value \in Trucks => RouteOf(rows, s.value) \subseteq {s.row}

CopyIsCurrent(rows, c) ==
  CASE c.kind = "remove package" -> TRUE
    [] c.kind = "assign truck" ->
         /\ rows[c.route] = None /\ Load(rows, c.route) = c.copy.packages
         /\ rows[c.truck] = "Free" /\ RouteOf(rows, c.truck) = {}
    [] OTHER ->
         rows[c.route] = c.copy.truck /\ Load(rows, c.route) = c.copy.packages

\* The transaction of PostgresPackageRepository.update_state.  No row may match:
\* the count is not looked at.  An error raises: the foreign key's, if the route
\* is gone, or any other; and one of COMMIT may come after the row was written.
WritePackage(k) ==
  /\ commands[k].phase = "write package"
  /\ LET c == commands[k]
         p == Head(c.packages)
         linked == p \notin c.copy.packages   \* else assign_package did nothing
         locked == UNION {RowsWritten(d) : d \in DOMAIN connections}
         written == NextPackage([c EXCEPT !.copy.packages = @ \cup {p}])
     IN  \/ /\ p \notin locked /\ db[p] = Gone
            /\ commands' = [commands EXCEPT ![k] = written]
            /\ UNCHANGED <<db, stale>>
         \/ /\ End(k, "raised")
            /\ UNCHANGED <<db, stale>>
         \/ /\ p \notin locked /\ db[p] # Gone
            /\ linked => c.route \notin locked /\ db[c.route] # Gone
            /\ db' = [db EXCEPT ![p] = IF linked THEN c.route ELSE None]
            /\ stale' = (stale \/ ~CopyIsCurrent(db, c) \/ db[p] # None)
            /\ commands' = [commands EXCEPT ![k] = written] \/ End(k, "raised")
  /\ UNCHANGED <<connections, unit>>

-----------------------------------------------------------------------------
(* The unit of work.                                                       *)

NewConnection == [open |-> TRUE, aborted |-> FALSE, writes |-> <<>>]
Closed == [open |-> FALSE, aborted |-> FALSE, writes |-> <<>>]

Unit(k) == unit[commands[k].process]

\* A statement, or rollback and commit, waits while another thread's statement
\* runs on the connection.
InUse(c, k) == c # 0 /\ \E j \in Others(k) : commands[j].cursor = c

\* __enter__.  The connection of a unit that is still open loses its last
\* reference, unless a statement runs on it, and is closed with what it wrote.
Enter(k) ==
  /\ commands[k].phase = "enter"
  /\ LET p == commands[k].process
         old == unit[p].connection
         inside == {j \in Others(k) : commands[j].process = p /\ InUnit(j)}
     IN  /\ connections' = Append([c \in DOMAIN connections |->
              IF c = old /\ ~InUse(old, k) THEN Closed ELSE connections[c]], NewConnection)
         /\ unit' = [unit EXCEPT ![p] = [connection |-> Len(connections) + 1,
                                         committed |-> FALSE]]
         /\ commands' = [j \in DOMAIN commands |->
              IF j = k THEN [commands[j] EXCEPT !.phase = "statements", !.shared = inside # {}]
              ELSE IF j \in inside THEN [commands[j] EXCEPT !.shared = TRUE]
              ELSE commands[j]]
  /\ UNCHANGED <<db, stale>>

\* get_connection fails: nothing has been replaced.
EnterFails(k) ==
  /\ commands[k].phase = "enter"
  /\ End(k, "raised")
  /\ UNCHANGED <<db, connections, unit, stale>>

CursorOf(k) == IF commands[k].cursor # 0 THEN commands[k].cursor ELSE Unit(k).connection

Executing(k) ==
  commands[k].phase = "statements" /\ ~InUse(CursorOf(k), k)

\* After a statement on a connection the unit no longer has, nothing refers to it.
Leave(c, k, connection) ==
  connections' = [connections EXCEPT
    ![c] = IF c = Unit(k).connection THEN connection ELSE Closed]

Raise(k) ==
  commands' = [commands EXCEPT ![k].phase = "exit", ![k].failed = TRUE,
                               ![k].cursor = 0, ![k].todo = <<>>]

Wait(k) ==
  /\ Executing(k) /\ commands[k].cursor = 0
  /\ LET c == CursorOf(k) IN
       /\ Live(c) /\ ~connections[c].aborted
       /\ MustWait(c, Head(commands[k].todo))
       /\ commands' = [commands EXCEPT ![k].cursor = c]
  /\ Untouched

\* An UPDATE or DELETE of one row by its key.
Execute(k) ==
  /\ Executing(k)
  /\ LET c == CursorOf(k)
         s == Head(commands[k].todo)
     IN  /\ Live(c) /\ ~connections[c].aborted /\ ~MustWait(c, s)
         /\ View(c)[s.row] # Gone /\ Unique(View(c), s)
         /\ Leave(c, k, [connections[c] EXCEPT !.writes = @ \o Writes(View(c), s, k)])
         /\ commands' = [commands EXCEPT
              ![k].cursor = 0, ![k].todo = Tail(@),
              ![k].phase = IF Len(commands[k].todo) = 1 THEN "commit" ELSE @]
  /\ UNCHANGED <<db, unit, stale>>

\* RowMissing if the count were not looked at.
MissingIsDone(k) ==
  /\ Executing(k)
  /\ LET c == CursorOf(k)
         s == Head(commands[k].todo)
     IN  /\ Live(c) /\ ~connections[c].aborted /\ ~MustWait(c, s)
         /\ View(c)[s.row] = Gone
         /\ Leave(c, k, connections[c])
  /\ commands' = [commands EXCEPT
       ![k].cursor = 0, ![k].todo = Tail(@),
       ![k].phase = IF Len(commands[k].todo) = 1 THEN "commit" ELSE @]
  /\ UNCHANGED <<db, unit, stale>>

\* The count is not one: ValueError, in a transaction that is still good.
RowMissing(k) ==
  /\ Executing(k)
  /\ LET c == CursorOf(k)
         s == Head(commands[k].todo)
     IN  /\ Live(c) /\ ~connections[c].aborted /\ ~MustWait(c, s)
         /\ View(c)[s.row] = Gone
         /\ Leave(c, k, connections[c])
  /\ Raise(k)
  /\ UNCHANGED <<db, unit, stale>>

Aborted(c) == [connections[c] EXCEPT !.aborted = TRUE, !.writes = <<>>]

\* Any statement may fail, by a key, as the victim of a deadlock or with the
\* server; and it fails on a connection that another thread has closed, or on
\* which its statement has failed.
StatementFails(k) ==
  /\ Executing(k)
  /\ LET c == CursorOf(k)
         s == Head(commands[k].todo)
         good == Live(c) /\ ~connections[c].aborted
     IN  Leave(c, k, IF good THEN Aborted(c) ELSE connections[c])
  /\ Raise(k)
  /\ UNCHANGED <<db, unit, stale>>

\* COMMIT of an aborted transaction rolls it back, and reports no error.  The
\* server has committed before it answers: a connection lost in between fails a
\* commit that took effect.
Persist(k, answered) ==
  /\ commands[k].phase = "commit"
  /\ LET c == Unit(k).connection
         writes == connections[c].writes
         authors == {w.by : w \in ToSet(writes)} \ {0}
     IN  /\ Live(c) /\ ~InUse(c, k)
         /\ db' = View(c)
         /\ connections' = [connections EXCEPT ![c] = IF answered THEN NewConnection ELSE Closed]
         /\ stale' = (stale \/ \E j \in authors : ~Running(j) \/ ~CopyIsCurrent(db, commands[j]))
         /\ commands' = [j \in DOMAIN commands |->
              [commands[j] EXCEPT
                 !.phase = IF j = k THEN "exit" ELSE @,
                 !.failed = @ \/ (j = k /\ ~answered),
                 !.unanswered = @ \/ (j = k /\ ~answered),
                 !.kept = @ + Cardinality(WrittenBy(j, writes))]]
  /\ unit' = [unit EXCEPT ![commands[k].process].committed = @ \/ answered]

Commit(k) == Persist(k, TRUE)
CommitUnanswered(k) == Persist(k, FALSE)

\* The connection is lost before COMMIT takes effect, or another thread has
\* closed it.
CommitFails(k) ==
  /\ commands[k].phase = "commit"
  /\ LET c == Unit(k).connection IN
       /\ Live(c) => ~InUse(c, k)
       /\ connections' = [connections EXCEPT ![c] = Closed]
  /\ Raise(k)
  /\ UNCHANGED <<db, unit, stale>>

\* __exit__: roll back unless committed, close, and raise what rollback raised
\* unless the command is raising already.
Exit(k) ==
  /\ commands[k].phase = "exit"
  /\ LET c == Unit(k).connection
         rollback == ~Unit(k).committed
     IN  /\ rollback => ~InUse(c, k)
         /\ connections' = [connections EXCEPT ![c] = Closed]
         /\ End(k, IF commands[k].failed \/ (rollback /\ ~Live(c)) THEN "raised" ELSE "returned")
  /\ UNCHANGED <<db, unit, stale>>

-----------------------------------------------------------------------------

Linked(rows) ==
  /\ \A p \in Packages : rows[p] \in Routes => rows[rows[p]] # Gone
  /\ \A r, s \in Routes : rows[r] \in Trucks /\ rows[r] = rows[s] => r = s

Sound(rows) ==
  /\ \A r \in Routes : rows[r] \in Trucks => Cardinality(Load(rows, r)) <= Capacity
  /\ \A t \in Trucks : rows[t] = "On the way" <=> RouteOf(rows, t) # {}

\* Any world that commands run one after the other have built.
Init ==
  /\ \E route \in [Routes -> Trucks \cup {None, Gone}],
        truck \in [Trucks -> {"Free", "On the way"}],
        package \in [Packages -> Routes \cup {None, Gone}] :
       db = [x \in Rows |-> IF x \in Routes THEN route[x]
                            ELSE IF x \in Trucks THEN truck[x] ELSE package[x]]
  /\ Linked(db) /\ Sound(db)
  /\ connections = <<>>
  /\ unit = [p \in Processes |-> [connection |-> 0, committed |-> FALSE]]
  /\ commands = <<>>
  /\ stale = FALSE

Step(k) ==
  \/ ReadRoute(k) \/ ReadTruckOfRoute(k) \/ ReadPackagesOfRoute(k)
  \/ ReadTruck(k) \/ ReadRemovedPackage(k) \/ ReadAssignedPackage(k) \/ WritePackage(k)
  \/ Enter(k) \/ EnterFails(k)
  \/ Wait(k) \/ Execute(k) \/ RowMissing(k) \/ StatementFails(k)
  \/ Commit(k) \/ CommitUnanswered(k) \/ CommitFails(k) \/ Exit(k)

AllEnded == Len(commands) = CommandBound /\ \A k \in DOMAIN commands : ~Running(k)

Next ==
  \/ Start
  \/ \E k \in DOMAIN commands : Step(k)
  \/ AllEnded /\ UNCHANGED vars

Spec == Init /\ [][Next]_vars

-----------------------------------------------------------------------------
(* Properties.                                                             *)

\* Whatever interleaves, no package row names a missing route and no truck is
\* on two routes (schema.sql: the keys of routes and packages).
RowsStayLinked == Linked(db)

\* A commit without an answer leaves a command that raises and is kept whole.
AllOrNothing(c) ==
  /\ c.outcome = "returned" => c.kept = c.planned
  /\ c.outcome = "raised" => c.kept = 0 \/ (c.unanswered /\ c.kept = c.planned)

\* A unit of work that no other thread of its process enters meanwhile commits
\* every statement of a command that returns and none of one that raises, unless
\* it raises because COMMIT took effect without an answer: then every statement
\* again, never some (unit_of_work.py), under lock waits, missing rows, failing
\* statements, failing commits and lost connections.
LoneUnitIsAtomic ==
  \A k \in DOMAIN commands : ~commands[k].shared => AllOrNothing(commands[k])

\* The same of every unit of work: UnitOfWorkPort promises "atomic persistence
\* across multiple repositories" (ports/output/unit_of_work.py).
UnitOfWorkIsAtomic ==
  \A k \in DOMAIN commands : AllOrNothing(commands[k])

\* Overloaded trucks, busy trucks without a route and the like come from copies
\* that were out of date when they were committed, or from a shared unit of
\* work, and from nothing else (assign_truck_to_route.py, remove_route.py,
\* assign_packages_to_route.py and the graph loaders).
OnlyStaleCopiesHarm ==
  ~stale /\ (\A k \in DOMAIN commands : ~commands[k].shared) => Sound(db)

=============================================================================
