----------------------- MODULE DispatchDatabaseProofs -----------------------
(***************************************************************************)
(* What the database owes the commands of DispatchDatabase, for any number *)
(* of processes, threads, commands and rows.                               *)
(*                                                                         *)
(* Three invariants, each resting on those before it.  LinksInv holds of   *)
(* every interleaving.  AtomicInv counts, for a unit of work that no other *)
(* thread enters, what its transaction holds and what is left to do.       *)
(* SoundInv says that the transaction holds the plan of its command and no *)
(* more: on copies that are still current, committing it keeps the rows    *)
(* sound.                                                                  *)
(***************************************************************************)
EXTENDS DispatchDatabase, SequenceTheorems, FiniteSetTheorems, WellFoundedInduction, TLAPS

-----------------------------------------------------------------------------
(* Types                                                                   *)

RowValues ==
  {f \in [Rows -> Routes \cup Trucks \cup {None, Gone, "Free", "On the way"}] :
     /\ \A r \in Routes : f[r] \in Trucks \cup {None, Gone}
     /\ \A t \in Trucks : f[t] \in {"Free", "On the way"}
     /\ \A p \in Packages : f[p] \in Routes \cup {None, Gone}}

\* A unit of work links no package to a route: AssignPackages has no unit of work.
Statements ==
  [row : Routes, value : Trucks \cup {Gone}]
    \cup [row : Trucks, value : {"Free", "On the way"}]
    \cup [row : Packages, value : {None, Gone}]

WriteRecords ==
  {w \in [row : Rows, value : Trucks \cup {None, Gone, "Free", "On the way"}, by : Nat] :
     Statement(w.row, w.value) \in Statements}

ConnectionState == [open : BOOLEAN, aborted : BOOLEAN, writes : Seq(WriteRecords)]

UnitKinds == {"assign truck", "remove route", "remove package"}
RouteKinds == {"assign truck", "assign packages", "remove route"}
ReadingPhases ==
  {"route", "truck of route", "load", "truck", "package", "write package"}
UnitPhases == {"statements", "commit", "exit"}

Kinds == UnitKinds \cup RouteKinds \cup {""}
Phases == ReadingPhases \cup {"enter"} \cup UnitPhases \cup {"ended"}
Outcomes == {"running", "returned", "raised"}

CommandState ==
  [kind : Kinds, process : Processes \cup {None},
   route : Routes \cup {None}, truck : Trucks \cup {None}, packages : Seq(Packages),
   phase : Phases,
   copy : [truck : Trucks \cup {None}, packages : SUBSET Packages],
   todo : Seq(Statements), planned : Nat, kept : Nat, cursor : Nat,
   failed : BOOLEAN, unanswered : BOOLEAN, shared : BOOLEAN, outcome : Outcomes]

\* What a running command is called with.
Called(c) ==
  /\ c.process \in Processes /\ c.outcome = "running"
  /\ c.kind \in RouteKinds => c.route \in Routes
  /\ c.kind = "assign truck" => c.truck \in Trucks
  /\ c.kind \in {"assign packages", "remove package"} => c.packages # <<>>

\* A command that still reads has done nothing yet.
Fresh(c) ==
  /\ c.kept = 0 /\ c.cursor = 0 /\ ~c.failed /\ ~c.shared

PhaseOK(c) ==
  /\ c.phase \in {"route", "truck of route", "load"} => c.kind \in RouteKinds
  /\ c.phase = "truck" => c.kind = "assign truck"
  /\ c.phase = "package" => c.kind \in {"assign packages", "remove package"}
  /\ c.phase = "write package" => c.kind = "assign packages"
  /\ c.phase \in {"enter"} \cup UnitPhases => c.kind \in UnitKinds
  /\ c.phase \in ReadingPhases \cup {"enter"} => Fresh(c)
  /\ c.phase \in ReadingPhases => c.planned = 0
  /\ c.phase = "enter" => c.todo # <<>> /\ c.planned = Len(c.todo)
  /\ c.phase = "statements" => c.todo # <<>>
  /\ c.phase \in {"commit", "exit", "ended"} => c.todo = <<>> /\ c.cursor = 0

CommandOK(c) ==
  /\ c \in CommandState
  /\ c.phase # "ended" => Called(c)
  /\ PhaseOK(c)

TypeOK ==
  /\ db \in RowValues
  /\ connections \in Seq(ConnectionState)
  /\ unit \in [Processes -> [connection : Nat, committed : BOOLEAN]]
  /\ commands \in Seq(CommandState)
  /\ \A k \in DOMAIN commands : CommandOK(commands[k])
  /\ stale \in BOOLEAN

-----------------------------------------------------------------------------
(* Units of work                                                           *)

\* Connections belong to one process; one that a unit has had is never given
\* out again.
UnitsOK ==
  /\ \A p \in Processes : unit[p].connection <= Len(connections)
  /\ \A p, q \in Processes :
       p # q /\ unit[p].connection = unit[q].connection => unit[p].connection = 0
  /\ \A k \in DOMAIN commands :
       /\ InUnit(k) => Unit(k).connection # 0
       /\ commands[k].cursor <= Len(connections)
       /\ \A p \in Processes :
            InUnit(k) /\ p # commands[k].process /\ commands[k].cursor # 0
              => commands[k].cursor # unit[p].connection

Lone(k) == InUnit(k) /\ ~commands[k].shared

LoneUnits ==
  \A k \in DOMAIN commands : Lone(k) =>
    /\ commands[k].cursor \in {0, Unit(k).connection}
    /\ \A j \in Others(k) : InUnit(j) => commands[j].process # commands[k].process

\* Who has written what a transaction holds.
WritesOwned ==
  \A c \in DOMAIN connections : \A i \in DOMAIN connections[c].writes :
    LET b == connections[c].writes[i].by IN
    b # 0 =>
      /\ b \in DOMAIN commands
      /\ commands[b].phase \in UnitPhases \cup {"ended"}
      /\ ~commands[b].shared => InUnit(b) /\ c = Unit(b).connection

BaseInv == TypeOK /\ UnitsOK /\ LoneUnits /\ WritesOwned

-----------------------------------------------------------------------------
(* Links                                                                   *)

\* Removing a route has taken its packages off, in the same transaction.
RemovalCascades ==
  \A c \in DOMAIN connections : \A i \in DOMAIN connections[c].writes :
    LET w == connections[c].writes[i] IN
    w.row \in Routes /\ w.value = Gone =>
      \A p \in Packages : db[p] = w.row => p \in RowsWritten(c)

\* The index on routes.truck_vehicle_id, with the entries of open transactions.
TrucksUnique(rows) ==
  \A r, s \in Routes : rows[r] \in Trucks /\ rows[r] = rows[s] => r = s

TrucksReserved ==
  /\ \A c \in DOMAIN connections : TrucksUnique(View(c))
  /\ \A c, d \in DOMAIN connections :
       \A i \in DOMAIN connections[c].writes : \A j \in DOMAIN connections[d].writes :
         LET v == connections[c].writes[i]
             w == connections[d].writes[j]
         IN  v.row \in Routes /\ w.row \in Routes /\ v.value \in Trucks /\ v.value = w.value
               => c = d

LinksInv == RowsStayLinked /\ RemovalCascades /\ TrucksReserved

-----------------------------------------------------------------------------
(* Atomicity                                                               *)

Done(k) == Cardinality(WrittenBy(k, connections[Unit(k).connection].writes))

LoneProgress(k) ==
  LET c == connections[Unit(k).connection] IN
  IF commands[k].phase = "exit"
  THEN IF commands[k].failed
       THEN /\ ~Unit(k).committed
            /\ \/ commands[k].kept = 0
               \/ commands[k].unanswered /\ commands[k].kept = commands[k].planned
       ELSE commands[k].kept = commands[k].planned /\ Unit(k).committed
  ELSE /\ c.open /\ ~c.aborted /\ ~Unit(k).committed /\ ~commands[k].failed
       /\ commands[k].kept = 0
       /\ Done(k) + Len(commands[k].todo) = commands[k].planned

AtomicInv ==
  /\ \A k \in DOMAIN commands : Lone(k) => LoneProgress(k)
  /\ \A k \in DOMAIN commands :
       commands[k].phase = "ended" /\ ~commands[k].shared => AllOrNothing(commands[k])

-----------------------------------------------------------------------------
(* Soundness                                                               *)

\* The statements of the unit of work, as a set.
Plan(c) ==
  CASE c.kind = "assign truck" ->
         {Statement(c.route, c.truck), Statement(c.truck, "On the way")}
    [] c.kind = "remove route" ->
         {Statement(p, None) : p \in c.copy.packages}
           \cup (IF c.copy.truck = None THEN {} ELSE {Statement(c.copy.truck, "Free")})
           \cup {Statement(c.route, Gone)}
    [] OTHER -> {Statement(Head(c.packages), Gone)}

Decided(c) ==
  /\ c.phase = "write package" => LoadAllows(c, Head(c.packages))
  /\ c.kind = "assign truck" /\ c.phase \in {"enter"} \cup UnitPhases =>
       c.copy.truck = None /\ Cardinality(c.copy.packages) <= Capacity
  /\ c.phase = "enter" => ToSet(c.todo) = Plan(c)
  /\ c.phase \in {"enter"} \cup UnitPhases => c.planned # 0

\* Of a unit that no other thread enters: what its transaction holds and what it
\* still has to execute are its plan, and what a removed route's packages lose.
LonePlan(k) ==
  LET c == commands[k]
      writes == connections[Unit(k).connection].writes
  IN  c.phase \in {"statements", "commit"} =>
        /\ ToSet(c.todo) \subseteq Plan(c)
        /\ \A i \in DOMAIN writes :
             LET s == Statement(writes[i].row, writes[i].value) IN
             \/ s \in Plan(c)
             \/ c.kind = "remove route" /\ s \in {Statement(p, None) : p \in Packages}
        /\ \A s \in Plan(c) :
             \/ s \in ToSet(c.todo)
             \/ \E i \in DOMAIN writes : Statement(writes[i].row, writes[i].value) = s

PlansInv ==
  /\ \A k \in DOMAIN commands : Decided(commands[k])
  /\ \A k \in DOMAIN commands : Lone(k) => LonePlan(k)

Clean == ~stale /\ \A k \in DOMAIN commands : ~commands[k].shared

SoundInv == PlansInv /\ (Clean => Sound(db))

-----------------------------------------------------------------------------
(* Sequences and overlays                                                  *)

\* A set of numbers up to n that is not empty has a greatest element.
LEMMA GreatestExists ==
  ASSUME NEW n \in Nat, NEW S \in SUBSET (1 .. n), S # {}
  PROVE  Max(S) \in S /\ \A y \in S : Max(S) >= y
<1> DEFINE T == {n - i : i \in S}
           R == OpToRel(<, Nat)
<1>1. T \subseteq Nat /\ T # {}
  <2>1. \A i \in S : n - i \in Nat
    <3> TAKE i \in S
    <3>1. i \in 1 .. n
      OBVIOUS
    <3> QED BY <3>1
  <2>2. PICK i \in S : TRUE
    OBVIOUS
  <2>3. n - i \in T
    OBVIOUS
  <2>4. T \subseteq Nat
    BY <2>1, Zenon
  <2> QED BY <2>3, <2>4
<1>2. \A y, z \in Nat : y < z => <<y, z>> \in R
  BY Zenon DEF OpToRel
<1>3. IsWellFoundedOn(R, Nat)
  BY NatLessThanWellFounded
<1> HIDE DEF R
<1>4. PICK x \in T : \A y \in T : ~ (<<y, x>> \in R)
  <2> HIDE DEF T
  <2> QED BY <1>1, <1>3, WFMin
<1>5. \A y \in T : x <= y
  <2> TAKE y \in T
  <2>1. x \in Nat /\ y \in Nat
    BY <1>1
  <2>2. ~ (y < x)
    BY <1>2, <1>4, <2>1
  <2> HIDE DEF T
  <2> QED BY <2>1, <2>2
<1>6. PICK m \in S : x = n - m
  OBVIOUS
<1>7. \A y \in S : m >= y
  <2> TAKE y \in S
  <2>1. n - y \in T
    OBVIOUS
  <2>2. x <= n - y /\ y \in Nat /\ m \in Nat
    BY <1>5, <2>1
  <2> QED BY <1>6, <2>2
<1> HIDE DEF T
<1> QED BY <1>7 DEF Max

\* A finite set, listed.
LEMMA Listing ==
  ASSUME NEW S, IsFiniteSet(S)
  PROVE  /\ SetToSeq(S) \in Seq(S)
         /\ Len(SetToSeq(S)) = Cardinality(S)
         /\ \A x \in S : \E i \in DOMAIN SetToSeq(S) : SetToSeq(S)[i] = x
<1> DEFINE n == Cardinality(S)
<1>1. n \in Nat /\ ExistsBijection(1 .. n, S)
  BY FS_CardinalityType
<1>2. \E f \in [1 .. n -> S] : IsInjective(f)
  BY <1>1 DEF ExistsBijection, Bijection, Injection
<1>3. SetToSeq(S) \in [1 .. n -> S] /\ IsInjective(SetToSeq(S))
  BY <1>2 DEF SetToSeq
<1>4. SetToSeq(S) \in Injection(1 .. n, S)
  BY <1>3 DEF Injection
<1>5. Cardinality(1 .. n) = n
  BY <1>1, FS_Interval
<1>6. SetToSeq(S) \in Surjection(1 .. n, S)
  BY <1>4, <1>5, FS_Injection
<1>7. \A x \in S : \E i \in 1 .. n : SetToSeq(S)[i] = x
  BY <1>6 DEF Surjection
<1>8. SetToSeq(S) \in Seq(S) /\ Len(SetToSeq(S)) = n /\ DOMAIN SetToSeq(S) = 1 .. n
  BY <1>1, <1>3
<1> QED BY <1>7, <1>8

\* Rows that were not written keep their value, the others have the value of
\* their last write.
LEMMA OverlayValue ==
  ASSUME NEW rows, NEW writes, NEW n \in Nat, DOMAIN writes = 1 .. n, NEW x \in Rows
  PROVE  \/ /\ \A i \in DOMAIN writes : writes[i].row # x
            /\ Overlay(rows, writes)[x] = rows[x]
         \/ \E i \in DOMAIN writes :
              /\ writes[i].row = x /\ Overlay(rows, writes)[x] = writes[i].value
              /\ \A j \in DOMAIN writes : writes[j].row = x => j <= i
<1> DEFINE S == {i \in DOMAIN writes : writes[i].row = x}
<1>1. Overlay(rows, writes)[x] = IF S = {} THEN rows[x] ELSE writes[Max(S)].value
  BY Zenon DEF Overlay
<1>2. CASE S = {}
  BY <1>1, <1>2
<1>3. CASE S # {}
  <2>1. Max(S) \in S /\ \A y \in S : Max(S) >= y
    BY <1>3, GreatestExists
  <2> HIDE DEF S
  <2>2. Overlay(rows, writes)[x] = writes[Max(S)].value
    BY <1>1, <1>3
  <2>3. Max(S) \in DOMAIN writes /\ writes[Max(S)].row = x
    BY <2>1 DEF S
  <2>4. \A j \in DOMAIN writes : writes[j].row = x => j <= Max(S)
    BY <2>1, <2>3 DEF S
  <2> QED BY <2>2, <2>3, <2>4
<1> QED BY <1>2, <1>3

LEMMA OverlayDomain ==
  ASSUME NEW rows, NEW writes
  PROVE  DOMAIN Overlay(rows, writes) = Rows
BY Zenon DEF Overlay

\* The value of a row after its last write.
LEMMA LastWrite ==
  ASSUME NEW rows, NEW writes, NEW n \in Nat, DOMAIN writes = 1 .. n, NEW x \in Rows,
         NEW i \in DOMAIN writes, writes[i].row = x,
         \A j \in DOMAIN writes : writes[j].row = x => j <= i
  PROVE  Overlay(rows, writes)[x] = writes[i].value
<1>1. PICK m \in DOMAIN writes :
        /\ writes[m].row = x /\ Overlay(rows, writes)[x] = writes[m].value
        /\ \A j \in DOMAIN writes : writes[j].row = x => j <= m
  BY OverlayValue
<1>2. m <= i /\ i <= m /\ m \in Nat /\ i \in Nat
  BY <1>1
<1> QED BY <1>1, <1>2

LEMMA OverlayOrigin ==
  ASSUME NEW rows, NEW writes, NEW n \in Nat, DOMAIN writes = 1 .. n, NEW x \in Rows
  PROVE  \/ (\A i \in DOMAIN writes : writes[i].row # x) /\ Overlay(rows, writes)[x] = rows[x]
         \/ \E i \in DOMAIN writes :
              writes[i].row = x /\ Overlay(rows, writes)[x] = writes[i].value
BY OverlayValue

\* A row that nothing writes keeps its value.
LEMMA NotWritten ==
  ASSUME NEW rows, NEW writes, NEW n \in Nat, DOMAIN writes = 1 .. n, NEW x \in Rows,
         \A i \in DOMAIN writes : writes[i].row # x
  PROVE  Overlay(rows, writes)[x] = rows[x]
BY OverlayValue

\* What two sequences hold together.
LEMMA ConcatSet ==
  ASSUME NEW S, NEW s \in Seq(S), NEW t \in Seq(S)
  PROVE  /\ s \o t \in Seq(S) /\ Len(s \o t) = Len(s) + Len(t)
         /\ ToSet(s \o t) = ToSet(s) \cup ToSet(t)
<1>1. /\ s \o t \in Seq(S) /\ Len(s \o t) = Len(s) + Len(t)
      /\ \A i \in 1 .. Len(s) + Len(t) :
           (s \o t)[i] = IF i <= Len(s) THEN s[i] ELSE t[i - Len(s)]
  BY ConcatProperties
<1>2. Len(s) \in Nat /\ Len(t) \in Nat /\ DOMAIN s = 1 .. Len(s) /\ DOMAIN t = 1 .. Len(t)
      /\ DOMAIN (s \o t) = 1 .. Len(s) + Len(t)
  BY <1>1, LenProperties
<1>3. ASSUME NEW i \in DOMAIN (s \o t) PROVE (s \o t)[i] \in ToSet(s) \cup ToSet(t)
  <2>1. CASE i <= Len(s)
    BY <1>1, <1>2, <1>3, <2>1 DEF ToSet
  <2>2. CASE ~ (i <= Len(s))
    <3>1. i - Len(s) \in DOMAIN t
      BY <1>2, <1>3, <2>2
    <3> QED BY <1>1, <1>2, <1>3, <2>2, <3>1 DEF ToSet
  <2> QED BY <2>1, <2>2
<1>4. ASSUME NEW i \in DOMAIN s PROVE s[i] \in ToSet(s \o t)
  <2>1. i \in 1 .. Len(s) + Len(t) /\ (s \o t)[i] = s[i]
    BY <1>1, <1>2
  <2> QED BY <1>2, <2>1 DEF ToSet
<1>5. ASSUME NEW i \in DOMAIN t PROVE t[i] \in ToSet(s \o t)
  <2>1. i + Len(s) \in 1 .. Len(s) + Len(t) /\ (s \o t)[i + Len(s)] = t[i]
    BY <1>1, <1>2
  <2> QED BY <1>2, <2>1 DEF ToSet
<1> QED BY <1>1, <1>3, <1>4, <1>5 DEF ToSet

\* The shortest sequences and what they hold.
LEMMA EmptySet ==
  DOMAIN <<>> = {} /\ ToSet(<<>>) = {}
<1>1. DOMAIN <<>> = 1 .. Len(<<>>) /\ Len(<<>>) = 0
  <2>1. <<>> \in Seq({})
    BY EmptySeq
  <2> QED BY <2>1, EmptySeq, LenProperties
<1>2. DOMAIN <<>> = {}
  BY <1>1
<1> QED BY <1>2, Zenon DEF ToSet

LEMMA SingleSet ==
  ASSUME NEW S, NEW x \in S
  PROVE  /\ <<x>> \in Seq(S) /\ Len(<<x>>) = 1 /\ DOMAIN <<x>> = {1} /\ <<x>>[1] = x
         /\ ToSet(<<x>>) = {x}
<1>1. <<x>> \in Seq(S) /\ Len(<<x>>) = 1 /\ <<x>>[1] = x
  OBVIOUS
<1>2. DOMAIN <<x>> = {1}
  <2>1. DOMAIN <<x>> = 1 .. 1
    BY <1>1, LenProperties
  <2> QED BY <2>1
<1> QED BY <1>1, <1>2 DEF ToSet

LEMMA FunctionIsSequence ==
  ASSUME NEW S, NEW n \in Nat, NEW f \in [1 .. n -> S]
  PROVE  f \in Seq(S) /\ Len(f) = n /\ DOMAIN f = 1 .. n
OBVIOUS

LEMMA PairSet ==
  ASSUME NEW S, NEW x \in S, NEW y \in S
  PROVE  <<x, y>> \in Seq(S) /\ <<x, y>> # <<>> /\ ToSet(<<x, y>>) = {x, y}
<1>1. <<x, y>> \in Seq(S) /\ Len(<<x, y>>) = 2 /\ <<x, y>>[1] = x /\ <<x, y>>[2] = y
  OBVIOUS
<1>2. DOMAIN <<x, y>> = 1 .. 2
  BY <1>1, LenProperties
<1>3. Len(<<>>) = 0
  BY EmptySeq
<1> QED BY <1>1, <1>2, <1>3 DEF ToSet

LEMMA TailNotEmpty ==
  ASSUME NEW S, NEW s \in Seq(S), Len(s) > 1
  PROVE  Tail(s) # <<>>
<1>1. Len(s) \in Nat
  BY LenProperties
<1>2. s # <<>>
  BY EmptySeq
<1>3. Tail(s) \in Seq(S) /\ Len(Tail(s)) = Len(s) - 1
  BY <1>2, HeadTailProperties
<1> DEFINE n == Len(s)
           m == Len(Tail(s))
<1>4. n \in Nat /\ n > 1 /\ m = n - 1
  BY <1>1, <1>3
<1> HIDE DEF n, m
<1>5. m # 0
  BY <1>4
<1>6. Len(Tail(s)) # 0
  BY <1>5 DEF m
<1> QED BY <1>6, EmptySeq, Zenon

LEMMA TailFacts ==
  ASSUME NEW S, NEW s \in Seq(S), s # <<>>
  PROVE  /\ Tail(s) \in Seq(S) /\ Len(Tail(s)) \in Nat /\ Len(s) = Len(Tail(s)) + 1
         /\ \A i \in 1 .. Len(Tail(s)) : Tail(s)[i] = s[i + 1]
         /\ Head(s) = s[1] /\ Head(s) \in S
<1> DEFINE n == Len(s)
           m == Len(Tail(s))
<1>1. /\ Head(s) \in S /\ Tail(s) \in Seq(S) /\ m = n - 1
      /\ \A i \in 1 .. m : Tail(s)[i] = s[i + 1]
  BY HeadTailProperties
<1>2. n \in Nat /\ m \in Nat
  BY <1>1, LenProperties
<1>3. n = m + 1
  <2> HIDE DEF n, m
  <2> QED BY <1>1, <1>2
<1>4. Head(s) = s[1]
  OBVIOUS
<1> QED BY <1>1, <1>2, <1>3, <1>4

-----------------------------------------------------------------------------
(* Commands                                                                *)

LEMMA SequenceFacts ==
  ASSUME TypeOK
  PROVE  /\ Len(commands) \in Nat /\ DOMAIN commands = 1 .. Len(commands)
         /\ Len(connections) \in Nat /\ DOMAIN connections = 1 .. Len(connections)
         /\ \A c \in DOMAIN connections :
              /\ connections[c] \in ConnectionState
              /\ Len(connections[c].writes) \in Nat
              /\ DOMAIN connections[c].writes = 1 .. Len(connections[c].writes)
         /\ \A k \in DOMAIN commands : commands[k] \in CommandState /\ CommandOK(commands[k])
<1>1. commands \in Seq(CommandState) /\ connections \in Seq(ConnectionState)
  BY DEF TypeOK
<1>2. ASSUME NEW c \in DOMAIN connections
      PROVE  /\ connections[c] \in ConnectionState
             /\ Len(connections[c].writes) \in Nat
             /\ DOMAIN connections[c].writes = 1 .. Len(connections[c].writes)
  <2>1. connections[c] \in ConnectionState
    BY <1>1, <1>2
  <2>2. connections[c].writes \in Seq(WriteRecords)
    BY <2>1 DEF ConnectionState
  <2> QED BY <2>1, <2>2
<1>3. \A k \in DOMAIN commands : commands[k] \in CommandState
  BY <1>1
<1> QED BY <1>1, <1>2, <1>3 DEF TypeOK

LEMMA CommandReplaced ==
  ASSUME NEW cs \in Seq(CommandState), \A j \in DOMAIN cs : CommandOK(cs[j]),
         NEW k \in DOMAIN cs, NEW d, CommandOK(d)
  PROVE  /\ [cs EXCEPT ![k] = d] \in Seq(CommandState)
         /\ DOMAIN [cs EXCEPT ![k] = d] = DOMAIN cs
         /\ \A j \in DOMAIN cs :
              /\ [cs EXCEPT ![k] = d][j] = IF j = k THEN d ELSE cs[j]
              /\ CommandOK([cs EXCEPT ![k] = d][j])
<1>1. d \in CommandState
  BY DEF CommandOK
<1>2. k \in 1 .. Len(cs)
  OBVIOUS
<1>3. [cs EXCEPT ![k] = d] \in Seq(CommandState)
  BY <1>1, <1>2, ExceptSeq
<1> QED BY <1>3

\* A command that is in no unit of work, and of which no transaction holds anything.
Outside(c) ==
  /\ c.phase \in ReadingPhases \cup {"enter", "ended"}
  /\ ~c.shared /\ c.kept = 0
  /\ c.phase = "ended" => AllOrNothing(c)

LEMMA NewCommandFields ==
  /\ NewCommand \in CommandState
  /\ NewCommand.kind = "" /\ NewCommand.process = None /\ NewCommand.phase = "route"
  /\ NewCommand.packages = <<>> /\ NewCommand.todo = <<>> /\ NewCommand.copy = NoCopy
  /\ NewCommand.planned = 0 /\ NewCommand.kept = 0 /\ NewCommand.cursor = 0
  /\ ~NewCommand.failed /\ ~NewCommand.shared /\ NewCommand.outcome = "running"
<1>1. <<>> \in Seq(Statements) /\ <<>> \in Seq(Packages)
  BY EmptySeq
<1>2. "route" \in Phases /\ "" \in Kinds /\ "running" \in Outcomes
  BY DEF Phases, ReadingPhases, Kinds, Outcomes
<1>3. NewCommand \in CommandState
  BY <1>1, <1>2 DEF NewCommand, CommandState, NoCopy
<1> QED BY <1>3 DEF NewCommand

LEMMA EndedFields ==
  ASSUME NEW c \in CommandState, NEW o \in {"returned", "raised"}
  PROVE  /\ CommandOK(Ended(c, o))
         /\ Ended(c, o).phase = "ended" /\ Ended(c, o).outcome = o
         /\ Ended(c, o).kept = c.kept /\ Ended(c, o).planned = c.planned
         /\ Ended(c, o).shared = c.shared /\ Ended(c, o).unanswered = c.unanswered
         /\ Ended(c, o).cursor = 0
         /\ Ended(c, o).kind = ""
<1> DEFINE e == Ended(c, o)
<1>1. c.planned \in Nat /\ c.kept \in Nat /\ c.shared \in BOOLEAN
      /\ c.unanswered \in BOOLEAN
  BY DEF CommandState
<1>2. NewCommand \in CommandState
  BY NewCommandFields
<1>7. "ended" \in Phases /\ o \in Outcomes
  BY DEF Phases, Outcomes
<1>3. e \in CommandState
  BY <1>1, <1>2, <1>7 DEF Ended, CommandState
<1>5. /\ e.phase = "ended" /\ e.outcome = o /\ e.kept = c.kept
      /\ e.planned = c.planned /\ e.shared = c.shared /\ e.unanswered = c.unanswered
  BY <1>1, <1>2 DEF Ended, CommandState
<1>6. e.cursor = 0 /\ e.kind = "" /\ e.todo = <<>>
  BY <1>1, <1>2, NewCommandFields DEF Ended, CommandState
<1> HIDE DEF e
<1>4. CommandOK(e)
  BY <1>3, <1>5, <1>6 DEF CommandOK, PhaseOK, ReadingPhases, UnitPhases
<1> QED BY <1>4, <1>5, <1>6 DEF e

\* Where a step that reads leaves its command.
Reached(d) == CommandOK(d) /\ Outside(d) /\ Decided(d)

\* A command that ends before its unit of work has committed nothing.
LEMMA EndReached ==
  ASSUME NEW c, CommandOK(c), c.phase \in ReadingPhases \cup {"enter"},
         NEW o \in {"returned", "raised"}, o = "raised" \/ c.planned = 0
  PROVE  Reached(Ended(c, o))
<1>1. c \in CommandState /\ ~c.shared /\ c.kept = 0
  BY DEF CommandOK, PhaseOK, Fresh
<1>5. c.shared = FALSE
  BY <1>1 DEF CommandState
<1> DEFINE e == Ended(c, o)
<1>2. /\ CommandOK(e) /\ e.phase = "ended" /\ e.outcome = o
      /\ e.kept = 0 /\ e.planned = c.planned /\ e.shared = FALSE
  BY <1>1, <1>5, EndedFields
<1> HIDE DEF e
<1>3. Outside(e)
  BY <1>2 DEF Outside, AllOrNothing
<1>4. Decided(e)
  BY <1>2 DEF Decided, UnitPhases
<1> QED BY <1>2, <1>3, <1>4 DEF Reached, e

\* From one statement that reads to the next.
LEMMA NextReached ==
  ASSUME NEW c, CommandOK(c), c.phase \in ReadingPhases, NEW ph \in ReadingPhases,
         ph \in {"route", "truck of route", "load"} => c.kind \in RouteKinds,
         ph = "truck" => c.kind = "assign truck",
         ph = "package" => c.kind \in {"assign packages", "remove package"},
         ph = "write package" => c.kind = "assign packages" /\ LoadAllows(c, Head(c.packages)),
         NEW copy \in [truck : Trucks \cup {None}, packages : SUBSET Packages],
         ph = "write package" => copy = c.copy,
         NEW ps \in Seq(Packages), ps # <<>> \/ ps = c.packages,
         ph = "write package" => ps = c.packages
  PROVE  Reached([c EXCEPT !.phase = ph, !.copy = copy, !.packages = ps])
<1> DEFINE d == [c EXCEPT !.phase = ph, !.copy = copy, !.packages = ps]
<1>1. c \in CommandState
  BY DEF CommandOK
<1>2. ph \in Phases /\ ph \notin {"enter", "statements", "commit", "exit", "ended"}
  BY DEF Phases, ReadingPhases
<1>3. d \in CommandState
  BY <1>1, <1>2 DEF CommandState
<1>4. /\ d.phase = ph /\ d.copy = copy /\ d.packages = ps /\ d.kind = c.kind
      /\ d.process = c.process /\ d.route = c.route /\ d.truck = c.truck
      /\ d.todo = c.todo /\ d.planned = c.planned /\ d.kept = c.kept
      /\ d.cursor = c.cursor /\ d.failed = c.failed /\ d.shared = c.shared
      /\ d.outcome = c.outcome
  BY <1>1 DEF CommandState
<1> HIDE DEF d
<1>5. Called(c) /\ Fresh(c) /\ c.planned = 0
  BY DEF CommandOK, PhaseOK, ReadingPhases
<1>6. CommandOK(d)
  <2>1. Called(d) /\ Fresh(d) /\ d.planned = 0
    BY <1>4, <1>5 DEF Called, Fresh
  <2> QED BY <1>2, <1>3, <1>4, <2>1 DEF CommandOK, PhaseOK, UnitPhases
<1>7. Outside(d)
  BY <1>2, <1>4, <1>5 DEF Outside, Fresh
<1>8. Decided(d)
  <2>1. ph = "write package" => LoadAllows(d, Head(d.packages))
    BY <1>4 DEF LoadAllows
  <2> QED BY <1>2, <1>4, <2>1 DEF Decided, UnitPhases
<1> QED BY <1>6, <1>7, <1>8 DEF Reached, d

\* The decision to enter the unit of work with these statements.
LEMMA EnterReached ==
  ASSUME NEW c, CommandOK(c), c.phase \in ReadingPhases, c.kind \in UnitKinds,
         NEW copy \in [truck : Trucks \cup {None}, packages : SUBSET Packages],
         NEW todo \in Seq(Statements), todo # <<>>,
         c.kind = "assign truck" =>
           copy.truck = None /\ Cardinality(copy.packages) <= Capacity,
         ToSet(todo) = Plan([c EXCEPT !.copy = copy])
  PROVE  Reached(Entering([c EXCEPT !.copy = copy], todo))
<1> DEFINE d == Entering([c EXCEPT !.copy = copy], todo)
<1>1. c \in CommandState
  BY DEF CommandOK
<1>2. "enter" \in Phases /\ "enter" \notin ReadingPhases /\ "enter" \notin UnitPhases
  BY DEF Phases, ReadingPhases, UnitPhases
<1>3. Len(todo) \in Nat /\ Len(todo) # 0
  BY EmptySeq
<1>4. [c EXCEPT !.copy = copy] \in CommandState
  BY <1>1 DEF CommandState
<1>5. d \in CommandState
  BY <1>2, <1>3, <1>4 DEF CommandState, Entering
<1>6. /\ d.phase = "enter" /\ d.copy = copy /\ d.packages = c.packages /\ d.kind = c.kind
      /\ d.process = c.process /\ d.route = c.route /\ d.truck = c.truck
      /\ d.todo = todo /\ d.planned = Len(todo) /\ d.kept = c.kept
      /\ d.cursor = c.cursor /\ d.failed = c.failed /\ d.shared = c.shared
      /\ d.outcome = c.outcome
  BY <1>1 DEF CommandState, Entering
<1>7. Plan(d) = Plan([c EXCEPT !.copy = copy])
  <2> DEFINE b == [c EXCEPT !.copy = copy]
  <2>1. b.kind = d.kind /\ b.route = d.route /\ b.truck = d.truck /\ b.copy = d.copy
        /\ b.packages = d.packages
    BY <1>1, <1>6 DEF CommandState
  <2> HIDE DEF b, d
  <2>2. Plan(d) = Plan(b)
    BY <2>1 DEF Plan
  <2> QED BY <2>2 DEF b
<1> HIDE DEF d
<1>8. Called(c) /\ Fresh(c) /\ c.planned = 0
  BY DEF CommandOK, PhaseOK, ReadingPhases
<1>9. CommandOK(d)
  <2>1. Called(d) /\ Fresh(d)
    BY <1>6, <1>8 DEF Called, Fresh
  <2> QED BY <1>2, <1>5, <1>6, <2>1 DEF CommandOK, PhaseOK
<1>10. Outside(d)
  BY <1>6, <1>8 DEF Outside, Fresh
<1>11. Decided(d)
  BY <1>3, <1>6, <1>7 DEF Decided
<1> QED BY <1>9, <1>10, <1>11 DEF Reached, d

LEMMA StatementsConcat ==
  \A s, t \in Seq(Statements) :
    s \o t \in Seq(Statements) /\ ToSet(s \o t) = ToSet(s) \cup ToSet(t)
BY ConcatSet

\* The statements of a removal are its plan.
LEMMA RemovalIsPlan ==
  ASSUME NEW r \in Routes,
         NEW copy \in [truck : Trucks \cup {None}, packages : SUBSET Packages],
         NEW c, c.kind = "remove route", c.route = r, c.copy = copy
  PROVE  /\ RemovalStatements(r, copy) \in Seq(Statements)
         /\ RemovalStatements(r, copy) # <<>>
         /\ ToSet(RemovalStatements(r, copy)) = Plan(c)
<1> DEFINE ps == SetToSeq(copy.packages)
           a == [i \in DOMAIN ps |-> Statement(ps[i], None)]
           b == IF copy.truck = None THEN <<>> ELSE <<Statement(copy.truck, "Free")>>
           e == <<Statement(r, Gone)>>
           B == IF copy.truck = None THEN {} ELSE {Statement(copy.truck, "Free")}
<1>1. IsFiniteSet(copy.packages) /\ copy.packages \subseteq Packages
  BY DispatchDatabaseAssumption, FS_Subset
<1>2. /\ ps \in Seq(copy.packages)
      /\ \A x \in copy.packages : \E i \in DOMAIN ps : ps[i] = x
  BY <1>1, Listing
<1>3. Len(ps) \in Nat /\ DOMAIN ps = 1 .. Len(ps)
      /\ \A i \in 1 .. Len(ps) : ps[i] \in copy.packages
  <2> HIDE DEF ps
  <2> QED BY <1>2, LenProperties, ElementOfSeq
<1>4. \A p \in Packages : Statement(p, None) \in Statements
  BY DEF Statement, Statements
<1>5. a \in Seq(Statements) /\ Len(a) = Len(ps) /\ DOMAIN a = 1 .. Len(ps)
      /\ \A i \in 1 .. Len(ps) : a[i] = Statement(ps[i], None)
  <2>1. \A i \in 1 .. Len(ps) : Statement(ps[i], None) \in Statements
    BY <1>1, <1>3, <1>4
  <2> HIDE DEF ps
  <2>2. a \in [1 .. Len(ps) -> Statements] /\ \A i \in 1 .. Len(ps) : a[i] = Statement(ps[i], None)
    BY <1>3, <2>1
  <2> HIDE DEF a
  <2>3. a \in Seq(Statements) /\ Len(a) = Len(ps) /\ DOMAIN a = 1 .. Len(ps)
    BY <1>3, <2>2, FunctionIsSequence
  <2> QED BY <2>2, <2>3
<1>6. b \in Seq(Statements) /\ ToSet(b) = B
  <2>1. CASE copy.truck = None
    BY <2>1, EmptySeq, EmptySet
  <2>2. CASE copy.truck # None
    <3>1. Statement(copy.truck, "Free") \in Statements
      BY <2>2 DEF Statement, Statements
    <3> QED BY <2>2, <3>1, SingleSet
  <2> QED BY <2>1, <2>2
<1>7. e \in Seq(Statements) /\ ToSet(e) = {Statement(r, Gone)}
  <2>1. Statement(r, Gone) \in Statements
    BY DEF Statement, Statements
  <2> QED BY <2>1, SingleSet
<1>8. ToSet(a) = {Statement(p, None) : p \in copy.packages}
  <2> HIDE DEF ps, a
  <2>1. ASSUME NEW p \in copy.packages PROVE \E i \in DOMAIN a : a[i] = Statement(p, None)
    BY <1>2, <1>3, <1>5
  <2>2. ASSUME NEW i \in DOMAIN a PROVE a[i] \in {Statement(p, None) : p \in copy.packages}
    <3>1. ps[i] \in copy.packages /\ a[i] = Statement(ps[i], None)
      BY <1>3, <1>5
    <3> QED BY <3>1
  <2>3. ToSet(a) = {a[i] : i \in DOMAIN a}
    BY DEF ToSet
  <2> QED BY <2>1, <2>2, <2>3
<1> HIDE DEF ps, a, b, e
<1>9. /\ (a \o b) \o e \in Seq(Statements)
      /\ ToSet((a \o b) \o e) = (ToSet(a) \cup ToSet(b)) \cup ToSet(e)
  <2>1. a \o b \in Seq(Statements) /\ ToSet(a \o b) = ToSet(a) \cup ToSet(b)
    BY <1>5, <1>6, StatementsConcat
  <2> QED BY <1>7, <2>1, StatementsConcat
<1>10. RemovalStatements(r, copy) = (a \o b) \o e
  BY Zenon DEF RemovalStatements, a, b, e, ps
<1>11. RemovalStatements(r, copy) # <<>>
  <2>1. ToSet((a \o b) \o e) # {}
    BY <1>7, <1>9
  <2> QED BY <1>10, <2>1, EmptySet
<1>12. Plan(c) = {Statement(p, None) : p \in copy.packages} \cup B \cup {Statement(r, Gone)}
  BY DEF Plan
<1> QED BY <1>6, <1>7, <1>8, <1>10, <1>9, <1>11, <1>12

\* Every step that only reads, and a unit of work that cannot be entered: one
\* command moves on, and nothing else changes.
ReadOnly(k) ==
  \/ ReadRoute(k) \/ ReadTruckOfRoute(k) \/ ReadPackagesOfRoute(k)
  \/ ReadTruck(k) \/ ReadRemovedPackage(k) \/ ReadAssignedPackage(k) \/ EnterFails(k)

MovesTo(k, d) == commands' = [commands EXCEPT ![k] = d]

LEMMA EndMoves ==
  ASSUME NEW k \in DOMAIN commands, CommandOK(commands[k]),
         commands[k].phase \in ReadingPhases \cup {"enter"}, NEW o \in {"returned", "raised"},
         o = "raised" \/ commands[k].planned = 0, End(k, o)
  PROVE  \E d : MovesTo(k, d) /\ Reached(d)
BY EndReached DEF End, MovesTo

\* AssignPackages goes on to its next package, or is done.
LEMMA NextPackageReached ==
  ASSUME NEW c, CommandOK(c), c.phase \in {"package", "write package"},
         c.kind = "assign packages",
         NEW copy \in [truck : Trucks \cup {None}, packages : SUBSET Packages]
  PROVE  Reached(NextPackage([c EXCEPT !.copy = copy]))
<1> DEFINE b == [c EXCEPT !.copy = copy]
<1>1. c \in CommandState /\ c.packages # <<>> /\ c.planned = 0 /\ c.phase \in ReadingPhases
      /\ ~c.shared /\ c.kept = 0
  BY DEF CommandOK, Called, PhaseOK, Fresh, ReadingPhases
<1>2. c.packages \in Seq(Packages) /\ Tail(c.packages) \in Seq(Packages)
      /\ Len(Tail(c.packages)) = Len(c.packages) - 1
      /\ Len(c.packages) \in Nat
  <2>1. c.packages \in Seq(Packages)
    BY <1>1 DEF CommandState
  <2> QED BY <1>1, <2>1, HeadTailProperties, LenProperties
<1>3. b.packages = c.packages /\ b.planned = c.planned /\ b.kept = c.kept /\ b.shared = c.shared
      /\ b.unanswered = c.unanswered
  BY <1>1 DEF CommandState
<1>4. CASE Len(c.packages) > 1
  <2> DEFINE d == [c EXCEPT !.phase = "package", !.copy = copy, !.packages = Tail(c.packages)]
  <2>1. Tail(c.packages) # <<>>
    BY <1>2, <1>4, TailNotEmpty
  <2>2. "package" \in ReadingPhases
    BY DEF ReadingPhases
  <2>3. Reached(d)
    BY <1>1, <1>2, <2>1, <2>2, NextReached
  <2>4. [b EXCEPT !.phase = "package", !.packages = Tail(b.packages)] = d
    BY <1>1, <1>3 DEF CommandState
  <2> QED BY <1>3, <1>4, <2>3, <2>4 DEF NextPackage
<1>5. CASE ~ (Len(c.packages) > 1)
  <2>1. Reached(Ended(c, "returned"))
    BY <1>1, EndReached
  <2>2. Ended(b, "returned") = Ended(c, "returned")
    BY <1>3, Zenon DEF Ended
  <2> QED BY <1>3, <1>5, <2>1, <2>2 DEF NextPackage
<1> QED BY <1>4, <1>5

LEMMA SameCopy ==
  ASSUME NEW c \in CommandState
  PROVE  /\ [c EXCEPT !.copy = c.copy] = c
         /\ c.copy \in [truck : Trucks \cup {None}, packages : SUBSET Packages]
         /\ c.packages \in Seq(Packages)
BY DEF CommandState

LEMMA ReadOnlyStep ==
  ASSUME TypeOK, NEW k \in DOMAIN commands, ReadOnly(k)
  PROVE  Untouched /\ \E d : MovesTo(k, d) /\ Reached(d)
<1> DEFINE c == commands[k]
<1>1. c \in CommandState /\ CommandOK(c)
  BY SequenceFacts
<1>2. Untouched
  BY DEF ReadOnly, ReadRoute, ReadTruckOfRoute, ReadPackagesOfRoute, ReadTruck,
         ReadRemovedPackage, ReadAssignedPackage, EnterFails, Untouched
<1>3. {"route", "truck of route", "load", "truck", "package", "write package"} \subseteq ReadingPhases
  BY DEF ReadingPhases
<1>4. c.copy \in [truck : Trucks \cup {None}, packages : SUBSET Packages]
      /\ c.packages \in Seq(Packages) /\ [c EXCEPT !.copy = c.copy] = c
  BY <1>1, SameCopy
<1>5. c.phase \in ReadingPhases => c.planned = 0 /\ Called(c)
  BY <1>1 DEF CommandOK, PhaseOK, ReadingPhases
<1>6. ASSUME ReadRoute(k) PROVE \E d : MovesTo(k, d) /\ Reached(d)
  <2>1. c.phase = "route" /\ c.kind \in RouteKinds
    BY <1>1, <1>6 DEF ReadRoute, CommandOK, PhaseOK
  <2>2. CASE End(k, "raised")
    BY <1>1, <1>3, <2>1, <2>2, EndMoves
  <2>3. CASE Goto(k, "truck of route")
    <3> DEFINE d == [c EXCEPT !.phase = "truck of route", !.copy = c.copy,
                              !.packages = c.packages]
    <3>1. Reached(d)
      BY <1>1, <1>3, <1>4, <2>1, NextReached
    <3>2. d = [c EXCEPT !.phase = "truck of route"]
      BY <1>1 DEF CommandState
    <3>3. MovesTo(k, d)
      BY <2>3, <3>2 DEF Goto, MovesTo
    <3> QED BY <3>1, <3>3
  <2> QED BY <1>6, <2>2, <2>3 DEF ReadRoute
<1>7. ASSUME ReadTruckOfRoute(k) PROVE \E d : MovesTo(k, d) /\ Reached(d)
  <2> DEFINE t == IF db[c.route] \in Trucks THEN db[c.route] ELSE None
             copy == [c.copy EXCEPT !.truck = t]
             d == [c EXCEPT !.phase = "load", !.copy = copy, !.packages = c.packages]
  <2>1. c.phase = "truck of route" /\ c.kind \in RouteKinds
    BY <1>1, <1>7 DEF ReadTruckOfRoute, CommandOK, PhaseOK
  <2>2. copy \in [truck : Trucks \cup {None}, packages : SUBSET Packages]
    BY <1>4
  <2>3. Reached(d)
    <3> HIDE DEF copy
    <3> QED BY <1>1, <1>3, <1>4, <2>1, <2>2, NextReached
  <2>4. MovesTo(k, d)
    <3>1. d = [c EXCEPT !.phase = "load", !.copy.truck = t]
      BY <1>1 DEF CommandState
    <3>2. commands' = [commands EXCEPT ![k].phase = "load", ![k].copy.truck = t]
      BY <1>7 DEF ReadTruckOfRoute
    <3>3. commands' = [commands EXCEPT ![k] = [c EXCEPT !.phase = "load", !.copy.truck = t]]
      <4> HIDE DEF t
      <4> QED BY <3>2
    <3> QED BY <3>1, <3>3 DEF MovesTo
  <2> QED BY <2>3, <2>4
<1>8. ASSUME ReadPackagesOfRoute(k) PROVE \E d : MovesTo(k, d) /\ Reached(d)
  <2> DEFINE load == Load(db, c.route)
             copy == [c.copy EXCEPT !.packages = load]
             b == [c EXCEPT !.copy = copy]
  <2>1. c.phase = "load" /\ c.kind \in RouteKinds /\ c.route \in Routes
    BY <1>1, <1>8 DEF ReadPackagesOfRoute, CommandOK, PhaseOK, Called
  <2>2. load \subseteq Packages
    BY DEF Load
  <2>3. copy \in [truck : Trucks \cup {None}, packages : SUBSET Packages]
    <3> HIDE DEF load
    <3> QED BY <1>4, <2>2
  <2>4. b = [c EXCEPT !.copy.packages = load] /\ b.kind = c.kind /\ b.route = c.route /\ b.copy = copy
    BY <1>1 DEF CommandState
  <2>5. commands' = [commands EXCEPT ![k] =
         CASE b.kind = "assign truck" -> [b EXCEPT !.phase = "truck"]
           [] b.kind = "assign packages" -> [b EXCEPT !.phase = "package"]
           [] b.kind = "remove route" -> Entering(b, RemovalStatements(b.route, b.copy))]
    BY <1>8, <2>4 DEF ReadPackagesOfRoute
  <2>6. \A ph : [b EXCEPT !.phase = ph] = [c EXCEPT !.phase = ph, !.copy = copy, !.packages = c.packages]
    BY <1>1 DEF CommandState
  <2> HIDE DEF b, copy
  <2>7. CASE c.kind = "assign truck"
    <3>1. Reached([c EXCEPT !.phase = "truck", !.copy = copy, !.packages = c.packages])
      BY <1>1, <1>3, <1>4, <2>1, <2>3, <2>7, NextReached
    <3> QED BY <2>4, <2>5, <2>6, <2>7, <3>1 DEF MovesTo
  <2>8. CASE c.kind = "assign packages"
    <3>1. Reached([c EXCEPT !.phase = "package", !.copy = copy, !.packages = c.packages])
      BY <1>1, <1>3, <1>4, <2>1, <2>3, <2>8, NextReached
    <3> QED BY <2>4, <2>5, <2>6, <2>8, <3>1 DEF MovesTo
  <2>9. CASE c.kind = "remove route"
    <3> DEFINE todo == RemovalStatements(c.route, copy)
    <3>1. todo \in Seq(Statements) /\ todo # <<>> /\ ToSet(todo) = Plan(b)
      BY <2>1, <2>3, <2>4, <2>9, RemovalIsPlan
    <3>2. c.kind \in UnitKinds
      BY <2>9 DEF UnitKinds
    <3> HIDE DEF todo
    <3>3. Reached(Entering(b, todo))
      BY <1>1, <1>3, <2>1, <2>3, <2>9, <3>1, <3>2, EnterReached DEF b
    <3> QED BY <2>4, <2>5, <2>9, <3>3 DEF MovesTo, todo
  <2> QED BY <2>1, <2>7, <2>8, <2>9 DEF RouteKinds
<1>9. ASSUME ReadTruck(k) PROVE \E d : MovesTo(k, d) /\ Reached(d)
  <2>1. c.phase = "truck" /\ c.kind = "assign truck" /\ c.route \in Routes /\ c.truck \in Trucks
    BY <1>1, <1>9 DEF ReadTruck, CommandOK, PhaseOK, Called, RouteKinds
  <2>2. CASE End(k, "raised")
    BY <1>1, <1>3, <2>1, <2>2, EndMoves
  <2> DEFINE a == Statement(c.route, c.truck)
             b == Statement(c.truck, "On the way")
             todo == <<a, b>>
  <2>3. ASSUME TruckFits(c), commands' = [commands EXCEPT ![k] = Entering(c, todo)]
        PROVE  \E d : MovesTo(k, d) /\ Reached(d)
    <3>1. a \in Statements /\ b \in Statements
      BY <2>1 DEF Statement, Statements
    <3>2. Plan(c) = {a, b} /\ c.kind \in UnitKinds
      BY <2>1 DEF Plan, UnitKinds
    <3> HIDE DEF a, b
    <3>3. todo \in Seq(Statements) /\ todo # <<>> /\ ToSet(todo) = {a, b}
      BY <3>1, PairSet
    <3>4. c.copy.truck = None /\ Cardinality(c.copy.packages) <= Capacity
      BY <2>3 DEF TruckFits
    <3> HIDE DEF todo
    <3>5. Reached(Entering([c EXCEPT !.copy = c.copy], todo))
      BY <1>1, <1>3, <1>4, <2>1, <3>2, <3>3, <3>4, EnterReached
    <3> QED BY <1>4, <2>3, <3>5 DEF MovesTo
  <2> QED BY <1>9, <2>2, <2>3 DEF ReadTruck
<1>10. ASSUME ReadRemovedPackage(k) PROVE \E d : MovesTo(k, d) /\ Reached(d)
  <2> DEFINE p == Head(c.packages)
             s == Statement(p, Gone)
             todo == <<s>>
  <2>1. c.phase = "package" /\ c.kind = "remove package" /\ c.packages # <<>>
    BY <1>1, <1>10 DEF ReadRemovedPackage, CommandOK, Called
  <2>2. CASE End(k, "raised")
    BY <1>1, <1>3, <2>1, <2>2, EndMoves
  <2>3. ASSUME commands' = [commands EXCEPT ![k] = Entering(c, todo)]
        PROVE  \E d : MovesTo(k, d) /\ Reached(d)
    <3>1. p \in Packages
      BY <1>4, <2>1, HeadTailProperties
    <3>2. s \in Statements
      BY <3>1 DEF Statement, Statements
    <3>3. Plan(c) = {s} /\ c.kind \in UnitKinds
      BY <2>1 DEF Plan, UnitKinds
    <3> HIDE DEF s
    <3>4. todo \in Seq(Statements) /\ todo # <<>> /\ ToSet(todo) = {s}
      BY <3>2, SingleSet
    <3> HIDE DEF todo
    <3>5. Reached(Entering([c EXCEPT !.copy = c.copy], todo))
      BY <1>1, <1>3, <1>4, <2>1, <3>3, <3>4, EnterReached
    <3> QED BY <1>4, <2>3, <3>5 DEF MovesTo
  <2> QED BY <1>10, <2>2, <2>3 DEF ReadRemovedPackage
<1>11. ASSUME ReadAssignedPackage(k) PROVE \E d : MovesTo(k, d) /\ Reached(d)
  <2>1. c.phase = "package" /\ c.kind = "assign packages"
    BY <1>11 DEF ReadAssignedPackage
  <2>2. CASE End(k, "raised")
    BY <1>1, <1>3, <2>1, <2>2, EndMoves
  <2>3. CASE commands' = [commands EXCEPT ![k] = NextPackage(c)]
    <3>1. Reached(NextPackage([c EXCEPT !.copy = c.copy]))
      BY <1>1, <1>4, <2>1, NextPackageReached
    <3> QED BY <1>4, <2>3, <3>1 DEF MovesTo
  <2>4. ASSUME LoadAllows(c, Head(c.packages)), Goto(k, "write package")
        PROVE  \E d : MovesTo(k, d) /\ Reached(d)
    <3> DEFINE d == [c EXCEPT !.phase = "write package", !.copy = c.copy, !.packages = c.packages]
    <3>1. Reached(d)
      <4> DEFINE p == Head(c.packages)
      <4>1. LoadAllows(c, p)
        BY <2>4
      <4>2. c.phase \in ReadingPhases /\ "write package" \in ReadingPhases
        BY <1>3, <2>1
      <4> HIDE DEF c
      <4> QED BY <1>1, <1>4, <2>1, <4>1, <4>2, NextReached
    <3>2. d = [c EXCEPT !.phase = "write package"]
      BY <1>1 DEF CommandState
    <3>3. MovesTo(k, d)
      BY <2>4, <3>2 DEF Goto, MovesTo
    <3> QED BY <3>1, <3>3
  <2> QED BY <1>11, <2>2, <2>3, <2>4 DEF ReadAssignedPackage
<1>12. ASSUME EnterFails(k) PROVE \E d : MovesTo(k, d) /\ Reached(d)
  BY <1>1, <1>12, EndMoves DEF EnterFails
<1> QED BY <1>2, <1>6, <1>7, <1>8, <1>9, <1>10, <1>11, <1>12 DEF ReadOnly

-----------------------------------------------------------------------------
(* Steps of a unit of work, as they move its command                       *)

\* All of a command but its progress.
SameCommand(d, c) ==
  /\ d.kind = c.kind /\ d.process = c.process /\ d.route = c.route /\ d.truck = c.truck
  /\ d.packages = c.packages /\ d.copy = c.copy /\ d.planned = c.planned
  /\ d.kept = c.kept /\ d.shared = c.shared /\ d.outcome = c.outcome

LEMMA SameCommandOK ==
  ASSUME NEW c, CommandOK(c), c.phase \in UnitPhases \cup {"enter"}, NEW d \in CommandState,
         SameCommand(d, c), d.phase \in UnitPhases,
         d.phase = "statements" => d.todo # <<>>,
         d.phase \in {"commit", "exit"} => d.todo = <<>> /\ d.cursor = 0
  PROVE  CommandOK(d)
<1>1. Called(c) /\ c.kind \in UnitKinds
  BY DEF CommandOK, PhaseOK, UnitPhases
<1>2. Called(d) /\ d.kind \in UnitKinds
  BY <1>1 DEF SameCommand, Called
<1> QED BY <1>2 DEF CommandOK, PhaseOK, UnitPhases, ReadingPhases

\* The statement waits for a row.
LEMMA WaitMoves ==
  ASSUME TypeOK, NEW k \in DOMAIN commands, Wait(k), CursorOf(k) \in Nat
  PROVE  \E d : /\ MovesTo(k, d) /\ CommandOK(d) /\ SameCommand(d, commands[k])
                /\ d.phase = "statements" /\ d.todo = commands[k].todo
                /\ d.failed = commands[k].failed /\ d.cursor = CursorOf(k)
                /\ d.unanswered = commands[k].unanswered
<1> DEFINE c == commands[k]
           n == CursorOf(k)
           d == [c EXCEPT !.cursor = n]
<1>1. c \in CommandState /\ CommandOK(c)
  BY SequenceFacts
<1>2. c.phase = "statements" /\ c.todo # <<>>
  BY <1>1 DEF Wait, Executing, CommandOK, PhaseOK
<1>3. MovesTo(k, d)
  <2> HIDE DEF n
  <2>1. commands' = [commands EXCEPT ![k].cursor = n]
    BY DEF Wait, n
  <2> QED BY <2>1 DEF MovesTo
<1> HIDE DEF n
<1>4. n \in Nat
  BY DEF n
<1>5. /\ d \in CommandState /\ SameCommand(d, c) /\ d.phase = "statements" /\ d.todo = c.todo
      /\ d.failed = c.failed /\ d.cursor = n /\ d.unanswered = c.unanswered
  BY <1>1, <1>2, <1>4 DEF CommandState, SameCommand
<1>6. CommandOK(d)
  <2> HIDE DEF c, d
  <2> QED BY <1>1, <1>2, <1>5, SameCommandOK DEF UnitPhases
<1> QED BY <1>3, <1>5, <1>6 DEF n

\* The statement is done.
Advances(k) ==
  commands' = [commands EXCEPT
    ![k].cursor = 0, ![k].todo = Tail(@),
    ![k].phase = IF Len(commands[k].todo) = 1 THEN "commit" ELSE @]

LEMMA AdvanceMoves ==
  ASSUME TypeOK, NEW k \in DOMAIN commands, commands[k].phase = "statements", Advances(k)
  PROVE  \E d : /\ MovesTo(k, d) /\ CommandOK(d) /\ SameCommand(d, commands[k])
                /\ d.phase \in {"statements", "commit"} /\ d.todo \in Seq(Statements)
                /\ d.failed = commands[k].failed /\ d.cursor = 0
                /\ Len(d.todo) \in Nat /\ Len(commands[k].todo) = Len(d.todo) + 1
                /\ \A i \in 1 .. Len(d.todo) : d.todo[i] = commands[k].todo[i + 1]
<1> DEFINE c == commands[k]
           t == Tail(c.todo)
           ph == IF Len(c.todo) = 1 THEN "commit" ELSE c.phase
           d == [c EXCEPT !.cursor = 0, !.todo = t, !.phase = ph]
<1>1. c \in CommandState /\ CommandOK(c)
  BY SequenceFacts
<1>2. c.todo # <<>> /\ c.todo \in Seq(Statements)
  BY <1>1 DEF CommandOK, PhaseOK, CommandState
<1>3. /\ t \in Seq(Statements) /\ Len(t) \in Nat /\ Len(c.todo) = Len(t) + 1
      /\ \A i \in 1 .. Len(t) : t[i] = c.todo[i + 1]
  BY <1>2, TailFacts
<1>4. MovesTo(k, d)
  <2>1. commands' = [commands EXCEPT ![k].cursor = 0, ![k].todo = t, ![k].phase = ph]
    BY DEF Advances
  <2> HIDE DEF t, ph
  <2> QED BY <2>1 DEF MovesTo
<1>5. ph \in {"statements", "commit"} /\ ph \in Phases /\ ph \in UnitPhases
      /\ (ph = "statements" => t # <<>>) /\ (ph = "commit" => t = <<>>)
  <2>1. CASE Len(c.todo) = 1
    <3>1. Len(t) = 0
      <4> HIDE DEF t
      <4> QED BY <1>3, <2>1
    <3>2. t = <<>>
      BY <1>3, <3>1, EmptySeq
    <3> QED BY <2>1, <3>2 DEF Phases, UnitPhases
  <2>2. CASE Len(c.todo) # 1
    <3>1. Len(t) # 0
      <4> HIDE DEF t
      <4> QED BY <1>3, <2>2
    <3>2. t # <<>>
      BY <3>1, EmptySeq, Zenon
    <3> QED BY <2>2, <3>2 DEF Phases, UnitPhases
  <2> QED BY <2>1, <2>2
<1> HIDE DEF t, ph
<1>6. /\ d \in CommandState /\ SameCommand(d, c) /\ d.phase = ph /\ d.todo = t
      /\ d.failed = c.failed /\ d.cursor = 0
  BY <1>1, <1>3, <1>5 DEF CommandState, SameCommand
<1>7. CommandOK(d)
  <2>1. c.phase \in UnitPhases
    BY DEF UnitPhases
  <2> HIDE DEF c, d
  <2> QED BY <1>1, <1>5, <1>6, <2>1, SameCommandOK
<1> HIDE DEF d
<1>8. /\ d.phase \in {"statements", "commit"} /\ d.todo \in Seq(Statements)
      /\ Len(d.todo) \in Nat /\ Len(c.todo) = Len(d.todo) + 1
      /\ \A i \in 1 .. Len(d.todo) : d.todo[i] = c.todo[i + 1]
  BY <1>3, <1>5, <1>6
<1> QED BY <1>4, <1>6, <1>7, <1>8

\* The command raises: it goes to __exit__.
LEMMA RaiseMoves ==
  ASSUME TypeOK, NEW k \in DOMAIN commands, commands[k].phase \in UnitPhases, Raise(k)
  PROVE  \E d : /\ MovesTo(k, d) /\ CommandOK(d) /\ SameCommand(d, commands[k])
                /\ d.phase = "exit" /\ d.todo = <<>> /\ d.failed = TRUE /\ d.cursor = 0
<1> DEFINE c == commands[k]
           d == [c EXCEPT !.phase = "exit", !.failed = TRUE, !.cursor = 0, !.todo = <<>>]
<1>1. c \in CommandState /\ CommandOK(c)
  BY SequenceFacts
<1>2. MovesTo(k, d)
  BY DEF Raise, MovesTo
<1>3. "exit" \in Phases /\ <<>> \in Seq(Statements) /\ "exit" \in UnitPhases
  BY EmptySeq DEF Phases, UnitPhases
<1>4. /\ d \in CommandState /\ SameCommand(d, c) /\ d.phase = "exit" /\ d.todo = <<>>
      /\ d.failed = TRUE /\ d.cursor = 0
  BY <1>1, <1>3 DEF CommandState, SameCommand
<1>5. CommandOK(d)
  <2> HIDE DEF c, d
  <2> QED BY <1>1, <1>3, <1>4, SameCommandOK DEF c
<1> QED BY <1>2, <1>4, <1>5

\* The command ends at __exit__.
LEMMA ExitMoves ==
  ASSUME TypeOK, NEW k \in DOMAIN commands, Exit(k)
  PROVE  \E d : /\ MovesTo(k, d) /\ CommandOK(d) /\ d.phase = "ended"
                /\ d.kept = commands[k].kept /\ d.planned = commands[k].planned
                /\ d.shared = commands[k].shared /\ d.unanswered = commands[k].unanswered
                /\ d.outcome = IF commands[k].failed
                                  \/ (~Unit(k).committed /\ ~Live(Unit(k).connection))
                               THEN "raised" ELSE "returned"
<1> DEFINE c == commands[k]
           o == IF c.failed \/ (~Unit(k).committed /\ ~Live(Unit(k).connection))
                THEN "raised" ELSE "returned"
<1>1. c \in CommandState
  BY SequenceFacts
<1>2. MovesTo(k, Ended(c, o))
  BY DEF Exit, End, MovesTo
<1>3. o \in {"returned", "raised"}
  OBVIOUS
<1> HIDE DEF c, o
<1>4. /\ CommandOK(Ended(c, o)) /\ Ended(c, o).phase = "ended" /\ Ended(c, o).outcome = o
      /\ Ended(c, o).kept = c.kept /\ Ended(c, o).planned = c.planned
      /\ Ended(c, o).shared = c.shared /\ Ended(c, o).unanswered = c.unanswered
  BY <1>1, <1>3, EndedFields
<1> QED BY <1>2, <1>4 DEF c, o

-----------------------------------------------------------------------------
(* Steps of a unit of work, as they change its connection                  *)

\* A command in a unit of work has a connection of the sequence.
LEMMA CursorFacts ==
  ASSUME TypeOK, UnitsOK, NEW k \in DOMAIN commands, InUnit(k)
  PROVE  /\ commands[k].process \in Processes
         /\ Unit(k).connection \in DOMAIN connections
         /\ CursorOf(k) \in DOMAIN connections
<1>1. commands[k] \in CommandState /\ Called(commands[k]) /\ Len(connections) \in Nat
      /\ DOMAIN connections = 1 .. Len(connections)
  BY SequenceFacts DEF CommandOK, InUnit
<1>2. commands[k].process \in Processes /\ commands[k].cursor \in Nat
  BY <1>1 DEF Called, CommandState
<1>3. Unit(k).connection \in Nat /\ Unit(k).connection # 0
      /\ Unit(k).connection <= Len(connections) /\ commands[k].cursor <= Len(connections)
  BY <1>2 DEF UnitsOK, Unit, TypeOK
<1> QED BY <1>1, <1>2, <1>3 DEF CursorOf

LEMMA ConnectionReplaced ==
  ASSUME TypeOK, NEW c \in DOMAIN connections, NEW x \in ConnectionState,
         connections' = [connections EXCEPT ![c] = x]
  PROVE  /\ connections' \in Seq(ConnectionState) /\ Len(connections') = Len(connections)
         /\ DOMAIN connections' = DOMAIN connections
         /\ \A e \in DOMAIN connections :
              connections'[e] = IF e = c THEN x ELSE connections[e]
<1>1. connections \in Seq(ConnectionState) /\ c \in 1 .. Len(connections)
      /\ DOMAIN connections = 1 .. Len(connections)
  BY SequenceFacts DEF TypeOK
<1>2. /\ connections' \in Seq(ConnectionState) /\ Len(connections') = Len(connections)
      /\ \A e \in 1 .. Len(connections) :
           connections'[e] = IF e = c THEN x ELSE connections[e]
  BY <1>1, ExceptSeq
<1> QED BY <1>1, <1>2, LenProperties

LEMMA ConnectionTypes ==
  /\ NewConnection \in ConnectionState /\ Closed \in ConnectionState
  /\ NewConnection.writes = <<>> /\ Closed.writes = <<>>
<1>1. <<>> \in Seq(WriteRecords)
  BY EmptySeq
<1> QED BY <1>1 DEF NewConnection, Closed, ConnectionState

\* No row is written, and what a transaction holds is kept or lost as a whole.
Forgets ==
  /\ DOMAIN connections \subseteq DOMAIN connections'
  /\ \A e \in DOMAIN connections' :
       \/ connections'[e].writes = <<>>
       \/ e \in DOMAIN connections /\ connections'[e].writes = connections[e].writes

LEMMA LeaveKeeps ==
  ASSUME TypeOK, NEW k \in DOMAIN commands, NEW c \in DOMAIN connections, NEW x \in ConnectionState,
         Leave(c, k, x)
  PROVE  /\ connections' \in Seq(ConnectionState) /\ Len(connections') = Len(connections)
         /\ DOMAIN connections' = DOMAIN connections
         /\ \A e \in DOMAIN connections :
              connections'[e] = IF e # c THEN connections[e]
                                ELSE IF c = Unit(k).connection THEN x ELSE Closed
         /\ x.writes \in {<<>>, connections[c].writes} => Forgets
<1> DEFINE y == IF c = Unit(k).connection THEN x ELSE Closed
<1>1. y \in ConnectionState /\ connections' = [connections EXCEPT ![c] = y]
  BY ConnectionTypes DEF Leave
<1> HIDE DEF y
<1>2. /\ connections' \in Seq(ConnectionState) /\ Len(connections') = Len(connections)
      /\ DOMAIN connections' = DOMAIN connections
      /\ \A e \in DOMAIN connections : connections'[e] = IF e = c THEN y ELSE connections[e]
  BY <1>1, ConnectionReplaced
<1>3. x.writes \in {<<>>, connections[c].writes} => Forgets
  <2>1. x.writes \in {<<>>, connections[c].writes} => y.writes \in {<<>>, connections[c].writes}
    BY ConnectionTypes DEF y
  <2> QED BY <1>2, <2>1 DEF Forgets
<1> QED BY <1>2, <1>3 DEF y

LEMMA CommandsTyped ==
  ASSUME TypeOK, NEW k \in DOMAIN commands, NEW d, MovesTo(k, d), CommandOK(d)
  PROVE  /\ commands' \in Seq(CommandState) /\ DOMAIN commands' = DOMAIN commands
         /\ \A j \in DOMAIN commands : commands'[j] = IF j = k THEN d ELSE commands[j]
         /\ \A j \in DOMAIN commands : CommandOK(commands'[j])
<1>1. commands \in Seq(CommandState) /\ \A j \in DOMAIN commands : CommandOK(commands[j])
  BY DEF TypeOK
<1>2. /\ [commands EXCEPT ![k] = d] \in Seq(CommandState)
      /\ DOMAIN [commands EXCEPT ![k] = d] = DOMAIN commands
      /\ \A j \in DOMAIN commands :
           /\ [commands EXCEPT ![k] = d][j] = IF j = k THEN d ELSE commands[j]
           /\ CommandOK([commands EXCEPT ![k] = d][j])
  BY <1>1, CommandReplaced, Zenon
<1>3. commands' = [commands EXCEPT ![k] = d]
  BY DEF MovesTo
<1> QED BY <1>2, <1>3, Zenon

\* The writes of one statement: its own, then what a removed route's packages lose.
WriteList(W, rows, s, k) ==
  /\ W \in Seq(WriteRecords) /\ Len(W) \in Nat /\ Len(W) >= 1
  /\ W[1] = [row |-> s.row, value |-> s.value, by |-> k]
  /\ \A i \in 2 .. Len(W) :
       /\ s.row \in Routes /\ s.value = Gone
       /\ W[i].by = 0 /\ W[i].value = None /\ W[i].row \in Load(rows, s.row)
  /\ s.row \in Routes /\ s.value = Gone =>
       \A p \in Load(rows, s.row) : \E i \in 2 .. Len(W) : W[i].row = p

LEMMA WritesFacts ==
  ASSUME NEW rows, NEW s \in Statements, NEW k \in Nat
  PROVE  WriteList(Writes(rows, s, k), rows, s, k)
<1> DEFINE w == [row |-> s.row, value |-> s.value, by |-> k]
           L == Load(rows, s.row)
           S == {[row |-> p, value |-> None, by |-> 0] : p \in L}
           C == Cascade(rows, s)
<1>1. s.row \in Rows /\ s.value \in Trucks \cup {None, Gone, "Free", "On the way"}
      /\ Statement(s.row, s.value) = s
  BY DEF Statements, Rows, Statement
<1>2. w \in WriteRecords
  <2>1. w \in [row : Rows, value : Trucks \cup {None, Gone, "Free", "On the way"}, by : Nat]
    BY <1>1
  <2>2. Statement(w.row, w.value) = s
    BY <1>1
  <2> QED BY <2>1, <2>2 DEF WriteRecords
<1>3. L \subseteq Packages /\ IsFiniteSet(L)
  BY DispatchDatabaseAssumption, FS_Subset DEF Load
<1>4. S \subseteq WriteRecords
  <2> SUFFICES ASSUME NEW p \in L PROVE [row |-> p, value |-> None, by |-> 0] \in WriteRecords
    OBVIOUS
  <2>1. p \in Packages
    BY <1>3
  <2>2. Statement(p, None) \in Statements
    BY <2>1 DEF Statement, Statements
  <2> QED BY <2>1, <2>2 DEF WriteRecords, Rows
<1>5. IsFiniteSet(S)
  <2> DEFINE f == [p \in L |-> [row |-> p, value |-> None, by |-> 0]]
  <2>1. f \in Surjection(L, S)
    BY DEF Surjection
  <2> QED BY <1>3, <2>1, FS_Surjection
<1>6. /\ C \in Seq(WriteRecords) /\ Len(C) \in Nat /\ DOMAIN C = 1 .. Len(C)
      /\ \A i \in 1 .. Len(C) :
           /\ s.row \in Routes /\ s.value = Gone
           /\ C[i].by = 0 /\ C[i].value = None /\ C[i].row \in L
      /\ s.row \in Routes /\ s.value = Gone => \A p \in L : \E i \in 1 .. Len(C) : C[i].row = p
  <2>1. CASE s.row \in Routes /\ s.value = Gone
    <3>1. C = SetToSeq(S)
      BY <2>1, Zenon DEF Cascade
    <3> HIDE DEF C
    <3>2. C \in Seq(S) /\ \A x \in S : \E i \in DOMAIN C : C[i] = x
      <4> HIDE DEF S
      <4> QED BY <1>5, <3>1, Listing
    <3>3. C \in Seq(WriteRecords)
      <4> HIDE DEF S
      <4> QED BY <1>4, <3>2, SeqMonotonic
    <3>4. Len(C) \in Nat /\ DOMAIN C = 1 .. Len(C) /\ \A i \in 1 .. Len(C) : C[i] \in S
      <4> HIDE DEF S
      <4> QED BY <3>2, LenProperties, ElementOfSeq
    <3>5. \A x \in S : x.by = 0 /\ x.value = None /\ x.row \in L
      OBVIOUS
    <3>6. ASSUME NEW p \in L PROVE \E i \in 1 .. Len(C) : C[i].row = p
      <4>1. [row |-> p, value |-> None, by |-> 0] \in S
        OBVIOUS
      <4>2. PICK i \in 1 .. Len(C) : C[i] = [row |-> p, value |-> None, by |-> 0]
        <5> HIDE DEF S
        <5> QED BY <3>2, <3>4, <4>1
      <4> QED BY <4>2
    <3> HIDE DEF S
    <3> QED BY <2>1, <3>3, <3>4, <3>5, <3>6
  <2>2. CASE ~ (s.row \in Routes /\ s.value = Gone)
    <3>1. C = <<>>
      BY <2>2, Zenon DEF Cascade
    <3> HIDE DEF C
    <3>2. C \in Seq(WriteRecords) /\ Len(C) = 0 /\ DOMAIN C = 1 .. 0
      BY <3>1, EmptySeq, EmptySet
    <3> QED BY <2>2, <3>2
  <2> QED BY <2>1, <2>2
<1>7. Writes(rows, s, k) = <<w>> \o C
  BY Zenon DEF Writes
<1> HIDE DEF w, C, L, S
<1>8. <<w>> \in Seq(WriteRecords) /\ Len(<<w>>) = 1 /\ <<w>>[1] = w
  BY <1>2, SingleSet
<1> DEFINE V == <<w>> \o C
<1>9. /\ V \in Seq(WriteRecords) /\ Len(V) = 1 + Len(C)
      /\ \A i \in 1 .. 1 + Len(C) : V[i] = IF i <= 1 THEN <<w>>[i] ELSE C[i - 1]
  BY <1>6, <1>8, ConcatProperties
<1> HIDE DEF V
<1>10. V[1] = w
  BY <1>6, <1>8, <1>9
<1>11. \A i \in 2 .. Len(V) : i - 1 \in 1 .. Len(C) /\ V[i] = C[i - 1]
  BY <1>6, <1>9
<1>12. \A i \in 1 .. Len(C) : i + 1 \in 2 .. Len(V) /\ V[i + 1] = C[i]
  BY <1>6, <1>9
<1>13. Len(V) \in Nat /\ Len(V) >= 1
  BY <1>6, <1>9
<1>14. ASSUME s.row \in Routes, s.value = Gone, NEW p \in L
       PROVE  \E i \in 2 .. Len(V) : V[i].row = p
  BY <1>6, <1>12, <1>14
<1>15. Writes(rows, s, k) = V
  BY <1>7 DEF V
<1>16. \A i \in 2 .. Len(V) :
         /\ s.row \in Routes /\ s.value = Gone
         /\ V[i].by = 0 /\ V[i].value = None /\ V[i].row \in L
  BY <1>6, <1>11
<1>17. WriteList(V, rows, s, k)
  BY <1>9, <1>10, <1>13, <1>14, <1>16 DEF WriteList, w, L
<1> QED BY <1>15, <1>17

-----------------------------------------------------------------------------
(* The base: types, units of work, and who wrote what                      *)

\* What any step but the start of a command and the entry of a unit of work
\* leaves of a command.
Continues(j) ==
  /\ commands'[j].shared = commands[j].shared
  /\ commands'[j].phase \in UnitPhases =>
       /\ InUnit(j) /\ commands'[j].process = commands[j].process
       /\ commands'[j].cursor \in {0, commands[j].cursor, CursorOf(j)}
  /\ commands[j].phase \in UnitPhases \cup {"ended"} =>
       commands'[j].phase \in UnitPhases \cup {"ended"}

\* The units of work keep their connections.
UnitsStay ==
  /\ Len(connections') = Len(connections) /\ DOMAIN connections' = DOMAIN connections
  /\ \A p \in Processes : unit'[p].connection = unit[p].connection
  /\ DOMAIN commands' = DOMAIN commands
  /\ \A j \in DOMAIN commands : Continues(j)

LEMMA InUnitPhase ==
  ASSUME NEW j
  PROVE  /\ InUnit(j) <=> commands[j].phase \in UnitPhases
         /\ InUnit(j)' <=> commands'[j].phase \in UnitPhases
BY DEF InUnit, UnitPhases

\* Whoever is still in a unit of work has the connection it had.
LEMMA UnitSame ==
  ASSUME TypeOK, UnitsStay, NEW j \in DOMAIN commands, InUnit(j)'
  PROVE  InUnit(j) /\ Unit(j)'.connection = Unit(j).connection
         /\ commands[j].process \in Processes
         /\ commands'[j].process = commands[j].process
<1>1. InUnit(j) /\ commands'[j].process = commands[j].process
  BY InUnitPhase DEF UnitsStay, Continues
<1>2. commands[j].process \in Processes
  BY <1>1, SequenceFacts DEF CommandOK, Called, InUnit
<1> QED BY <1>1, <1>2 DEF UnitsStay, Unit

LEMMA UnitsKept ==
  ASSUME TypeOK, TypeOK', UnitsOK, LoneUnits, UnitsStay
  PROVE  UnitsOK' /\ LoneUnits'
<1>1. ASSUME NEW k \in DOMAIN commands'
      PROVE  /\ InUnit(k)' => Unit(k)'.connection # 0
             /\ commands'[k].cursor <= Len(connections')
             /\ \A p \in Processes :
                  InUnit(k)' /\ p # commands'[k].process /\ commands'[k].cursor # 0
                    => commands'[k].cursor # unit'[p].connection
  <2>1. k \in DOMAIN commands
    BY DEF UnitsStay
  <2>2. CASE InUnit(k)'
    <3>1. InUnit(k) /\ Unit(k)'.connection = Unit(k).connection
          /\ commands[k].process \in Processes /\ commands'[k].process = commands[k].process
      BY <2>1, <2>2, UnitSame
    <3>2. commands'[k].cursor \in {0, commands[k].cursor, CursorOf(k)}
      BY <2>1, <2>2, InUnitPhase DEF UnitsStay, Continues
    <3>3. Unit(k).connection # 0 /\ Unit(k).connection <= Len(connections)
          /\ commands[k].cursor <= Len(connections) /\ Len(connections) \in Nat
      BY <2>1, <3>1, SequenceFacts DEF UnitsOK, Unit
    <3>4. commands'[k].cursor \in {0, commands[k].cursor, Unit(k).connection}
      BY <3>2 DEF CursorOf
    <3>5. \A p \in Processes : p # commands[k].process => unit[p].connection # Unit(k).connection
      BY <3>1, <3>3 DEF UnitsOK, Unit
    <3>6. \A p \in Processes : p # commands[k].process /\ commands[k].cursor # 0
            => commands[k].cursor # unit[p].connection
      BY <2>1, <3>1 DEF UnitsOK
    <3> QED BY <3>1, <3>3, <3>4, <3>5, <3>6 DEF UnitsStay
  <2>3. CASE ~ InUnit(k)'
    <3>1. CommandOK(commands'[k]) /\ Len(connections) \in Nat
      BY SequenceFacts DEF TypeOK
    <3>2. commands'[k].cursor = 0
      BY <2>3, <3>1, InUnitPhase DEF CommandOK, PhaseOK, Fresh, UnitPhases, ReadingPhases,
         CommandState, Phases
    <3> QED BY <2>3, <3>1, <3>2 DEF UnitsStay
  <2> QED BY <2>2, <2>3
<1>2. UnitsOK'
  <2>1. \A p \in Processes : unit'[p].connection <= Len(connections')
    BY DEF UnitsOK, UnitsStay
  <2>2. \A p, q \in Processes :
          p # q /\ unit'[p].connection = unit'[q].connection => unit'[p].connection = 0
    BY DEF UnitsOK, UnitsStay
  <2> QED BY <1>1, <2>1, <2>2 DEF UnitsOK
<1>3. ASSUME NEW k \in DOMAIN commands', Lone(k)'
      PROVE  /\ commands'[k].cursor \in {0, Unit(k)'.connection}
             /\ \A j \in Others(k)' : InUnit(j)' => commands'[j].process # commands'[k].process
  <2>1. k \in DOMAIN commands /\ InUnit(k)' /\ commands'[k].shared = commands[k].shared
    BY <1>3 DEF UnitsStay, Continues, Lone
  <2>2. InUnit(k) /\ Unit(k)'.connection = Unit(k).connection
        /\ commands'[k].process = commands[k].process
    BY <2>1, UnitSame
  <2>3. Lone(k)
    BY <1>3, <2>1, <2>2 DEF Lone
  <2>4. commands'[k].cursor \in {0, commands[k].cursor, CursorOf(k)}
    BY <2>1, InUnitPhase DEF UnitsStay, Continues
  <2>5. commands[k].cursor \in {0, Unit(k).connection}
    BY <2>1, <2>3 DEF LoneUnits
  <2>6. ASSUME NEW j \in Others(k)', InUnit(j)'
        PROVE  commands'[j].process # commands'[k].process
    <3>1. j \in Others(k) /\ j \in DOMAIN commands
      BY DEF Others, UnitsStay
    <3>2. InUnit(j) /\ commands'[j].process = commands[j].process
      BY <2>6, <3>1, UnitSame
    <3> QED BY <2>1, <2>2, <2>3, <3>1, <3>2 DEF LoneUnits
  <2> QED BY <2>2, <2>4, <2>5, <2>6 DEF CursorOf
<1>4. LoneUnits'
  BY <1>3 DEF LoneUnits
<1> QED BY <1>2, <1>4

\* What a transaction holds stays owned, when the steps of others end no lone unit.
LEMMA WritesStayOwned ==
  ASSUME TypeOK, WritesOwned, UnitsStay, Forgets,
         \A j \in DOMAIN commands : Lone(j) =>
           \/ commands'[j].phase \in UnitPhases
           \/ connections'[Unit(j).connection].writes = <<>>
  PROVE  WritesOwned'
<1>1. ASSUME NEW c \in DOMAIN connections', NEW i \in DOMAIN connections'[c].writes,
             NEW b, b = connections'[c].writes[i].by, b # 0
      PROVE  /\ b \in DOMAIN commands'
             /\ commands'[b].phase \in UnitPhases \cup {"ended"}
             /\ ~commands'[b].shared => InUnit(b)' /\ c = Unit(b)'.connection
  <2>1. connections'[c].writes # <<>>
    BY EmptySet
  <2>2. c \in DOMAIN connections /\ connections'[c].writes = connections[c].writes
    BY <2>1 DEF Forgets
  <2>3. i \in DOMAIN connections[c].writes /\ connections[c].writes[i].by = b
    BY <1>1, <2>2
  <2>4. /\ b \in DOMAIN commands
        /\ commands[b].phase \in UnitPhases \cup {"ended"}
        /\ ~commands[b].shared => InUnit(b) /\ c = Unit(b).connection
    BY <1>1, <2>2, <2>3 DEF WritesOwned
  <2>5. Continues(b) /\ b \in DOMAIN commands'
    BY <2>4 DEF UnitsStay
  <2>6. ASSUME ~commands'[b].shared PROVE InUnit(b)' /\ c = Unit(b)'.connection
    <3>1. Lone(b) /\ c = Unit(b).connection
      BY <2>4, <2>5, <2>6 DEF Continues, Lone
    <3>2. commands'[b].phase \in UnitPhases
      BY <2>1, <2>4, <3>1
    <3>3. InUnit(b)'
      BY <3>2, InUnitPhase
    <3> QED BY <2>4, <3>1, <3>3, UnitSame
  <2> QED BY <2>4, <2>5, <2>6 DEF Continues
<1> QED BY <1>1 DEF WritesOwned

LEMMA MoveUnits ==
  ASSUME TypeOK, NEW k \in DOMAIN commands, NEW d, MovesTo(k, d), CommandOK(d),
         Len(connections') = Len(connections), DOMAIN connections' = DOMAIN connections,
         \A p \in Processes : unit'[p].connection = unit[p].connection,
         d.shared = commands[k].shared,
         d.phase \in UnitPhases =>
           /\ InUnit(k) /\ d.process = commands[k].process
           /\ d.cursor \in {0, commands[k].cursor, CursorOf(k)},
         commands[k].phase \in UnitPhases \cup {"ended"} => d.phase \in UnitPhases \cup {"ended"}
  PROVE  UnitsStay
<1>1. /\ DOMAIN commands' = DOMAIN commands
      /\ \A j \in DOMAIN commands : commands'[j] = IF j = k THEN d ELSE commands[j]
  BY CommandsTyped
<1>2. ASSUME NEW j \in DOMAIN commands PROVE Continues(j)
  <2>1. CASE j = k
    BY <1>1, <2>1 DEF Continues
  <2>2. CASE j # k
    BY <1>1, <2>2, InUnitPhase DEF Continues
  <2> QED BY <2>1, <2>2
<1> QED BY <1>1, <1>2 DEF UnitsStay

\* A step that only reads, and one of AssignPackages that writes.
LEMMA OutsideBase ==
  ASSUME BaseInv, NEW k \in DOMAIN commands, commands[k].phase \in ReadingPhases \cup {"enter"},
         NEW d, MovesTo(k, d), Reached(d), db' \in RowValues, stale' \in BOOLEAN,
         UNCHANGED <<connections, unit>>
  PROVE  BaseInv' /\ UnitsStay
<1>1. TypeOK /\ UnitsOK /\ LoneUnits /\ WritesOwned
  BY DEF BaseInv
<1>2. CommandOK(d) /\ d.shared = FALSE /\ d.phase \notin UnitPhases
  <2>1. CommandOK(d) /\ ~d.shared /\ d.phase \notin UnitPhases
    BY DEF Reached, Outside, UnitPhases, ReadingPhases
  <2>2. d.shared \in BOOLEAN
    BY <2>1 DEF CommandOK, CommandState
  <2> QED BY <2>1, <2>2
<1>3. commands[k].shared = FALSE /\ commands[k].phase \notin UnitPhases \cup {"ended"}
      /\ ~ InUnit(k)
  BY <1>1, SequenceFacts DEF CommandOK, CommandState, PhaseOK, Fresh, UnitPhases,
     ReadingPhases, InUnit
<1>4. /\ commands' \in Seq(CommandState) /\ DOMAIN commands' = DOMAIN commands
      /\ \A j \in DOMAIN commands : commands'[j] = IF j = k THEN d ELSE commands[j]
      /\ \A j \in DOMAIN commands : CommandOK(commands'[j])
  BY <1>1, <1>2, CommandsTyped
<1>5. TypeOK'
  BY <1>1, <1>4 DEF TypeOK
<1>6. UnitsStay
  BY <1>1, <1>2, <1>3, MoveUnits
<1>7. UnitsOK' /\ LoneUnits'
  BY <1>1, <1>5, <1>6, UnitsKept
<1>8. Forgets
  BY DEF Forgets
<1>9. \A j \in DOMAIN commands : Lone(j) => commands'[j].phase \in UnitPhases
  BY <1>3, <1>4, InUnitPhase DEF Lone
<1>10. WritesOwned'
  BY <1>1, <1>6, <1>8, <1>9, WritesStayOwned
<1> QED BY <1>5, <1>6, <1>7, <1>10 DEF BaseInv

\* A step of a unit of work that writes no row and forgets no lone unit's writes.
LEMMA InsideBase ==
  ASSUME BaseInv, NEW k \in DOMAIN commands, InUnit(k),
         NEW d, MovesTo(k, d), CommandOK(d), d.shared = commands[k].shared,
         d.phase \in UnitPhases \cup {"ended"},
         d.phase \in UnitPhases =>
           /\ d.process = commands[k].process
           /\ d.cursor \in {0, commands[k].cursor, CursorOf(k)},
         d.phase = "ended" => connections'[Unit(k).connection].writes = <<>>,
         UNCHANGED <<db, unit, stale>>,
         connections' \in Seq(ConnectionState), Len(connections') = Len(connections),
         Forgets
  PROVE  BaseInv' /\ UnitsStay
<1>1. TypeOK /\ UnitsOK /\ LoneUnits /\ WritesOwned
  BY DEF BaseInv
<1>2. DOMAIN connections' = DOMAIN connections
  BY <1>1, SequenceFacts, LenProperties
<1>3. /\ commands' \in Seq(CommandState) /\ DOMAIN commands' = DOMAIN commands
      /\ \A j \in DOMAIN commands : commands'[j] = IF j = k THEN d ELSE commands[j]
      /\ \A j \in DOMAIN commands : CommandOK(commands'[j])
  BY <1>1, CommandsTyped
<1>4. TypeOK'
  BY <1>1, <1>3 DEF TypeOK
<1>5. UnitsStay
  BY <1>1, <1>2, MoveUnits
<1>6. UnitsOK' /\ LoneUnits'
  BY <1>1, <1>4, <1>5, UnitsKept
<1>7. \A j \in DOMAIN commands : Lone(j) =>
        \/ commands'[j].phase \in UnitPhases
        \/ connections'[Unit(j).connection].writes = <<>>
  BY <1>3, InUnitPhase DEF Lone, UnitPhases
<1>8. WritesOwned'
  BY <1>1, <1>5, <1>7, WritesStayOwned
<1> QED BY <1>4, <1>5, <1>6, <1>8 DEF BaseInv

\* The package that a transaction of AssignPackages writes.
LEMMA WritePackageStep ==
  ASSUME TypeOK, NEW k \in DOMAIN commands, WritePackage(k)
  PROVE  /\ commands[k].phase = "write package" /\ commands[k].kind = "assign packages"
         /\ commands[k].route \in Routes /\ Head(commands[k].packages) \in Packages
         /\ \E d : MovesTo(k, d) /\ Reached(d)
         /\ db' \in RowValues /\ stale' \in BOOLEAN
         /\ UNCHANGED <<connections, unit>>
<1> DEFINE c == commands[k]
           p == Head(c.packages)
<1>1. c \in CommandState /\ CommandOK(c)
  BY SequenceFacts
<1>2. c.phase = "write package" /\ c.kind = "assign packages" /\ c.packages # <<>>
      /\ c.route \in Routes
  BY <1>1 DEF WritePackage, CommandOK, PhaseOK, Called, RouteKinds
<1>3. c.packages \in Seq(Packages)
      /\ c.copy \in [truck : Trucks \cup {None}, packages : SUBSET Packages]
  BY <1>1, SameCopy
<1>4. p \in Packages
  BY <1>2, <1>3, HeadTailProperties
<1>5. \E d : MovesTo(k, d) /\ Reached(d)
  <2> DEFINE copy == [c.copy EXCEPT !.packages = @ \cup {p}]
             n == NextPackage([c EXCEPT !.copy = copy])
  <2>1. copy \in [truck : Trucks \cup {None}, packages : SUBSET Packages]
    BY <1>3, <1>4
  <2>2. Reached(n)
    <3> HIDE DEF copy
    <3> QED BY <1>1, <1>2, <2>1, NextPackageReached
  <2>3. [c EXCEPT !.copy = copy] = [c EXCEPT !.copy.packages = @ \cup {p}]
    BY <1>1 DEF CommandState
  <2>4. CASE End(k, "raised")
    <3>1. "write package" \in ReadingPhases
      BY DEF ReadingPhases
    <3> QED BY <1>1, <1>2, <2>4, <3>1, EndMoves
  <2>5. CASE MovesTo(k, NextPackage([c EXCEPT !.copy.packages = @ \cup {p}]))
    BY <2>2, <2>3, <2>5
  <2>6. End(k, "raised") \/ MovesTo(k, NextPackage([c EXCEPT !.copy.packages = @ \cup {p}]))
    BY DEF WritePackage, MovesTo
  <2> QED BY <2>4, <2>5, <2>6
<1>6. db' \in RowValues
  <2>1. db \in RowValues
    BY DEF TypeOK
  <2>2. CASE db' = db
    BY <2>1, <2>2
  <2>3. ASSUME NEW v \in Routes \cup {None}, db' = [db EXCEPT ![p] = v]
        PROVE  db' \in RowValues
    <3> HIDE DEF c, p
    <3>1. p \in Rows /\ p \notin Routes /\ p \notin Trucks
      BY <1>4, DispatchDatabaseAssumption DEF Rows
    <3>2. DOMAIN db = Rows /\ \A x \in Rows : db'[x] = IF x = p THEN v ELSE db[x]
      BY <2>1, <2>3 DEF RowValues
    <3>3. DOMAIN db' = Rows /\ db' = [x \in Rows |-> db'[x]]
      BY <2>1, <2>3 DEF RowValues
    <3>4. \A x \in Rows : db'[x] \in Routes \cup Trucks \cup {None, Gone, "Free", "On the way"}
      BY <2>1, <3>2 DEF RowValues
    <3>5. \A r \in Routes : db'[r] \in Trucks \cup {None, Gone}
      BY <2>1, <3>1, <3>2 DEF RowValues, Rows
    <3>6. \A t \in Trucks : db'[t] \in {"Free", "On the way"}
      BY <2>1, <3>1, <3>2 DEF RowValues, Rows
    <3>7. \A q \in Packages : db'[q] \in Routes \cup {None, Gone}
      BY <2>1, <3>2 DEF RowValues, Rows
    <3> QED BY <3>3, <3>4, <3>5, <3>6, <3>7 DEF RowValues
  <2>4. \/ db' = db
        \/ \E v \in Routes \cup {None} : db' = [db EXCEPT ![p] = v]
    BY <1>2 DEF WritePackage
  <2> QED BY <2>2, <2>3, <2>4
<1>7. stale' \in BOOLEAN
  BY DEF WritePackage, TypeOK
<1>8. UNCHANGED <<connections, unit>>
  BY DEF WritePackage
<1> QED BY <1>2, <1>4, <1>5, <1>6, <1>7, <1>8

\* Any step outside a unit of work.
LEMMA OutsideStepBase ==
  ASSUME BaseInv, NEW k \in DOMAIN commands, ReadOnly(k) \/ WritePackage(k)
  PROVE  BaseInv' /\ UnitsStay
<1>1. TypeOK
  BY DEF BaseInv
<1>2. CASE ReadOnly(k)
  <2>1. Untouched /\ \E d : MovesTo(k, d) /\ Reached(d)
    BY <1>1, <1>2, ReadOnlyStep
  <2>2. commands[k].phase \in ReadingPhases \cup {"enter"}
    BY <1>2 DEF ReadOnly, ReadRoute, ReadTruckOfRoute, ReadPackagesOfRoute, ReadTruck,
       ReadRemovedPackage, ReadAssignedPackage, EnterFails, ReadingPhases
  <2>3. db' \in RowValues /\ stale' \in BOOLEAN /\ UNCHANGED <<connections, unit>>
    BY <1>1, <2>1 DEF Untouched, TypeOK
  <2> QED BY <2>1, <2>2, <2>3, OutsideBase
<1>3. CASE WritePackage(k)
  <2>1. /\ commands[k].phase = "write package"
        /\ \E d : MovesTo(k, d) /\ Reached(d)
        /\ db' \in RowValues /\ stale' \in BOOLEAN /\ UNCHANGED <<connections, unit>>
    BY <1>1, <1>3, WritePackageStep
  <2>2. commands[k].phase \in ReadingPhases \cup {"enter"}
    BY <2>1 DEF ReadingPhases
  <2> QED BY <2>1, <2>2, OutsideBase
<1> QED BY <1>2, <1>3

LEMMA WaitBase ==
  ASSUME BaseInv, NEW k \in DOMAIN commands, Wait(k)
  PROVE  BaseInv' /\ UnitsStay /\ Forgets
<1>1. TypeOK /\ UnitsOK /\ Untouched /\ InUnit(k)
  BY DEF BaseInv, Wait, Executing, InUnit
<1>2. CursorOf(k) \in Nat
  BY <1>1, CursorFacts, SequenceFacts
<1>3. PICK d : /\ MovesTo(k, d) /\ CommandOK(d) /\ SameCommand(d, commands[k])
               /\ d.phase = "statements" /\ d.cursor = CursorOf(k)
  BY <1>1, <1>2, WaitMoves
<1>4. Forgets /\ connections' \in Seq(ConnectionState) /\ Len(connections') = Len(connections)
      /\ UNCHANGED <<db, unit, stale>>
  BY <1>1 DEF Forgets, Untouched, TypeOK
<1>5. d.phase \in UnitPhases /\ d.phase # "ended"
  BY <1>3 DEF UnitPhases
<1> QED BY <1>1, <1>3, <1>4, <1>5, InsideBase DEF SameCommand

\* A unit of work whose command raises: a missing row, a failing statement, a
\* connection lost before COMMIT takes effect.
LEMMA RaiseBase ==
  ASSUME BaseInv, NEW k \in DOMAIN commands,
         RowMissing(k) \/ StatementFails(k) \/ CommitFails(k)
  PROVE  BaseInv' /\ UnitsStay /\ Forgets /\ Raise(k) /\ InUnit(k)
         /\ UNCHANGED <<db, unit, stale>>
<1>1. TypeOK /\ UnitsOK
  BY DEF BaseInv
<1>2. InUnit(k) /\ commands[k].phase \in UnitPhases /\ Raise(k) /\ UNCHANGED <<db, unit, stale>>
  BY DEF RowMissing, StatementFails, CommitFails, Executing, InUnit, UnitPhases, Untouched
<1>3. PICK d : /\ MovesTo(k, d) /\ CommandOK(d) /\ SameCommand(d, commands[k])
               /\ d.phase = "exit" /\ d.cursor = 0
  BY <1>1, <1>2, RaiseMoves
<1> DEFINE c == CursorOf(k)
<1>4. c \in DOMAIN connections /\ connections[c] \in ConnectionState
  BY <1>1, <1>2, CursorFacts, SequenceFacts
<1>5. Forgets /\ connections' \in Seq(ConnectionState) /\ Len(connections') = Len(connections)
  <2>1. ASSUME NEW x \in {connections[c], Aborted(c)}, Leave(c, k, x)
        PROVE  Forgets /\ connections' \in Seq(ConnectionState)
               /\ Len(connections') = Len(connections)
    <3> HIDE DEF c
    <3>1. Aborted(c) \in ConnectionState /\ Aborted(c).writes = <<>>
      BY <1>4, EmptySeq DEF Aborted, ConnectionState
    <3>2. x \in ConnectionState /\ x.writes \in {<<>>, connections[c].writes}
      BY <1>4, <2>1, <3>1
    <3> QED BY <1>1, <1>4, <2>1, <3>2, LeaveKeeps
  <2>2. CASE RowMissing(k)
    BY <2>1, <2>2 DEF RowMissing
  <2>3. CASE StatementFails(k)
    <3> DEFINE good == Live(c) /\ ~connections[c].aborted
    <3>1. Leave(c, k, IF good THEN Aborted(c) ELSE connections[c])
      BY <2>3 DEF StatementFails
    <3>2. (IF good THEN Aborted(c) ELSE connections[c]) \in {connections[c], Aborted(c)}
      OBVIOUS
    <3> QED BY <2>1, <3>1, <3>2
  <2>4. CASE CommitFails(k)
    <3>1. PICK e \in DOMAIN connections : connections' = [connections EXCEPT ![e] = Closed]
      BY <1>1, <1>2, <2>4, CursorFacts DEF CommitFails
    <3>2. /\ connections' \in Seq(ConnectionState) /\ Len(connections') = Len(connections)
          /\ DOMAIN connections' = DOMAIN connections
          /\ \A x \in DOMAIN connections :
               connections'[x] = IF x = e THEN Closed ELSE connections[x]
      BY <1>1, <3>1, ConnectionTypes, ConnectionReplaced
    <3> QED BY <3>2, ConnectionTypes DEF Forgets
  <2> QED BY <2>2, <2>3, <2>4
<1>6. d.phase \in UnitPhases /\ d.phase # "ended"
  BY <1>3 DEF UnitPhases
<1>7. BaseInv' /\ UnitsStay
  BY <1>2, <1>3, <1>5, <1>6, InsideBase DEF SameCommand
<1> QED BY <1>2, <1>5, <1>7

LEMMA ExitBase ==
  ASSUME BaseInv, NEW k \in DOMAIN commands, Exit(k)
  PROVE  BaseInv' /\ UnitsStay /\ Forgets
<1>1. TypeOK /\ UnitsOK /\ InUnit(k) /\ UNCHANGED <<db, unit, stale>>
  BY DEF BaseInv, Exit, InUnit
<1> DEFINE c == Unit(k).connection
<1>2. c \in DOMAIN connections
  BY <1>1, CursorFacts
<1>3. connections' = [connections EXCEPT ![c] = Closed]
  BY DEF Exit
<1>4. PICK d : /\ MovesTo(k, d) /\ CommandOK(d) /\ d.phase = "ended"
               /\ d.shared = commands[k].shared
  BY <1>1, ExitMoves
<1> HIDE DEF c
<1>5. /\ connections' \in Seq(ConnectionState) /\ Len(connections') = Len(connections)
      /\ DOMAIN connections' = DOMAIN connections
      /\ \A e \in DOMAIN connections :
           connections'[e] = IF e = c THEN Closed ELSE connections[e]
  BY <1>1, <1>2, <1>3, ConnectionTypes, ConnectionReplaced
<1>6. Forgets /\ connections'[c].writes = <<>>
  BY <1>2, <1>5, ConnectionTypes DEF Forgets
<1>7. d.phase \notin UnitPhases
  BY <1>4 DEF UnitPhases
<1>8. connections'[Unit(k).connection].writes = <<>>
  BY <1>6 DEF c
<1>9. BaseInv' /\ UnitsStay
  BY <1>1, <1>4, <1>5, <1>6, <1>7, <1>8, InsideBase
<1> QED BY <1>6, <1>9

\* Writes added to those a transaction holds.
Extended(new, old, W) ==
  /\ new \in Seq(WriteRecords) /\ Len(new) = Len(old) + Len(W) /\ DOMAIN new = 1 .. Len(new)
  /\ \A i \in 1 .. Len(old) : i \in DOMAIN new /\ new[i] = old[i]
  /\ \A i \in 1 .. Len(W) : Len(old) + i \in DOMAIN new /\ new[Len(old) + i] = W[i]
  /\ \A i \in DOMAIN new : i \in 1 .. Len(old) \/ \E j \in 1 .. Len(W) : i = Len(old) + j

LEMMA ConcatExtends ==
  ASSUME NEW old \in Seq(WriteRecords), NEW W \in Seq(WriteRecords)
  PROVE  Extended(old \o W, old, W)
<1> DEFINE V == old \o W
           n == Len(old)
           m == Len(W)
<1>1. /\ V \in Seq(WriteRecords) /\ Len(V) = n + m
      /\ \A i \in 1 .. n + m : V[i] = IF i <= n THEN old[i] ELSE W[i - n]
  BY ConcatProperties
<1>2. n \in Nat /\ m \in Nat /\ DOMAIN V = 1 .. Len(V)
  BY <1>1, LenProperties
<1> HIDE DEF V, n, m
<1>3. \A i \in 1 .. n : i \in DOMAIN V /\ V[i] = old[i]
  BY <1>1, <1>2
<1>4. \A i \in 1 .. m : n + i \in DOMAIN V /\ V[n + i] = W[i]
  <2> TAKE i \in 1 .. m
  <2>1. n + i \in 1 .. n + m /\ ~ (n + i <= n) /\ (n + i) - n = i
    BY <1>2
  <2> QED BY <1>1, <1>2, <2>1
<1>5. \A i \in DOMAIN V : i \in 1 .. n \/ \E j \in 1 .. m : i = n + j
  <2> TAKE i \in DOMAIN V
  <2>1. i \in 1 .. n + m
    BY <1>1, <1>2
  <2>2. CASE i <= n
    BY <1>2, <2>1, <2>2
  <2>3. CASE ~ (i <= n)
    <3>1. i - n \in 1 .. m /\ i = n + (i - n)
      BY <1>2, <2>1, <2>3
    <3> QED BY <3>1
  <2> QED BY <2>2, <2>3
<1>6. Extended(V, old, W)
  BY <1>1, <1>2, <1>3, <1>4, <1>5 DEF Extended, n, m
<1> QED BY <1>6 DEF V

\* What executing a statement does to the transaction.
Executed(k, c, s, W) ==
  /\ s \in Statements /\ commands[k].todo[1] = s /\ c \in DOMAIN connections
  /\ WriteList(W, View(c), s, k)
  /\ connections[c].open /\ ~connections[c].aborted
  /\ ~MustWait(c, s) /\ Unique(View(c), s) /\ View(c)[s.row] # Gone
  /\ connections' \in Seq(ConnectionState) /\ Len(connections') = Len(connections)
  /\ DOMAIN connections' = DOMAIN connections
  /\ \A e \in DOMAIN connections : e # c => connections'[e] = connections[e]
  /\ c = Unit(k).connection =>
       /\ Extended(connections'[c].writes, connections[c].writes, W)
       /\ connections'[c].open = connections[c].open
       /\ connections'[c].aborted = connections[c].aborted
  /\ c # Unit(k).connection => connections'[c].writes = <<>>

LEMMA ExecuteStep ==
  ASSUME TypeOK, UnitsOK, NEW k \in DOMAIN commands, Execute(k)
  PROVE  /\ InUnit(k) /\ commands[k].phase = "statements" /\ Advances(k)
         /\ UNCHANGED <<db, unit, stale>>
         /\ \E s, W : Executed(k, CursorOf(k), s, W)
<1> DEFINE c == CursorOf(k)
           s == Head(commands[k].todo)
           W == Writes(View(c), s, k)
           x == [connections[c] EXCEPT !.writes = @ \o W]
<1>1. InUnit(k) /\ commands[k].phase = "statements" /\ Advances(k)
      /\ UNCHANGED <<db, unit, stale>>
  BY DEF Execute, Executing, InUnit, Advances
<1>2. commands[k] \in CommandState /\ CommandOK(commands[k]) /\ k \in Nat
  BY SequenceFacts
<1>3. commands[k].todo \in Seq(Statements) /\ commands[k].todo # <<>>
  BY <1>1, <1>2 DEF CommandState, CommandOK, PhaseOK
<1>4. s \in Statements /\ commands[k].todo[1] = s
  BY <1>3, TailFacts
<1>5. c \in DOMAIN connections /\ connections[c] \in ConnectionState
  BY <1>1, CursorFacts, SequenceFacts
<1>6. /\ connections[c].open /\ ~connections[c].aborted
      /\ ~MustWait(c, s) /\ Unique(View(c), s) /\ View(c)[s.row] # Gone /\ Leave(c, k, x)
  BY DEF Execute, Live
<1> HIDE DEF c, s
<1>7. WriteList(W, View(c), s, k)
  BY <1>2, <1>4, WritesFacts
<1>8. W \in Seq(WriteRecords) /\ connections[c].writes \in Seq(WriteRecords)
  BY <1>5, <1>7 DEF WriteList, ConnectionState
<1> HIDE DEF W
<1>9. Extended(connections[c].writes \o W, connections[c].writes, W)
  BY <1>8, ConcatExtends
<1>10. x \in ConnectionState /\ x.writes = connections[c].writes \o W
       /\ x.open = connections[c].open /\ x.aborted = connections[c].aborted
  <2>1. connections[c].writes \o W \in Seq(WriteRecords)
    BY <1>9 DEF Extended
  <2> QED BY <1>5, <2>1 DEF ConnectionState
<1> HIDE DEF x
<1>11. /\ connections' \in Seq(ConnectionState) /\ Len(connections') = Len(connections)
       /\ DOMAIN connections' = DOMAIN connections
       /\ \A e \in DOMAIN connections :
            connections'[e] = IF e # c THEN connections[e]
                              ELSE IF c = Unit(k).connection THEN x ELSE Closed
  BY <1>5, <1>6, <1>10, LeaveKeeps
<1>12. Executed(k, c, s, W)
  BY <1>4, <1>5, <1>6, <1>7, <1>9, <1>10, <1>11, ConnectionTypes DEF Executed
<1> QED BY <1>1, <1>12 DEF c

LEMMA ExecuteBase ==
  ASSUME BaseInv, NEW k \in DOMAIN commands, Execute(k)
  PROVE  BaseInv' /\ UnitsStay
<1>1. TypeOK /\ UnitsOK /\ LoneUnits /\ WritesOwned
  BY DEF BaseInv
<1>2. /\ InUnit(k) /\ commands[k].phase = "statements" /\ Advances(k)
      /\ UNCHANGED <<db, unit, stale>>
      /\ \E s, W : Executed(k, CursorOf(k), s, W)
  BY <1>1, ExecuteStep
<1>3. PICK s, W : Executed(k, CursorOf(k), s, W)
  BY <1>2
<1>4. PICK d : /\ MovesTo(k, d) /\ CommandOK(d) /\ SameCommand(d, commands[k])
               /\ d.phase \in {"statements", "commit"} /\ d.cursor = 0
  BY <1>1, <1>2, AdvanceMoves
<1>5. /\ commands' \in Seq(CommandState) /\ DOMAIN commands' = DOMAIN commands
      /\ \A j \in DOMAIN commands : commands'[j] = IF j = k THEN d ELSE commands[j]
      /\ \A j \in DOMAIN commands : CommandOK(commands'[j])
  BY <1>1, <1>4, CommandsTyped
<1>6. TypeOK'
  BY <1>1, <1>2, <1>3, <1>5 DEF TypeOK, Executed
<1>7. d.phase \in UnitPhases
  BY <1>4 DEF UnitPhases
<1>8. UnitsStay
  BY <1>1, <1>2, <1>3, <1>4, <1>7, MoveUnits DEF SameCommand, Executed
<1>9. UnitsOK' /\ LoneUnits'
  BY <1>1, <1>6, <1>8, UnitsKept
<1>10. ASSUME NEW e \in DOMAIN connections', NEW i \in DOMAIN connections'[e].writes,
              NEW b, b = connections'[e].writes[i].by, b # 0
       PROVE  /\ b \in DOMAIN commands'
              /\ commands'[b].phase \in UnitPhases \cup {"ended"}
              /\ ~commands'[b].shared => InUnit(b)' /\ e = Unit(b)'.connection
  <2> DEFINE c == CursorOf(k)
  <2>1. e \in DOMAIN connections /\ c \in DOMAIN connections
    BY <1>3 DEF Executed
  <2>2. CASE \E j \in DOMAIN connections[e].writes : connections[e].writes[j].by = b
    <3>1. /\ b \in DOMAIN commands
          /\ commands[b].phase \in UnitPhases \cup {"ended"}
          /\ ~commands[b].shared => InUnit(b) /\ e = Unit(b).connection
      BY <1>1, <1>10, <2>1, <2>2 DEF WritesOwned
    <3>2. Continues(b) /\ b \in DOMAIN commands'
      BY <1>8, <3>1 DEF UnitsStay
    <3>3. ASSUME ~commands'[b].shared PROVE InUnit(b)' /\ e = Unit(b)'.connection
      <4>1. InUnit(b) /\ e = Unit(b).connection
        BY <3>1, <3>2, <3>3 DEF Continues
      <4>2. InUnit(b)'
        BY <1>5, <1>7, <3>1, <4>1, InUnitPhase
      <4> QED BY <1>1, <1>8, <3>1, <4>1, <4>2, UnitSame
    <3> QED BY <3>1, <3>2, <3>3 DEF Continues
  <2>3. CASE ~ \E j \in DOMAIN connections[e].writes : connections[e].writes[j].by = b
    <3>1. e = c /\ connections'[c].writes # <<>>
      BY <1>3, <1>10, <2>1, <2>3, EmptySet DEF Executed
    <3>2. c = Unit(k).connection /\ Extended(connections'[c].writes, connections[c].writes, W)
      BY <1>3, <3>1 DEF Executed
    <3>3. DOMAIN connections[c].writes = 1 .. Len(connections[c].writes)
      BY <1>1, <2>1, SequenceFacts
    <3>4. PICK j \in 1 .. Len(W) : b = W[j].by
      <4>1. i \in DOMAIN connections'[c].writes /\ b = connections'[c].writes[i].by
        BY <1>10, <3>1
      <4>2. i \notin 1 .. Len(connections[c].writes)
        BY <2>3, <3>1, <3>2, <3>3, <4>1 DEF Extended
      <4>3. PICK j \in 1 .. Len(W) : i = Len(connections[c].writes) + j
        BY <3>2, <4>1, <4>2 DEF Extended
      <4> QED BY <3>2, <4>1, <4>3 DEF Extended
    <3>5. b = k
      <4>1. WriteList(W, View(c), s, k)
        BY <1>3 DEF Executed
      <4>2. W[1].by = k
        BY <4>1 DEF WriteList
      <4>3. j \in 2 .. Len(W) => W[j].by = 0
        BY <4>1 DEF WriteList
      <4>4. j = 1 \/ j \in 2 .. Len(W)
        BY <4>1 DEF WriteList
      <4> QED BY <1>10, <3>4, <4>2, <4>3, <4>4
    <3>6. InUnit(k)'
      BY <1>5, <1>7, InUnitPhase
    <3>7. Unit(k)'.connection = Unit(k).connection
      BY <1>1, <1>8, <3>6, UnitSame
    <3> QED BY <1>5, <1>7, <3>1, <3>2, <3>5, <3>6, <3>7
  <2> QED BY <2>2, <2>3
<1>11. WritesOwned'
  BY <1>10 DEF WritesOwned
<1> QED BY <1>6, <1>8, <1>9, <1>11 DEF BaseInv

\* Writes of a unit of work leave rows that are rows.
LEMMA OverlayTyped ==
  ASSUME NEW rows \in RowValues, NEW writes \in Seq(WriteRecords)
  PROVE  Overlay(rows, writes) \in RowValues
<1> DEFINE O == Overlay(rows, writes)
<1>1. O = [x \in Rows |-> O[x]]
  BY Zenon DEF Overlay
<1>2. Len(writes) \in Nat /\ DOMAIN writes = 1 .. Len(writes)
      /\ \A i \in DOMAIN writes : writes[i] \in WriteRecords
  BY LenProperties, ElementOfSeq
<1> HIDE DEF O
<1>3. ASSUME NEW x \in Rows
      PROVE  O[x] = rows[x] \/ Statement(x, O[x]) \in Statements
  <2>1. CASE O[x] = rows[x]
    BY <2>1
  <2>2. CASE O[x] # rows[x]
    <3>1. \E i \in DOMAIN writes : writes[i].row = x /\ O[x] = writes[i].value
      BY <1>2, <2>2, OverlayValue DEF O
    <3> QED BY <1>2, <3>1 DEF WriteRecords
  <2> QED BY <2>1, <2>2
<1>4. ASSUME NEW x, NEW v, Statement(x, v) \in Statements
      PROVE  /\ v \in Trucks \cup {None, Gone, "Free", "On the way"}
             /\ x \in Routes => v \in Trucks \cup {Gone}
             /\ x \in Trucks => v \in {"Free", "On the way"}
             /\ x \in Packages => v \in {None, Gone}
  <2>1. Statement(x, v).row = x /\ Statement(x, v).value = v
    BY DEF Statement
  <2> QED BY <1>4, <2>1, DispatchDatabaseAssumption DEF Statements
<1>5. ASSUME NEW x \in Rows
      PROVE  O[x] \in Routes \cup Trucks \cup {None, Gone, "Free", "On the way"}
  BY <1>3, <1>4 DEF RowValues
<1>6. \A r \in Routes : O[r] \in Trucks \cup {None, Gone}
  BY <1>3, <1>4 DEF RowValues, Rows
<1>7. \A t \in Trucks : O[t] \in {"Free", "On the way"}
  BY <1>3, <1>4 DEF RowValues, Rows
<1>8. \A p \in Packages : O[p] \in Routes \cup {None, Gone}
  BY <1>3, <1>4 DEF RowValues, Rows
<1> QED BY <1>1, <1>5, <1>6, <1>7, <1>8 DEF RowValues, O

LEMMA WrittenByFacts ==
  ASSUME NEW k, NEW writes, NEW n \in Nat, DOMAIN writes = 1 .. n
  PROVE  /\ IsFiniteSet(WrittenBy(k, writes)) /\ Cardinality(WrittenBy(k, writes)) \in Nat
         /\ Cardinality(WrittenBy(k, writes)) = 0 <=> WrittenBy(k, writes) = {}
<1>1. WrittenBy(k, writes) \subseteq 1 .. n /\ IsFiniteSet(1 .. n)
  BY FS_Interval DEF WrittenBy
<1>2. IsFiniteSet(WrittenBy(k, writes))
  BY <1>1, FS_Subset
<1> QED BY <1>2, FS_CardinalityType, FS_EmptySet

\* What the commit of a transaction does to a command.
Committed(k, a, j, writes) ==
  /\ SameCommand([commands'[j] EXCEPT !.kept = commands[j].kept], commands[j])
  /\ commands'[j].phase = IF j = k THEN "exit" ELSE commands[j].phase
  /\ commands'[j].kept = commands[j].kept + Cardinality(WrittenBy(j, writes))
  /\ commands'[j].failed = (commands[j].failed \/ (j = k /\ ~a))
  /\ commands'[j].unanswered = (commands[j].unanswered \/ (j = k /\ ~a))
  /\ commands'[j].todo = commands[j].todo
  /\ commands'[j].cursor = commands[j].cursor /\ commands'[j].shared = commands[j].shared
  /\ commands'[j].process = commands[j].process /\ commands'[j].planned = commands[j].planned
  /\ commands'[j].outcome = commands[j].outcome

\* The connection after a commit, answered or not.
Afterwards(a) == IF a THEN NewConnection ELSE Closed

LEMMA CommitStep ==
  ASSUME BaseInv, NEW k \in DOMAIN commands,
         NEW a \in BOOLEAN, Persist(k, a)
  PROVE  LET c == Unit(k).connection IN
         /\ InUnit(k) /\ commands[k].phase = "commit" /\ c \in DOMAIN connections
         /\ connections[c].open /\ db' = View(c) /\ db' \in RowValues /\ stale' \in BOOLEAN
         /\ connections' \in Seq(ConnectionState) /\ Len(connections') = Len(connections)
         /\ DOMAIN connections' = DOMAIN connections
         /\ \A e \in DOMAIN connections :
              connections'[e] = IF e = c THEN Afterwards(a) ELSE connections[e]
         /\ unit' \in [Processes -> [connection : Nat, committed : BOOLEAN]]
         /\ \A p \in Processes :
              /\ unit'[p].connection = unit[p].connection
              /\ unit'[p].committed = (unit[p].committed \/ (a /\ p = commands[k].process))
         /\ commands' \in Seq(CommandState) /\ DOMAIN commands' = DOMAIN commands
         /\ \A j \in DOMAIN commands :
              CommandOK(commands'[j]) /\ Committed(k, a, j, connections[c].writes)
<1> DEFINE c == Unit(k).connection
           writes == connections[c].writes
           new(j) == [commands[j] EXCEPT
                        !.phase = IF j = k THEN "exit" ELSE commands[j].phase,
                        !.failed = commands[j].failed \/ (j = k /\ ~a),
                        !.unanswered = commands[j].unanswered \/ (j = k /\ ~a),
                        !.kept = commands[j].kept + Cardinality(WrittenBy(j, writes))]
<1>1. TypeOK /\ UnitsOK /\ WritesOwned
  BY DEF BaseInv
<1>2. InUnit(k) /\ commands[k].phase = "commit"
  BY DEF Persist, InUnit
<1>3. c \in DOMAIN connections /\ connections[c] \in ConnectionState
      /\ commands[k].process \in Processes
  BY <1>1, <1>2, CursorFacts, SequenceFacts
<1>4. writes \in Seq(WriteRecords) /\ Len(writes) \in Nat /\ DOMAIN writes = 1 .. Len(writes)
  BY <1>1, <1>3, SequenceFacts DEF ConnectionState
<1>5. connections[c].open /\ db' = View(c) /\ stale' \in BOOLEAN
  BY <1>1 DEF Persist, Live, TypeOK
<1>6. db' \in RowValues
  BY <1>1, <1>4, <1>5, OverlayTyped DEF View, TypeOK
<1>7. connections' = [connections EXCEPT ![c] = Afterwards(a)]
  BY DEF Persist, Afterwards
<1>8. unit' = [unit EXCEPT ![commands[k].process].committed = @ \/ a]
  BY DEF Persist
<1>9. commands' = [j \in DOMAIN commands |-> new(j)]
  BY DEF Persist
<1> HIDE DEF c
<1>10. /\ connections' \in Seq(ConnectionState) /\ Len(connections') = Len(connections)
       /\ DOMAIN connections' = DOMAIN connections
       /\ \A e \in DOMAIN connections :
            connections'[e] = IF e = c THEN Afterwards(a) ELSE connections[e]
  <2>1. Afterwards(a) \in ConnectionState
    BY ConnectionTypes DEF Afterwards
  <2> QED BY <1>1, <1>3, <1>7, <2>1, ConnectionReplaced
<1>11. /\ unit' \in [Processes -> [connection : Nat, committed : BOOLEAN]]
       /\ \A p \in Processes :
            /\ unit'[p].connection = unit[p].connection
            /\ unit'[p].committed = (unit[p].committed \/ (a /\ p = commands[k].process))
  BY <1>1, <1>3, <1>8 DEF TypeOK
<1>12. ASSUME NEW j \in DOMAIN commands
       PROVE  CommandOK(new(j)) /\ new(j) \in CommandState
              /\ (commands'[j] = new(j) => Committed(k, a, j, writes))
  <2> DEFINE b == commands[j]
             n == Cardinality(WrittenBy(j, writes))
             ph == IF j = k THEN "exit" ELSE b.phase
             lost == j = k /\ ~a
             fl == b.failed \/ lost
             un == b.unanswered \/ lost
             d == [b EXCEPT !.phase = ph, !.failed = fl, !.unanswered = un, !.kept = b.kept + n]
  <2>1. b \in CommandState /\ CommandOK(b) /\ j # 0
    BY <1>1, SequenceFacts
  <2>2. n \in Nat /\ (n = 0 <=> WrittenBy(j, writes) = {})
    BY <1>4, WrittenByFacts
  <2>3. b.phase \notin UnitPhases \cup {"ended"} => n = 0
    <3>1. SUFFICES ASSUME n # 0 PROVE b.phase \in UnitPhases \cup {"ended"}
      BY <2>2
    <3>2. PICK i \in DOMAIN writes : writes[i].by = j
      BY <2>2, <3>1 DEF WrittenBy
    <3> QED BY <1>1, <1>3, <2>1, <3>2 DEF WritesOwned
  <2>4. ph \in Phases
    BY <2>1 DEF CommandState, Phases, UnitPhases
  <2>5. b.kept + n \in Nat
    BY <2>1, <2>2 DEF CommandState
  <2>11. fl \in BOOLEAN /\ un \in BOOLEAN
    OBVIOUS
  <2> HIDE DEF n, ph, fl, un
  <2>6. d \in CommandState
    BY <2>1, <2>4, <2>5, <2>11 DEF CommandState
  <2>7. /\ d.phase = ph /\ d.kept = b.kept + n /\ d.todo = b.todo
        /\ d.failed = fl /\ d.unanswered = un
        /\ d.cursor = b.cursor /\ d.shared = b.shared /\ d.process = b.process
        /\ d.planned = b.planned /\ d.outcome = b.outcome /\ d.kind = b.kind
        /\ d.route = b.route /\ d.truck = b.truck /\ d.packages = b.packages /\ d.copy = b.copy
    BY <2>1 DEF CommandState
  <2>8. b.kept \in Nat
    BY <2>1 DEF CommandState
  <2> HIDE DEF d
  <2>9. CommandOK(d)
    <3>1. CASE j = k
      <4>1. ph = "exit" /\ b.todo = <<>> /\ b.cursor = 0 /\ b.kind \in UnitKinds /\ Called(b)
        BY <1>2, <2>1, <3>1 DEF ph, CommandOK, PhaseOK, UnitPhases
      <4>2. Called(d)
        BY <2>7, <4>1 DEF Called
      <4> QED BY <2>6, <2>7, <4>1, <4>2 DEF CommandOK, PhaseOK, UnitPhases, ReadingPhases
    <3>2. CASE j # k
      <4>1. ph = b.phase
        BY <3>2 DEF ph
      <4>2. b.phase # "ended" => Called(d)
        BY <2>1, <2>7 DEF Called, CommandOK
      <4>3. b.phase \in ReadingPhases \cup {"enter"} => Fresh(d)
        <5>1. SUFFICES ASSUME b.phase \in ReadingPhases \cup {"enter"} PROVE Fresh(d)
          OBVIOUS
        <5>2. n = 0 /\ Fresh(b)
          BY <2>1, <2>3, <5>1 DEF ReadingPhases, UnitPhases, CommandOK, PhaseOK
        <5>3. ~fl
          BY <3>2, <5>2 DEF fl, Fresh
        <5> QED BY <2>7, <2>8, <5>2, <5>3 DEF Fresh
      <4> QED BY <2>1, <2>6, <2>7, <4>1, <4>2, <4>3 DEF CommandOK, PhaseOK
    <3> QED BY <3>1, <3>2
  <2>10. ASSUME commands'[j] = d PROVE Committed(k, a, j, writes)
    <3>1. SameCommand([d EXCEPT !.kept = b.kept], b)
      BY <2>6, <2>7, <2>8 DEF SameCommand, CommandState
    <3> QED BY <2>7, <2>10, <3>1 DEF Committed, n, ph, fl, un
  <2> QED BY <2>6, <2>9, <2>10 DEF d, ph, n, fl, un
<1>13. \A j \in DOMAIN commands : new(j) \in CommandState
  BY <1>12
<1>14. Len(commands) \in Nat /\ DOMAIN commands = 1 .. Len(commands)
  BY <1>1, SequenceFacts
<1> HIDE DEF new
<1>15. commands' \in [1 .. Len(commands) -> CommandState]
  BY <1>9, <1>13, <1>14
<1>16. commands' \in Seq(CommandState) /\ DOMAIN commands' = DOMAIN commands
  BY <1>14, <1>15, FunctionIsSequence
<1>17. \A j \in DOMAIN commands : commands'[j] = new(j)
  BY <1>9
<1>18. \A j \in DOMAIN commands : CommandOK(commands'[j]) /\ Committed(k, a, j, writes)
  BY <1>12, <1>17
<1> QED BY <1>2, <1>3, <1>5, <1>6, <1>10, <1>11, <1>16, <1>18 DEF c

LEMMA CommitBase ==
  ASSUME BaseInv, NEW k \in DOMAIN commands,
         NEW a \in BOOLEAN, Persist(k, a)
  PROVE  BaseInv' /\ UnitsStay /\ Forgets
<1> DEFINE c == Unit(k).connection
<1>1. TypeOK /\ UnitsOK /\ LoneUnits /\ WritesOwned
  BY DEF BaseInv
<1>2. /\ InUnit(k) /\ commands[k].phase = "commit" /\ c \in DOMAIN connections
      /\ db' \in RowValues /\ stale' \in BOOLEAN
      /\ connections' \in Seq(ConnectionState) /\ Len(connections') = Len(connections)
      /\ DOMAIN connections' = DOMAIN connections
      /\ \A e \in DOMAIN connections :
           connections'[e] = IF e = c THEN Afterwards(a) ELSE connections[e]
      /\ unit' \in [Processes -> [connection : Nat, committed : BOOLEAN]]
      /\ \A p \in Processes : unit'[p].connection = unit[p].connection
      /\ commands' \in Seq(CommandState) /\ DOMAIN commands' = DOMAIN commands
      /\ \A j \in DOMAIN commands :
           CommandOK(commands'[j]) /\ Committed(k, a, j, connections[c].writes)
  BY CommitStep
<1> HIDE DEF c
<1>3. TypeOK'
  BY <1>2 DEF TypeOK
<1>4. Forgets
  BY <1>2, ConnectionTypes DEF Forgets, Afterwards
<1>5. ASSUME NEW j \in DOMAIN commands
      PROVE  Continues(j) /\ (InUnit(j) => commands'[j].phase \in UnitPhases)
  <2>1. /\ commands'[j].phase = IF j = k THEN "exit" ELSE commands[j].phase
        /\ commands'[j].cursor = commands[j].cursor /\ commands'[j].shared = commands[j].shared
        /\ commands'[j].process = commands[j].process
    BY <1>2 DEF Committed
  <2>2. "exit" \in UnitPhases
    BY DEF UnitPhases
  <2> QED BY <1>2, <2>1, <2>2, InUnitPhase DEF Continues
<1>6. UnitsStay
  BY <1>2, <1>5 DEF UnitsStay
<1>7. UnitsOK' /\ LoneUnits'
  BY <1>1, <1>3, <1>6, UnitsKept
<1>8. WritesOwned'
  BY <1>1, <1>4, <1>5, <1>6, WritesStayOwned DEF Lone
<1> QED BY <1>3, <1>4, <1>6, <1>7, <1>8 DEF BaseInv

\* What the entry of k into its unit of work does to a command.
Entered(k, j) ==
  /\ SameCommand([commands'[j] EXCEPT !.shared = commands[j].shared], commands[j])
  /\ commands'[j].phase = IF j = k THEN "statements" ELSE commands[j].phase
  /\ commands'[j].todo = commands[j].todo /\ commands'[j].failed = commands[j].failed
  /\ commands'[j].unanswered = commands[j].unanswered
  /\ commands'[j].cursor = commands[j].cursor /\ commands'[j].kept = commands[j].kept
  /\ commands'[j].process = commands[j].process /\ commands'[j].planned = commands[j].planned
  /\ commands'[j].outcome = commands[j].outcome
  /\ commands[j].shared => commands'[j].shared
  /\ j # k /\ ~(InUnit(j) /\ commands[j].process = commands[k].process) =>
       commands'[j].shared = commands[j].shared
  /\ j # k /\ InUnit(j) /\ commands[j].process = commands[k].process =>
       commands'[j].shared /\ commands'[k].shared

LEMMA EnterStep ==
  ASSUME BaseInv, NEW k \in DOMAIN commands, Enter(k)
  PROVE  /\ commands[k].phase = "enter" /\ commands[k].process \in Processes
         /\ UNCHANGED <<db, stale>>
         /\ connections' \in Seq(ConnectionState)
         /\ Len(connections') = Len(connections) + 1
         /\ connections'[Len(connections) + 1] = NewConnection
         /\ \A e \in DOMAIN connections :
              /\ e \in DOMAIN connections' /\ connections'[e] \in {Closed, connections[e]}
              /\ e # Unit(k).connection => connections'[e] = connections[e]
         /\ DOMAIN connections' = DOMAIN connections \cup {Len(connections) + 1}
         /\ unit' \in [Processes -> [connection : Nat, committed : BOOLEAN]]
         /\ \A p \in Processes :
              unit'[p] = IF p = commands[k].process
                         THEN [connection |-> Len(connections) + 1, committed |-> FALSE]
                         ELSE unit[p]
         /\ commands' \in Seq(CommandState) /\ DOMAIN commands' = DOMAIN commands
         /\ \A j \in DOMAIN commands : CommandOK(commands'[j]) /\ Entered(k, j)
<1> DEFINE p == commands[k].process
           old == unit[p].connection
           inside == {j \in Others(k) : commands[j].process = p /\ InUnit(j)}
           shut == [c \in DOMAIN connections |->
                      IF c = old /\ ~InUse(old, k) THEN Closed ELSE connections[c]]
           new(j) == IF j = k THEN [commands[j] EXCEPT !.phase = "statements",
                                                       !.shared = inside # {}]
                     ELSE IF j \in inside THEN [commands[j] EXCEPT !.shared = TRUE]
                     ELSE commands[j]
           n == Len(connections)
<1>1. TypeOK /\ UnitsOK
  BY DEF BaseInv
<1>2. /\ commands[k].phase = "enter" /\ UNCHANGED <<db, stale>>
      /\ connections' = Append(shut, NewConnection)
      /\ unit' = [unit EXCEPT ![p] = [connection |-> n + 1, committed |-> FALSE]]
      /\ commands' = [j \in DOMAIN commands |-> new(j)]
  BY DEF Enter
<1>3. p \in Processes /\ commands[k].shared = FALSE
  BY <1>1, <1>2, SequenceFacts DEF CommandOK, Called, PhaseOK, Fresh, CommandState
<1>4. n \in Nat /\ DOMAIN connections = 1 .. n /\ connections \in Seq(ConnectionState)
      /\ \A c \in 1 .. n : connections[c] \in ConnectionState
  BY <1>1, SequenceFacts DEF TypeOK
<1>5. Unit(k).connection = old
  BY DEF Unit
<1>6. shut \in Seq(ConnectionState) /\ Len(shut) = n /\ DOMAIN shut = 1 .. n
      /\ \A e \in 1 .. n : shut[e] \in {Closed, connections[e]}
                           /\ (e # old => shut[e] = connections[e])
  <2> HIDE DEF n, old
  <2>1. shut \in [1 .. n -> ConnectionState]
    BY <1>4, ConnectionTypes
  <2>2. \A e \in 1 .. n : shut[e] \in {Closed, connections[e]}
                           /\ (e # old => shut[e] = connections[e])
    BY <1>4
  <2> HIDE DEF shut
  <2> QED BY <1>4, <2>1, <2>2, FunctionIsSequence
<1> HIDE DEF shut, old, p
<1>7. /\ connections' \in Seq(ConnectionState) /\ Len(connections') = n + 1
      /\ connections'[n + 1] = NewConnection
      /\ \A e \in 1 .. n : connections'[e] = shut[e]
  <2> DEFINE a == Append(shut, NewConnection)
  <2>1. shut \in Seq(ConnectionState) /\ NewConnection \in ConnectionState /\ Len(shut) = n
    BY <1>6, ConnectionTypes
  <2>2. /\ a \in Seq(ConnectionState) /\ Len(a) = Len(shut) + 1
        /\ a[Len(shut) + 1] = NewConnection
        /\ \A e \in 1 .. Len(shut) : a[e] = shut[e]
    BY <2>1, AppendProperties
  <2>3. connections' = a
    BY <1>2
  <2> HIDE DEF a, n
  <2> QED BY <2>1, <2>2, <2>3
<1>8. DOMAIN connections' = 1 .. n + 1
  BY <1>4, <1>7, LenProperties
<1>9. 1 .. n + 1 = (1 .. n) \cup {n + 1} /\ n + 1 \in Nat
  <2> HIDE DEF n
  <2> QED BY <1>4
<1>10. /\ unit' \in [Processes -> [connection : Nat, committed : BOOLEAN]]
       /\ \A q \in Processes :
            unit'[q] = IF q = p THEN [connection |-> n + 1, committed |-> FALSE] ELSE unit[q]
  <2> HIDE DEF n
  <2> QED BY <1>1, <1>2, <1>3, <1>9 DEF TypeOK
<1>11. ASSUME NEW j \in DOMAIN commands
       PROVE  CommandOK(new(j)) /\ new(j) \in CommandState
              /\ (commands'[j] = new(j) /\ commands'[k] = new(k) => Entered(k, j))
  <2> DEFINE b == commands[j]
  <2>1. b \in CommandState /\ CommandOK(b)
    BY <1>1, SequenceFacts
  <2>2. "statements" \in Phases /\ (inside # {}) \in BOOLEAN
    BY DEF Phases, UnitPhases
  <2>3. CASE j = k
    <3> DEFINE sh == inside # {}
               d == [b EXCEPT !.phase = "statements", !.shared = sh]
    <3>1. new(j) = d
      BY <2>3
    <3> HIDE DEF inside, sh, new
    <3>2. sh \in BOOLEAN
      BY DEF sh
    <3>3. d \in CommandState
      BY <2>1, <2>2, <3>2 DEF CommandState
    <3>4. /\ d.phase = "statements" /\ d.kept = b.kept /\ d.todo = b.todo /\ d.failed = b.failed
          /\ d.unanswered = b.unanswered
          /\ d.cursor = b.cursor /\ d.process = b.process /\ d.planned = b.planned
          /\ d.outcome = b.outcome /\ d.kind = b.kind /\ d.route = b.route /\ d.truck = b.truck
          /\ d.packages = b.packages /\ d.copy = b.copy
      BY <2>1 DEF CommandState
    <3>5. SameCommand([d EXCEPT !.shared = b.shared], b)
      BY <2>1 DEF SameCommand, CommandState
    <3> HIDE DEF d
    <3>6. CommandOK(d)
      <4>1. Called(b) /\ b.kind \in UnitKinds /\ b.todo # <<>>
        BY <1>2, <2>1, <2>3 DEF CommandOK, PhaseOK, UnitPhases
      <4>2. Called(d)
        BY <3>4, <4>1 DEF Called
      <4> QED BY <3>3, <3>4, <4>1, <4>2 DEF CommandOK, PhaseOK, UnitPhases, ReadingPhases
    <3>7. commands'[j] = d => Entered(k, j)
      BY <1>3, <2>3, <3>4, <3>5 DEF Entered
    <3> QED BY <3>1, <3>3, <3>6, <3>7
  <2>4. CASE j # k /\ j \in inside
    <3> DEFINE d == [b EXCEPT !.shared = TRUE]
    <3>1. new(j) = d /\ inside # {}
      BY <2>4
    <3>2. InUnit(j) /\ commands[j].process = p
      BY <2>4
    <3>3. commands'[k] = new(k) => commands'[k].shared
      <4>1. new(k) = [commands[k] EXCEPT !.phase = "statements", !.shared = TRUE]
        BY <3>1
      <4>2. commands[k] \in CommandState
        BY <1>1, SequenceFacts
      <4>3. new(k).shared
        <5> HIDE DEF new
        <5> QED BY <4>1, <4>2 DEF CommandState
      <4> QED BY <4>3
    <3> HIDE DEF inside, new
    <3>4. d \in CommandState
      BY <2>1 DEF CommandState
    <3>5. /\ d.phase = b.phase /\ d.kept = b.kept /\ d.todo = b.todo /\ d.failed = b.failed
          /\ d.unanswered = b.unanswered
          /\ d.cursor = b.cursor /\ d.process = b.process /\ d.planned = b.planned
          /\ d.outcome = b.outcome /\ d.kind = b.kind /\ d.route = b.route /\ d.truck = b.truck
          /\ d.packages = b.packages /\ d.copy = b.copy /\ d.shared = TRUE
      BY <2>1 DEF CommandState
    <3>6. SameCommand([d EXCEPT !.shared = b.shared], b)
      BY <2>1 DEF SameCommand, CommandState
    <3> HIDE DEF d
    <3>7. CommandOK(d)
      <4>1. Called(b) /\ b.phase \in UnitPhases
        BY <2>1, <3>2, InUnitPhase DEF CommandOK, UnitPhases
      <4>2. Called(d)
        BY <3>5, <4>1 DEF Called
      <4> QED BY <2>1, <3>4, <3>5, <4>1, <4>2 DEF CommandOK, PhaseOK, UnitPhases, ReadingPhases
    <3>8. commands'[j] = d /\ commands'[k] = new(k) => Entered(k, j)
      BY <2>4, <3>2, <3>3, <3>5, <3>6 DEF Entered, p
    <3> QED BY <3>1, <3>4, <3>7, <3>8
  <2>5. CASE j # k /\ j \notin inside
    <3>1. new(j) = b
      BY <2>5
    <3>2. ~ (InUnit(j) /\ commands[j].process = p)
      BY <2>5 DEF Others
    <3> HIDE DEF inside, new
    <3>3. SameCommand([b EXCEPT !.shared = b.shared], b)
      BY <2>1 DEF SameCommand, CommandState
    <3>4. commands'[j] = b => Entered(k, j)
      BY <2>5, <3>2, <3>3 DEF Entered, p
    <3> QED BY <2>1, <3>1, <3>4
  <2> QED BY <2>3, <2>4, <2>5
<1> HIDE DEF new
<1>12. Len(commands) \in Nat /\ DOMAIN commands = 1 .. Len(commands)
  BY <1>1, SequenceFacts
<1>13. commands' \in [1 .. Len(commands) -> CommandState]
  BY <1>2, <1>11, <1>12
<1>14. commands' \in Seq(CommandState) /\ DOMAIN commands' = DOMAIN commands
  BY <1>12, <1>13, FunctionIsSequence
<1>15. \A j \in DOMAIN commands : commands'[j] = new(j)
  BY <1>2
<1>16. \A j \in DOMAIN commands : CommandOK(commands'[j]) /\ Entered(k, j)
  BY <1>11, <1>15
<1>17. \A e \in DOMAIN connections :
         /\ e \in DOMAIN connections' /\ connections'[e] \in {Closed, connections[e]}
         /\ e # Unit(k).connection => connections'[e] = connections[e]
  BY <1>4, <1>5, <1>6, <1>7, <1>8, <1>9
<1> QED BY <1>2, <1>3, <1>4, <1>7, <1>8, <1>9, <1>10, <1>14, <1>16, <1>17 DEF p

LEMMA EnterBase ==
  ASSUME BaseInv, NEW k \in DOMAIN commands, Enter(k)
  PROVE  BaseInv' /\ Forgets
<1> DEFINE p == commands[k].process
           n == Len(connections)
<1>1. TypeOK /\ UnitsOK /\ LoneUnits /\ WritesOwned
  BY DEF BaseInv
<1>2. /\ commands[k].phase = "enter" /\ p \in Processes /\ UNCHANGED <<db, stale>>
      /\ connections' \in Seq(ConnectionState) /\ Len(connections') = n + 1
      /\ connections'[n + 1] = NewConnection
      /\ \A e \in DOMAIN connections :
           /\ e \in DOMAIN connections' /\ connections'[e] \in {Closed, connections[e]}
           /\ e # Unit(k).connection => connections'[e] = connections[e]
      /\ DOMAIN connections' = DOMAIN connections \cup {n + 1}
      /\ unit' \in [Processes -> [connection : Nat, committed : BOOLEAN]]
      /\ \A q \in Processes :
           unit'[q] = IF q = p THEN [connection |-> n + 1, committed |-> FALSE] ELSE unit[q]
      /\ commands' \in Seq(CommandState) /\ DOMAIN commands' = DOMAIN commands
      /\ \A j \in DOMAIN commands : CommandOK(commands'[j]) /\ Entered(k, j)
  BY EnterStep
<1>3. n \in Nat /\ DOMAIN connections = 1 .. n
  BY <1>1, SequenceFacts
<1> HIDE DEF n, p
<1>4. TypeOK'
  BY <1>1, <1>2 DEF TypeOK
<1>5. Forgets
  BY <1>2, ConnectionTypes DEF Forgets
<1>6. ~ InUnit(k) /\ commands[k].cursor = 0
  BY <1>1, <1>2, SequenceFacts DEF InUnit, CommandOK, PhaseOK, Fresh
<1>7. ASSUME NEW j \in DOMAIN commands, j # k
      PROVE  /\ InUnit(j)' <=> InUnit(j)
             /\ commands'[j].process = commands[j].process
             /\ commands'[j].cursor = commands[j].cursor
             /\ commands'[j].phase = commands[j].phase
             /\ commands'[j].kept = commands[j].kept /\ commands'[j].todo = commands[j].todo
             /\ commands'[j].failed = commands[j].failed
             /\ commands'[j].planned = commands[j].planned
  BY <1>2, <1>7, InUnitPhase DEF Entered
<1>8. /\ InUnit(k)' /\ commands'[k].process = p /\ commands'[k].cursor = 0
      /\ Unit(k)'.connection = n + 1
  <2>1. /\ commands'[k].phase = "statements" /\ commands'[k].process = p
        /\ commands'[k].cursor = 0
    BY <1>2, <1>6 DEF Entered, p
  <2>2. InUnit(k)'
    BY <2>1 DEF InUnit
  <2> QED BY <1>2, <2>1, <2>2 DEF Unit
<1>9. \A q \in Processes : unit[q].connection <= n /\ unit[q].connection \in Nat
  BY <1>1 DEF UnitsOK, TypeOK, n
<1>10. \A q \in Processes : unit'[q].connection = IF q = p THEN n + 1 ELSE unit[q].connection
  BY <1>2
<1>11. UnitsOK'
  <2>1. \A q \in Processes : unit'[q].connection <= Len(connections')
    BY <1>2, <1>3, <1>9, <1>10
  <2>2. \A q, r \in Processes :
          q # r /\ unit'[q].connection = unit'[r].connection => unit'[q].connection = 0
    <3> SUFFICES ASSUME NEW q \in Processes, NEW r \in Processes, q # r,
                        unit'[q].connection = unit'[r].connection
                 PROVE  unit'[q].connection = 0
      OBVIOUS
    <3>1. q # p /\ r # p
      BY <1>3, <1>9, <1>10
    <3> QED BY <1>1, <1>10, <3>1 DEF UnitsOK
  <2>3. ASSUME NEW j \in DOMAIN commands'
        PROVE  /\ InUnit(j)' => Unit(j)'.connection # 0
               /\ commands'[j].cursor <= Len(connections')
               /\ \A q \in Processes :
                    InUnit(j)' /\ q # commands'[j].process /\ commands'[j].cursor # 0
                      => commands'[j].cursor # unit'[q].connection
    <3>1. CASE j = k
      BY <1>2, <1>3, <1>8, <3>1
    <3>2. CASE j # k
      <4>1. j \in DOMAIN commands /\ commands[j] \in CommandState
        BY <1>1, <1>2, SequenceFacts
      <4>2. commands[j].cursor <= n /\ commands[j].cursor \in Nat
        BY <1>1, <4>1 DEF UnitsOK, n, CommandState
      <4>3. InUnit(j)' => InUnit(j) /\ commands[j].process \in Processes
        BY <1>1, <1>7, <3>2, <4>1, CursorFacts
      <4>4. InUnit(j)' => Unit(j)'.connection # 0
        <5>1. SUFFICES ASSUME InUnit(j)' PROVE unit'[commands[j].process].connection # 0
          BY <1>7, <3>2, <4>1 DEF Unit
        <5>2. unit[commands[j].process].connection # 0
          BY <1>1, <4>1, <4>3, <5>1 DEF UnitsOK, Unit
        <5> QED BY <1>3, <1>10, <4>3, <5>1, <5>2
      <4>5. ASSUME NEW q \in Processes, InUnit(j)', q # commands'[j].process,
                   commands'[j].cursor # 0
            PROVE  commands'[j].cursor # unit'[q].connection
        <5>1. InUnit(j) /\ q # commands[j].process /\ commands[j].cursor # 0
              /\ commands'[j].cursor = commands[j].cursor
          BY <1>7, <3>2, <4>1, <4>5
        <5>2. commands[j].cursor # unit[q].connection
          BY <1>1, <4>1, <5>1 DEF UnitsOK
        <5> QED BY <1>3, <1>10, <4>2, <5>1, <5>2
      <4> QED BY <1>2, <1>3, <1>7, <3>2, <4>1, <4>2, <4>4, <4>5
    <3> QED BY <3>1, <3>2
  <2> QED BY <2>1, <2>2, <2>3 DEF UnitsOK
<1>12. ASSUME NEW j \in DOMAIN commands, j # k, Lone(j)'
       PROVE  Lone(j) /\ commands[j].process # p
  <2>1. InUnit(j)
    BY <1>7, <1>12 DEF Lone
  <2>2. commands[j].process # p
    BY <1>2, <1>12, <2>1 DEF Entered, Lone, p
  <2>3. commands'[j].shared = commands[j].shared
    BY <1>2, <1>12, <2>2 DEF Entered, p
  <2> QED BY <1>12, <2>1, <2>2, <2>3 DEF Lone
<1>13. LoneUnits'
  <2> SUFFICES ASSUME NEW j \in DOMAIN commands', Lone(j)'
               PROVE  /\ commands'[j].cursor \in {0, Unit(j)'.connection}
                      /\ \A i \in Others(j)' :
                           InUnit(i)' => commands'[i].process # commands'[j].process
    BY DEF LoneUnits
  <2>1. CASE j = k
    <3>1. ASSUME NEW i \in Others(k)', InUnit(i)' PROVE commands'[i].process # p
      <4>1. i \in DOMAIN commands /\ i # k
        BY <1>2 DEF Others
      <4>2. InUnit(i) /\ commands'[i].process = commands[i].process
        BY <1>7, <3>1, <4>1
      <4> QED BY <1>2, <2>1, <4>1, <4>2 DEF Entered, Lone, p
    <3> QED BY <1>8, <2>1, <3>1
  <2>2. CASE j # k
    <3>1. j \in DOMAIN commands /\ Lone(j) /\ commands[j].process # p /\ InUnit(j)
      BY <1>2, <1>12, <2>2 DEF Lone
    <3>2. commands[j].cursor \in {0, Unit(j).connection}
          /\ \A i \in Others(j) : InUnit(i) => commands[i].process # commands[j].process
      BY <1>1, <3>1 DEF LoneUnits
    <3>3. Unit(j)'.connection = Unit(j).connection
      <4>1. commands[j].process \in Processes
        BY <1>1, <3>1, CursorFacts
      <4> QED BY <1>7, <1>10, <2>2, <3>1, <4>1 DEF Unit
    <3>4. ASSUME NEW i \in Others(j)', InUnit(i)'
          PROVE  commands'[i].process # commands'[j].process
      <4>1. i \in Others(j) /\ i \in DOMAIN commands
        BY <1>2 DEF Others
      <4>2. CASE i = k
        BY <1>7, <1>8, <2>2, <3>1, <4>2
      <4>3. CASE i # k
        BY <1>7, <2>2, <3>1, <3>2, <3>4, <4>1, <4>3
      <4> QED BY <4>2, <4>3
    <3> QED BY <1>7, <2>2, <3>1, <3>2, <3>3, <3>4
  <2> QED BY <2>1, <2>2
<1>14. ASSUME NEW c \in DOMAIN connections', NEW i \in DOMAIN connections'[c].writes,
              NEW b, b = connections'[c].writes[i].by, b # 0
       PROVE  /\ b \in DOMAIN commands'
              /\ commands'[b].phase \in UnitPhases \cup {"ended"}
              /\ ~commands'[b].shared => InUnit(b)' /\ c = Unit(b)'.connection
  <2>1. connections'[c].writes # <<>>
    BY EmptySet
  <2>2. c \in DOMAIN connections /\ connections'[c].writes = connections[c].writes
    BY <1>5, <2>1 DEF Forgets
  <2>3. /\ b \in DOMAIN commands
        /\ commands[b].phase \in UnitPhases \cup {"ended"}
        /\ ~commands[b].shared => InUnit(b) /\ c = Unit(b).connection
    BY <1>1, <1>14, <2>2 DEF WritesOwned
  <2>4. b # k
    BY <1>2, <2>3 DEF UnitPhases
  <2>5. ASSUME ~commands'[b].shared PROVE InUnit(b)' /\ c = Unit(b)'.connection
    <3>1. ~commands[b].shared
      BY <1>2, <2>3, <2>5 DEF Entered
    <3>2. InUnit(b)' /\ Lone(b)'
      BY <1>7, <2>3, <2>4, <2>5, <3>1 DEF Lone
    <3>3. commands[b].process # p /\ commands[b].process \in Processes
      BY <1>1, <1>12, <2>3, <2>4, <3>1, <3>2, CursorFacts
    <3>4. Unit(b)'.connection = Unit(b).connection
      BY <1>7, <1>10, <2>3, <2>4, <3>3 DEF Unit
    <3> QED BY <2>3, <3>1, <3>2, <3>4
  <2> QED BY <1>2, <1>7, <2>3, <2>4, <2>5
<1>15. WritesOwned'
  BY <1>14 DEF WritesOwned
<1> QED BY <1>4, <1>5, <1>11, <1>13, <1>15 DEF BaseInv

\* A request begins a command that has read nothing.
LEMMA StartStep ==
  ASSUME Start
  PROVE  Untouched /\ \E d : commands' = Append(commands, d) /\ Reached(d) /\ d.phase \in ReadingPhases
<1>1. NewCommand \in CommandState
  BY NewCommandFields
<1>2. ASSUME NEW kind \in {"assign truck", "assign packages", "remove route", "remove package"},
             NEW r \in Routes \cup {None}, kind \in RouteKinds => r \in Routes,
             NEW t \in Trucks \cup {None}, kind = "assign truck" => t \in Trucks,
             NEW ps \in Seq(Packages), kind \in {"assign packages", "remove package"} => ps # <<>>,
             NEW ph, ph = IF kind = "remove package" THEN "package" ELSE "route",
             NEW c \in CommandState,
             c.kind = kind, c.route = r, c.truck = t, c.packages = ps, c.phase = ph,
             c.todo = <<>>, c.planned = 0, c.kept = 0, c.cursor = 0, c.failed = FALSE,
             c.shared = FALSE, c.outcome = "running",
             Begin(c)
      PROVE  Untouched /\ \E d : commands' = Append(commands, d) /\ Reached(d)
                                 /\ d.phase \in ReadingPhases
  <2>1. PICK p \in Processes : commands' = Append(commands, [c EXCEPT !.process = p])
    BY <1>2 DEF Begin
  <2> DEFINE d == [c EXCEPT !.process = p]
  <2>2. d \in CommandState
    BY DEF CommandState
  <2>3. /\ d.process = p /\ d.kind = kind /\ d.route = r /\ d.truck = t /\ d.packages = ps
        /\ d.phase = ph /\ d.todo = <<>> /\ d.planned = 0 /\ d.kept = 0 /\ d.cursor = 0
        /\ d.failed = FALSE /\ d.shared = FALSE /\ d.outcome = "running"
    BY <1>2 DEF CommandState
  <2> HIDE DEF d
  <2>4. ph \in {"package", "route"} /\ ph \in ReadingPhases
    BY <1>2 DEF ReadingPhases
  <2>5. Called(d) /\ Fresh(d)
    BY <1>2, <2>3 DEF Called, Fresh
  <2>6. PhaseOK(d)
    BY <1>2, <2>3, <2>4, <2>5 DEF PhaseOK, UnitPhases, RouteKinds
  <2>7. CommandOK(d)
    BY <2>2, <2>5, <2>6 DEF CommandOK
  <2>8. Outside(d)
    BY <2>3, <2>4 DEF Outside, AllOrNothing
  <2>9. Decided(d)
    BY <2>3, <2>4 DEF Decided, UnitPhases
  <2> QED BY <1>2, <2>1, <2>3, <2>4, <2>7, <2>8, <2>9 DEF Reached, d, Begin
<1>3. <<>> \in Seq(Packages)
  BY EmptySeq
<1>4. {"assign truck", "assign packages", "remove route", "remove package"} \subseteq Kinds
      /\ {"package", "route"} \subseteq Phases
  BY DEF Kinds, UnitKinds, RouteKinds, Phases, ReadingPhases
<1>5. ASSUME NEW r \in Routes, NEW t \in Trucks,
             Begin([NewCommand EXCEPT !.kind = "assign truck", !.route = r, !.truck = t])
      PROVE  Untouched /\ \E d : commands' = Append(commands, d) /\ Reached(d)
                                 /\ d.phase \in ReadingPhases
  <2> DEFINE c == [NewCommand EXCEPT !.kind = "assign truck", !.route = r, !.truck = t]
  <2>1. c \in CommandState
    BY <1>1, <1>4 DEF CommandState
  <2>2. /\ c.kind = "assign truck" /\ c.route = r /\ c.truck = t /\ c.packages = <<>>
        /\ c.phase = "route" /\ c.todo = <<>> /\ c.planned = 0 /\ c.kept = 0 /\ c.cursor = 0
        /\ c.failed = FALSE /\ c.shared = FALSE /\ c.outcome = "running"
    BY <1>1, NewCommandFields DEF CommandState
  <2>3. Begin(c)
    BY <1>5
  <2> HIDE DEF c
  <2> QED BY <1>2, <1>3, <2>1, <2>2, <2>3
<1>6. ASSUME NEW r \in Routes, NEW ps \in {s \in SeqOf(Packages, 2) : s # <<>> /\ IsInjective(s)},
             Begin([NewCommand EXCEPT !.kind = "assign packages", !.route = r, !.packages = ps])
      PROVE  Untouched /\ \E d : commands' = Append(commands, d) /\ Reached(d)
                                 /\ d.phase \in ReadingPhases
  <2> DEFINE c == [NewCommand EXCEPT !.kind = "assign packages", !.route = r, !.packages = ps]
  <2>0. ps \in Seq(Packages) /\ ps # <<>>
    <3>1. PICK m \in 0 .. 2 : ps \in [1 .. m -> Packages]
      BY DEF SeqOf
    <3> QED BY <3>1, FunctionIsSequence
  <2>1. c \in CommandState
    BY <1>1, <1>4, <2>0 DEF CommandState
  <2>2. /\ c.kind = "assign packages" /\ c.route = r /\ c.truck = None /\ c.packages = ps
        /\ c.phase = "route" /\ c.todo = <<>> /\ c.planned = 0 /\ c.kept = 0 /\ c.cursor = 0
        /\ c.failed = FALSE /\ c.shared = FALSE /\ c.outcome = "running"
    BY <1>1, NewCommandFields DEF CommandState, NewCommand
  <2>3. Begin(c)
    BY <1>6
  <2> HIDE DEF c
  <2> QED BY <1>2, <2>0, <2>1, <2>2, <2>3
<1>7. ASSUME NEW r \in Routes, Begin([NewCommand EXCEPT !.kind = "remove route", !.route = r])
      PROVE  Untouched /\ \E d : commands' = Append(commands, d) /\ Reached(d)
                                 /\ d.phase \in ReadingPhases
  <2> DEFINE c == [NewCommand EXCEPT !.kind = "remove route", !.route = r]
  <2>1. c \in CommandState
    BY <1>1, <1>4 DEF CommandState
  <2>2. /\ c.kind = "remove route" /\ c.route = r /\ c.truck = None /\ c.packages = <<>>
        /\ c.phase = "route" /\ c.todo = <<>> /\ c.planned = 0 /\ c.kept = 0 /\ c.cursor = 0
        /\ c.failed = FALSE /\ c.shared = FALSE /\ c.outcome = "running"
    BY <1>1, NewCommandFields DEF CommandState, NewCommand
  <2>3. Begin(c)
    BY <1>7
  <2> HIDE DEF c
  <2> QED BY <1>2, <1>3, <2>1, <2>2, <2>3
<1>8. ASSUME NEW p \in Packages,
             Begin([NewCommand EXCEPT !.kind = "remove package", !.packages = <<p>>,
                                      !.phase = "package"])
      PROVE  Untouched /\ \E d : commands' = Append(commands, d) /\ Reached(d)
                                 /\ d.phase \in ReadingPhases
  <2> DEFINE ps == <<p>>
             c == [NewCommand EXCEPT !.kind = "remove package", !.packages = ps,
                                     !.phase = "package"]
  <2>0. ps \in Seq(Packages) /\ ps # <<>> /\ "remove package" \notin RouteKinds
    BY DEF RouteKinds
  <2>3. Begin(c)
    BY <1>8
  <2> HIDE DEF ps
  <2>1. c \in CommandState
    BY <1>1, <1>4, <2>0 DEF CommandState
  <2>2. /\ c.kind = "remove package" /\ c.route = None /\ c.truck = None /\ c.packages = ps
        /\ c.phase = "package" /\ c.todo = <<>> /\ c.planned = 0 /\ c.kept = 0 /\ c.cursor = 0
        /\ c.failed = FALSE /\ c.shared = FALSE /\ c.outcome = "running"
    BY <1>1, NewCommandFields DEF CommandState, NewCommand
  <2> HIDE DEF c
  <2> QED BY <1>2, <2>0, <2>1, <2>2, <2>3
<1> QED BY <1>5, <1>6, <1>7, <1>8 DEF Start

\* A new command is in no unit of work; the others are as they were.
LEMMA StartFacts ==
  ASSUME BaseInv, Start
  PROVE  \E d :
           /\ Reached(d) /\ d.phase \in ReadingPhases /\ Untouched
           /\ commands' \in Seq(CommandState) /\ DOMAIN commands \subseteq DOMAIN commands'
           /\ \A j \in DOMAIN commands : commands'[j] = commands[j]
           /\ \A j \in DOMAIN commands' : j \in DOMAIN commands \/ commands'[j] = d
<1>1. PICK d : /\ commands' = Append(commands, d) /\ Reached(d) /\ d.phase \in ReadingPhases
               /\ Untouched
  BY StartStep
<1>2. d \in CommandState /\ commands \in Seq(CommandState)
  BY <1>1 DEF Reached, CommandOK, BaseInv, TypeOK
<1> DEFINE n == Len(commands)
           a == Append(commands, d)
<1>3. /\ a \in Seq(CommandState) /\ Len(a) = n + 1 /\ a[n + 1] = d
      /\ \A i \in 1 .. n : a[i] = commands[i]
  BY <1>2, AppendProperties
<1>4. n \in Nat /\ DOMAIN commands = 1 .. n /\ DOMAIN a = 1 .. n + 1
  BY <1>2, <1>3, LenProperties
<1> HIDE DEF a, n
<1>5. \A j \in 1 .. n + 1 : j \in 1 .. n \/ j = n + 1
  BY <1>4
<1>6. 1 .. n \subseteq 1 .. n + 1
  BY <1>4
<1>7. commands' = a
  BY <1>1 DEF a
<1> QED BY <1>1, <1>3, <1>4, <1>5, <1>6, <1>7

LEMMA StartBase ==
  ASSUME BaseInv, Start
  PROVE  BaseInv'
<1>1. TypeOK /\ UnitsOK /\ LoneUnits /\ WritesOwned
  BY DEF BaseInv
<1>2. PICK d :
        /\ Reached(d) /\ d.phase \in ReadingPhases /\ Untouched
        /\ commands' \in Seq(CommandState) /\ DOMAIN commands \subseteq DOMAIN commands'
        /\ \A j \in DOMAIN commands : commands'[j] = commands[j]
        /\ \A j \in DOMAIN commands' : j \in DOMAIN commands \/ commands'[j] = d
  BY StartFacts
<1>3. UNCHANGED <<db, connections, unit, stale>>
  BY <1>2 DEF Untouched
<1>4. CommandOK(d) /\ d.cursor = 0 /\ d.phase \notin UnitPhases
  BY <1>2 DEF Reached, CommandOK, PhaseOK, Fresh, ReadingPhases, UnitPhases
<1>5. TypeOK'
  BY <1>1, <1>2, <1>3, <1>4 DEF TypeOK
<1>6. ASSUME NEW j \in DOMAIN commands', InUnit(j)'
      PROVE  j \in DOMAIN commands /\ InUnit(j) /\ Unit(j)' = Unit(j)
             /\ commands'[j] = commands[j]
  <2>1. commands'[j] # d
    BY <1>4, <1>6, InUnitPhase
  <2>2. j \in DOMAIN commands /\ commands'[j] = commands[j]
    BY <1>2, <2>1
  <2> QED BY <1>3, <1>6, <2>2 DEF InUnit, Unit
<1>7. UnitsOK'
  <2>1. ASSUME NEW j \in DOMAIN commands'
        PROVE  /\ InUnit(j)' => Unit(j)'.connection # 0
               /\ commands'[j].cursor <= Len(connections')
               /\ \A p \in Processes :
                    InUnit(j)' /\ p # commands'[j].process /\ commands'[j].cursor # 0
                      => commands'[j].cursor # unit'[p].connection
    <3>1. commands'[j].cursor <= Len(connections')
      <4>1. CASE j \in DOMAIN commands
        BY <1>1, <1>2, <1>3, <4>1 DEF UnitsOK
      <4>2. CASE commands'[j] = d
        BY <1>1, <1>3, <1>4, <4>2, SequenceFacts
      <4> QED BY <1>2, <4>1, <4>2
    <3> QED BY <1>1, <1>3, <1>6, <3>1 DEF UnitsOK
  <2>2. /\ \A p \in Processes : unit'[p].connection <= Len(connections')
        /\ \A p, q \in Processes :
             p # q /\ unit'[p].connection = unit'[q].connection => unit'[p].connection = 0
    BY <1>1, <1>3 DEF UnitsOK
  <2> QED BY <2>1, <2>2 DEF UnitsOK
<1>8. LoneUnits'
  <2> SUFFICES ASSUME NEW j \in DOMAIN commands', Lone(j)'
               PROVE  /\ commands'[j].cursor \in {0, Unit(j)'.connection}
                      /\ \A i \in Others(j)' :
                           InUnit(i)' => commands'[i].process # commands'[j].process
    BY DEF LoneUnits
  <2>1. j \in DOMAIN commands /\ Unit(j)' = Unit(j) /\ commands'[j] = commands[j] /\ Lone(j)
    BY <1>6 DEF Lone
  <2>2. ASSUME NEW i \in Others(j)', InUnit(i)'
        PROVE  commands'[i].process # commands'[j].process
    <3>1. i \in DOMAIN commands' /\ i # j
      BY DEF Others
    <3>2. i \in DOMAIN commands /\ InUnit(i) /\ commands'[i] = commands[i]
      BY <1>6, <2>2, <3>1
    <3> QED BY <1>1, <2>1, <3>1, <3>2 DEF LoneUnits, Others
  <2> QED BY <1>1, <2>1, <2>2 DEF LoneUnits
<1>9. ASSUME NEW c \in DOMAIN connections', NEW i \in DOMAIN connections'[c].writes,
             NEW b, b = connections'[c].writes[i].by, b # 0
      PROVE  /\ b \in DOMAIN commands'
             /\ commands'[b].phase \in UnitPhases \cup {"ended"}
             /\ ~commands'[b].shared => InUnit(b)' /\ c = Unit(b)'.connection
  <2>1. /\ b \in DOMAIN commands
        /\ commands[b].phase \in UnitPhases \cup {"ended"}
        /\ ~commands[b].shared => InUnit(b) /\ c = Unit(b).connection
    BY <1>1, <1>3, <1>9 DEF WritesOwned
  <2>2. commands'[b] = commands[b] /\ b \in DOMAIN commands'
    BY <1>2, <2>1
  <2>3. InUnit(b) => InUnit(b)' /\ Unit(b)' = Unit(b)
    BY <1>3, <2>2 DEF InUnit, Unit
  <2> QED BY <2>1, <2>2, <2>3
<1>10. WritesOwned'
  BY <1>9 DEF WritesOwned
<1> QED BY <1>5, <1>7, <1>8, <1>10 DEF BaseInv

LEMMA InitFacts ==
  ASSUME Init
  PROVE  /\ db \in RowValues /\ Linked(db) /\ Sound(db) /\ stale = FALSE
         /\ connections = <<>> /\ commands = <<>> /\ DOMAIN connections = {}
         /\ DOMAIN commands = {}
         /\ unit = [p \in Processes |-> [connection |-> 0, committed |-> FALSE]]
<1>1. db \in RowValues
  <2>1. PICK route \in [Routes -> Trucks \cup {None, Gone}],
             truck \in [Trucks -> {"Free", "On the way"}],
             package \in [Packages -> Routes \cup {None, Gone}] :
          db = [x \in Rows |-> IF x \in Routes THEN route[x]
                               ELSE IF x \in Trucks THEN truck[x] ELSE package[x]]
    BY DEF Init
  <2>2. /\ \A r \in Routes : db[r] = route[r]
        /\ \A t \in Trucks : db[t] = truck[t]
        /\ \A p \in Packages : db[p] = package[p]
    BY <2>1, DispatchDatabaseAssumption DEF Rows
  <2>3. db = [x \in Rows |-> db[x]]
    BY <2>1
  <2>4. \A x \in Rows : db[x] \in Routes \cup Trucks \cup {None, Gone, "Free", "On the way"}
    BY <2>2 DEF Rows
  <2> QED BY <2>2, <2>3, <2>4 DEF RowValues
<1> QED BY <1>1, EmptySet DEF Init

LEMMA BaseInit ==
  ASSUME Init
  PROVE  BaseInv
<1>1. /\ db \in RowValues /\ stale = FALSE /\ connections = <<>> /\ commands = <<>>
      /\ DOMAIN connections = {} /\ DOMAIN commands = {}
      /\ unit = [p \in Processes |-> [connection |-> 0, committed |-> FALSE]]
  BY InitFacts
<1>2. TypeOK
  BY <1>1, EmptySeq DEF TypeOK
<1>3. UnitsOK
  <2>1. Len(connections) = 0
    BY <1>1, EmptySeq
  <2> QED BY <1>1, <2>1 DEF UnitsOK
<1>4. LoneUnits /\ WritesOwned
  BY <1>1 DEF LoneUnits, WritesOwned
<1> QED BY <1>2, <1>3, <1>4 DEF BaseInv

LEMMA BaseStutter ==
  ASSUME BaseInv, UNCHANGED vars
  PROVE  BaseInv'
BY DEF BaseInv, vars, TypeOK, UnitsOK, LoneUnits, WritesOwned, Lone, InUnit, Unit, Others

LEMMA BaseStep ==
  ASSUME BaseInv, [Next]_vars
  PROVE  BaseInv'
<1>1. CASE Start
  BY <1>1, StartBase
<1>2. ASSUME NEW k \in DOMAIN commands, Step(k) PROVE BaseInv'
  <2>1. CASE ReadOnly(k) \/ WritePackage(k)
    BY <2>1, OutsideStepBase
  <2>2. CASE Enter(k)
    BY <2>2, EnterBase
  <2>3. CASE Wait(k)
    BY <2>3, WaitBase
  <2>4. CASE Execute(k)
    BY <2>4, ExecuteBase
  <2>5. CASE RowMissing(k) \/ StatementFails(k) \/ CommitFails(k)
    BY <2>5, RaiseBase
  <2>6. CASE Commit(k) \/ CommitUnanswered(k)
    BY <2>6, CommitBase DEF Commit, CommitUnanswered
  <2>7. CASE Exit(k)
    BY <2>7, ExitBase
  <2> QED BY <1>2, <2>1, <2>2, <2>3, <2>4, <2>5, <2>6, <2>7 DEF Step, ReadOnly
<1>3. CASE UNCHANGED vars
  BY <1>3, BaseStutter
<1> QED BY <1>1, <1>2, <1>3 DEF Next

(***************************************************************************)
(* A process gives no connection to two units of work, a command waits on  *)
(* a connection of its own process only, and what a transaction holds was  *)
(* written by commands in a unit of work; when no other thread has entered *)
(* the unit of such a command, by one whose connection it is               *)
(* (persistence/database/unit_of_work.py).                                 *)
(***************************************************************************)
THEOREM BaseInvariant == Spec => []BaseInv
<1>1. Init => BaseInv
  BY BaseInit
<1>2. BaseInv /\ [Next]_vars => BaseInv'
  BY BaseStep
<1> QED BY <1>1, <1>2, PTL DEF Spec

-----------------------------------------------------------------------------
(* Rows stay linked                                                        *)

LEMMA NothingWritten ==
  ASSUME NEW rows, NEW x \in Rows
  PROVE  Overlay(rows, <<>>)[x] = rows[x]
<1>1. DOMAIN <<>> = {} /\ 1 .. 0 = {} /\ 0 \in Nat
  BY EmptySet
<1> QED BY <1>1, NotWritten

LEMMA UniqueOfSame ==
  ASSUME NEW rows, NEW others, TrucksUnique(rows), \A r \in Routes : others[r] = rows[r]
  PROVE  TrucksUnique(others)
BY DEF TrucksUnique

\* A step that forgets transactions and commits nothing.
LEMMA LinksForgotten ==
  ASSUME LinksInv, Forgets, UNCHANGED db
  PROVE  LinksInv'
<1>1. RowsStayLinked' /\ TrucksUnique(db)
  BY DEF LinksInv, RowsStayLinked, Linked, TrucksUnique
<1>2. ASSUME NEW e \in DOMAIN connections',
             connections'[e].writes # <<>>
      PROVE  e \in DOMAIN connections /\ connections'[e].writes = connections[e].writes
  BY <1>2 DEF Forgets
<1>3. ASSUME NEW e \in DOMAIN connections', NEW i \in DOMAIN connections'[e].writes
      PROVE  e \in DOMAIN connections /\ connections'[e].writes = connections[e].writes
  <2>1. connections'[e].writes # <<>>
    BY <1>3, EmptySet
  <2> QED BY <1>2, <2>1
<1>4. RemovalCascades'
  <2> SUFFICES ASSUME NEW e \in DOMAIN connections', NEW i \in DOMAIN connections'[e].writes,
                      connections'[e].writes[i].row \in Routes,
                      connections'[e].writes[i].value = Gone,
                      NEW p \in Packages, db'[p] = connections'[e].writes[i].row
               PROVE  p \in RowsWritten(e)'
    BY DEF RemovalCascades
  <2>1. e \in DOMAIN connections /\ connections'[e].writes = connections[e].writes
    BY <1>3
  <2>2. p \in RowsWritten(e)
    BY <2>1 DEF LinksInv, RemovalCascades
  <2> QED BY <2>1, <2>2 DEF RowsWritten
<1>5. ASSUME NEW e \in DOMAIN connections' PROVE TrucksUnique(View(e)')
  <2>1. View(e)' = Overlay(db, connections'[e].writes)
    BY DEF View
  <2>2. CASE connections'[e].writes = <<>>
    <3>1. \A r \in Routes : View(e)'[r] = db[r]
      BY <2>1, <2>2, NothingWritten DEF Rows
    <3> QED BY <1>1, <3>1, UniqueOfSame
  <2>3. CASE connections'[e].writes # <<>>
    <3>1. View(e)' = View(e) /\ e \in DOMAIN connections
      BY <1>2, <2>1, <2>3 DEF View
    <3> QED BY <3>1 DEF LinksInv, TrucksReserved
  <2> QED BY <2>2, <2>3
<1>6. ASSUME NEW c \in DOMAIN connections', NEW d \in DOMAIN connections',
             NEW i \in DOMAIN connections'[c].writes, NEW j \in DOMAIN connections'[d].writes,
             connections'[c].writes[i].row \in Routes, connections'[d].writes[j].row \in Routes,
             connections'[c].writes[i].value \in Trucks,
             connections'[c].writes[i].value = connections'[d].writes[j].value
      PROVE  c = d
  <2>1. c \in DOMAIN connections /\ connections'[c].writes = connections[c].writes
        /\ d \in DOMAIN connections /\ connections'[d].writes = connections[d].writes
    BY <1>3
  <2> QED BY <1>6, <2>1 DEF LinksInv, TrucksReserved
<1>7. \A e \in DOMAIN connections' : TrucksUnique(View(e))'
  BY <1>5 DEF TrucksUnique
<1>8. TrucksReserved'
  BY <1>6, <1>7 DEF TrucksReserved
<1> QED BY <1>1, <1>4, <1>8 DEF LinksInv

LEMMA WrittenRows ==
  ASSUME NEW c, NEW x
  PROVE  /\ x \in RowsWritten(c) <=>
              \E i \in DOMAIN connections[c].writes : connections[c].writes[i].row = x
         /\ x \in RowsWritten(c)' <=>
              \E i \in DOMAIN connections'[c].writes : connections'[c].writes[i].row = x
BY DEF RowsWritten, ToSet

\* What a statement, with its cascade, does to the routes its transaction sees.
LEMMA RouteExecuted ==
  ASSUME NEW rows, NEW seen, NEW old \in Seq(WriteRecords), NEW new, NEW W,
         NEW s \in Statements, NEW k,
         Extended(new, old, W), WriteList(W, seen, s, k), NEW r \in Routes
  PROVE  /\ r = s.row => Overlay(rows, new)[r] = s.value
         /\ r # s.row => Overlay(rows, new)[r] = Overlay(rows, old)[r]
<1> DEFINE n == Len(old)
<1>1. n \in Nat /\ DOMAIN old = 1 .. n /\ Len(new) \in Nat /\ DOMAIN new = 1 .. Len(new)
  BY LenProperties DEF Extended
<1>2. r \in Rows /\ r \notin Packages
  BY DispatchDatabaseAssumption DEF Rows
<1>3. Len(W) \in Nat /\ Len(W) >= 1 /\ W[1].row = s.row /\ W[1].value = s.value
      /\ \A i \in 2 .. Len(W) : W[i].row \in Packages
  BY DEF WriteList, Load
<1>4. /\ \A i \in 1 .. n : i \in DOMAIN new /\ new[i] = old[i]
      /\ n + 1 \in DOMAIN new /\ new[n + 1] = W[1]
  BY <1>1, <1>3 DEF Extended
<1>5. ASSUME NEW i \in DOMAIN new, new[i].row = r
      PROVE  i \in 1 .. n \/ (i = n + 1 /\ r = s.row)
  <2>1. i \in 1 .. n \/ \E j \in 1 .. Len(W) : i = n + j
    BY DEF Extended
  <2>2. ASSUME NEW j \in 1 .. Len(W), i = n + j PROVE j = 1
    <3>1. new[i] = W[j]
      BY <2>2 DEF Extended
    <3>2. j \notin 2 .. Len(W)
      BY <1>2, <1>3, <1>5, <3>1
    <3> QED BY <1>3, <3>2
  <2> QED BY <1>3, <1>4, <1>5, <2>1, <2>2
<1> HIDE DEF n
<1>6. CASE r = s.row
  <2>1. \A i \in DOMAIN new : new[i].row = r => i <= n + 1
    BY <1>1, <1>5
  <2>2. Overlay(rows, new)[r] = new[n + 1].value
    BY <1>1, <1>2, <1>3, <1>4, <1>6, <2>1, LastWrite
  <2> QED BY <1>3, <1>4, <1>6, <2>2
<1>7. CASE r # s.row
  <2>1. CASE \A i \in DOMAIN old : old[i].row # r
    <3>1. \A i \in DOMAIN new : new[i].row # r
      BY <1>1, <1>4, <1>5, <1>7, <2>1
    <3> QED BY <1>1, <1>2, <1>7, <2>1, <3>1, NotWritten
  <2>2. CASE \E i \in DOMAIN old :
               /\ old[i].row = r /\ Overlay(rows, old)[r] = old[i].value
               /\ \A j \in DOMAIN old : old[j].row = r => j <= i
    <3>1. PICK i \in DOMAIN old :
               /\ old[i].row = r /\ Overlay(rows, old)[r] = old[i].value
               /\ \A j \in DOMAIN old : old[j].row = r => j <= i
      BY <2>2
    <3>2. i \in DOMAIN new /\ new[i] = old[i]
      BY <1>1, <1>4
    <3>3. \A j \in DOMAIN new : new[j].row = r => j <= i
      BY <1>1, <1>4, <1>5, <1>7, <3>1
    <3>4. Overlay(rows, new)[r] = new[i].value
      BY <1>1, <1>2, <3>1, <3>2, <3>3, LastWrite
    <3> QED BY <1>7, <3>1, <3>2, <3>4
  <2> QED BY <1>1, <1>2, <2>1, <2>2, OverlayValue
<1> QED BY <1>6, <1>7

LEMMA LinksExecute ==
  ASSUME BaseInv, LinksInv, NEW k \in DOMAIN commands, Execute(k)
  PROVE  LinksInv'
<1>1. TypeOK /\ UnitsOK
  BY DEF BaseInv
<1>2. UNCHANGED db
  BY <1>1, ExecuteStep
<1>3. PICK c, s, W : Executed(k, c, s, W)
  BY <1>1, ExecuteStep
<1> DEFINE old == connections[c].writes
           new == connections'[c].writes
<1>4. c \in DOMAIN connections /\ s \in Statements
      /\ DOMAIN connections' = DOMAIN connections
      /\ \A e \in DOMAIN connections : e # c => connections'[e] = connections[e]
  BY <1>3 DEF Executed
<1>5. CASE c # Unit(k).connection
  <2>1. new = <<>>
    BY <1>3, <1>5 DEF Executed
  <2>2. Forgets
    BY <1>4, <2>1 DEF Forgets
  <2> QED BY <1>2, <2>2, LinksForgotten
<1>6. CASE c = Unit(k).connection
  <2>1. Extended(new, old, W) /\ WriteList(W, View(c), s, k)
    BY <1>3, <1>6 DEF Executed
  <2>2. old \in Seq(WriteRecords) /\ Len(old) \in Nat /\ DOMAIN old = 1 .. Len(old)
    BY <1>1, <1>4, SequenceFacts DEF ConnectionState
  <2>3. /\ W[1].row = s.row /\ W[1].value = s.value
        /\ \A i \in 2 .. Len(W) : W[i].row \in Packages
        /\ Len(W) \in Nat /\ Len(W) >= 1
    BY <2>1 DEF WriteList, Load
  <2>4. ASSUME NEW i \in DOMAIN new, new[i].row \in Routes
        PROVE  \/ i \in DOMAIN old /\ new[i] = old[i]
               \/ new[i].row = s.row /\ new[i].value = s.value
    <3>1. i \in 1 .. Len(old) \/ \E j \in 1 .. Len(W) : i = Len(old) + j
      BY <2>1 DEF Extended
    <3>2. ASSUME NEW j \in 1 .. Len(W), i = Len(old) + j
          PROVE  new[i].row = s.row /\ new[i].value = s.value
      <4>1. new[i] = W[j]
        BY <2>1, <3>2 DEF Extended
      <4>2. new[i].row \notin Packages
        BY <2>4, DispatchDatabaseAssumption
      <4>3. j \notin 2 .. Len(W)
        BY <2>3, <4>1, <4>2
      <4>4. j = 1
        BY <2>3, <4>3
      <4> QED BY <2>3, <4>1, <4>4
    <3> QED BY <2>1, <2>2, <3>1, <3>2 DEF Extended
  <2>5. /\ \A i \in DOMAIN old : i \in DOMAIN new /\ new[i] = old[i]
        /\ \A j \in 1 .. Len(W) : \E i \in DOMAIN new : new[i] = W[j]
    BY <2>1, <2>2 DEF Extended
  <2>6. \A x : x \in RowsWritten(c) => x \in RowsWritten(c)'
    BY <2>5, WrittenRows
  <2>7. \A r \in Routes : View(c)'[r] = IF r = s.row THEN s.value ELSE View(c)[r]
    <3>1. View(c)' = Overlay(db, new) /\ View(c) = Overlay(db, old)
      BY <1>2 DEF View
    <3>2. s \in Statements
      BY <1>4
    <3> HIDE DEF new, old
    <3>3. ASSUME NEW r \in Routes
          PROVE  /\ r = s.row => Overlay(db, new)[r] = s.value
                 /\ r # s.row => Overlay(db, new)[r] = Overlay(db, old)[r]
      BY <2>1, <2>2, <3>2, RouteExecuted
    <3> QED BY <3>1, <3>3
  <2>8. Unique(View(c), s) /\ ~MustWait(c, s)
    BY <1>3 DEF Executed
  <2> HIDE DEF old, new
  <2>9. RowsStayLinked'
    BY <1>2 DEF LinksInv, RowsStayLinked
  <2>10. RemovalCascades'
    <3> SUFFICES ASSUME NEW e \in DOMAIN connections', NEW i \in DOMAIN connections'[e].writes,
                        connections'[e].writes[i].row \in Routes,
                        connections'[e].writes[i].value = Gone,
                        NEW p \in Packages, db'[p] = connections'[e].writes[i].row
                 PROVE  p \in RowsWritten(e)'
      BY DEF RemovalCascades
    <3>1. CASE e # c
      <4>1. e \in DOMAIN connections /\ connections'[e] = connections[e]
        BY <1>4, <3>1
      <4>2. p \in RowsWritten(e)
        BY <1>2, <4>1 DEF LinksInv, RemovalCascades
      <4> QED BY <4>1, <4>2 DEF RowsWritten
    <3>2. CASE e = c /\ i \in DOMAIN old /\ new[i] = old[i]
      <4>1. p \in RowsWritten(c)
        BY <1>2, <1>4, <3>2 DEF LinksInv, RemovalCascades, old, new
      <4> QED BY <2>6, <3>2, <4>1
    <3>3. CASE e = c /\ new[i].row = s.row /\ new[i].value = s.value
      <4>1. s.row \in Routes /\ s.value = Gone /\ db[p] = s.row
        BY <1>2, <3>3 DEF new
      <4>2. CASE View(c)[p] = s.row
        <5>1. p \in Load(View(c), s.row)
          BY <4>2 DEF Load
        <5>2. PICK j \in 2 .. Len(W) : W[j].row = p
          BY <2>1, <4>1, <5>1 DEF WriteList
        <5>3. j \in 1 .. Len(W)
          BY <2>3
        <5> QED BY <2>5, <3>3, <5>2, <5>3, WrittenRows DEF new
      <4>3. CASE View(c)[p] # s.row
        <5>1. p \in Rows /\ View(c)[p] # db[p]
          BY <4>1, <4>3 DEF Rows
        <5>2. \E m \in DOMAIN old : old[m].row = p
          BY <2>2, <5>1, NotWritten DEF View, old
        <5> QED BY <2>6, <3>3, <5>2, WrittenRows DEF old
      <4> QED BY <4>2, <4>3
    <3> QED BY <2>4, <3>1, <3>2, <3>3 DEF new
  <2>11. ASSUME NEW e \in DOMAIN connections PROVE TrucksUnique(View(e)')
    <3>1. CASE e # c
      <4>1. View(e)' = View(e)
        BY <1>2, <1>4, <3>1 DEF View
      <4> QED BY <4>1 DEF LinksInv, TrucksReserved
    <3>2. CASE e = c
      <4>1. TrucksUnique(View(c))
        BY <1>4 DEF LinksInv, TrucksReserved
      <4> SUFFICES ASSUME NEW r \in Routes, NEW q \in Routes, View(c)'[r] \in Trucks,
                          View(c)'[r] = View(c)'[q], r # q
                   PROVE  FALSE
        BY <3>2 DEF TrucksUnique
      <4>2. CASE r # s.row /\ q # s.row
        BY <2>7, <4>1, <4>2 DEF TrucksUnique
      <4>3. CASE r = s.row
        <5>1. s.value \in Trucks /\ View(c)[q] = s.value
          BY <2>7, <4>3
        <5> QED BY <2>8, <4>3, <5>1 DEF Unique, RouteOf
      <4>4. CASE q = s.row
        <5>1. s.value \in Trucks /\ View(c)[r] = s.value
          BY <2>7, <4>4
        <5> QED BY <2>8, <4>4, <5>1 DEF Unique, RouteOf
      <4> QED BY <4>2, <4>3, <4>4
    <3> QED BY <3>1, <3>2
  <2>12. ASSUME NEW d \in DOMAIN connections, d # c, NEW j \in DOMAIN connections[d].writes,
                NEW i \in DOMAIN new, new[i].row \in Routes, new[i].value \in Trucks,
                connections[d].writes[j].row \in Routes,
                new[i].value = connections[d].writes[j].value
         PROVE  FALSE
    <3>1. CASE i \in DOMAIN old /\ new[i] = old[i]
      BY <1>4, <2>12, <3>1 DEF LinksInv, TrucksReserved, old
    <3>2. CASE new[i].row = s.row /\ new[i].value = s.value
      <4>1. connections[d].writes[j] \in ToSet(connections[d].writes)
        BY DEF ToSet
      <4>2. WaitsFor(c, s, d)
        BY <2>12, <3>2, <4>1 DEF WaitsFor
      <4> QED BY <2>8, <2>12, <4>2 DEF MustWait
    <3> QED BY <2>4, <2>12, <3>1, <3>2
  <2>13. ASSUME NEW d \in DOMAIN connections', NEW e \in DOMAIN connections',
                NEW i \in DOMAIN connections'[d].writes, NEW j \in DOMAIN connections'[e].writes,
                connections'[d].writes[i].row \in Routes, connections'[e].writes[j].row \in Routes,
                connections'[d].writes[i].value \in Trucks,
                connections'[d].writes[i].value = connections'[e].writes[j].value
         PROVE  d = e
    <3>1. CASE d # c /\ e # c
      <4>1. connections'[d] = connections[d] /\ connections'[e] = connections[e]
        BY <1>4, <3>1
      <4> QED BY <1>4, <2>13, <4>1 DEF LinksInv, TrucksReserved
    <3>2. CASE d = c /\ e # c
      <4>1. connections'[e] = connections[e] /\ e \in DOMAIN connections
        BY <1>4, <3>2
      <4> QED BY <2>12, <2>13, <3>2, <4>1 DEF new
    <3>3. CASE d # c /\ e = c
      <4>1. connections'[d] = connections[d] /\ d \in DOMAIN connections
        BY <1>4, <3>3
      <4> QED BY <2>12, <2>13, <3>3, <4>1 DEF new
    <3> QED BY <3>1, <3>2, <3>3
  <2>14. \A e \in DOMAIN connections' : TrucksUnique(View(e))'
    BY <1>4, <2>11 DEF TrucksUnique
  <2>15. TrucksReserved'
    BY <2>13, <2>14 DEF TrucksReserved
  <2> QED BY <2>9, <2>10, <2>15 DEF LinksInv
<1> QED BY <1>5, <1>6

\* The rows two transactions start from matter where nothing is written.
LEMMA OverlayOther ==
  ASSUME NEW rows, NEW others, NEW writes, NEW n \in Nat, DOMAIN writes = 1 .. n, NEW x \in Rows
  PROVE  \/ /\ \A i \in DOMAIN writes : writes[i].row # x
            /\ Overlay(rows, writes)[x] = rows[x] /\ Overlay(others, writes)[x] = others[x]
         \/ \E i \in DOMAIN writes :
              /\ writes[i].row = x /\ Overlay(rows, writes)[x] = writes[i].value
              /\ Overlay(others, writes)[x] = writes[i].value
<1>1. CASE \A i \in DOMAIN writes : writes[i].row # x
  BY <1>1, NotWritten
<1>2. CASE \E i \in DOMAIN writes :
             /\ writes[i].row = x /\ Overlay(rows, writes)[x] = writes[i].value
             /\ \A j \in DOMAIN writes : writes[j].row = x => j <= i
  BY <1>2, LastWrite
<1> QED BY <1>1, <1>2, OverlayValue

LEMMA LinksCommit ==
  ASSUME BaseInv, LinksInv, NEW k \in DOMAIN commands,
         NEW a \in BOOLEAN, Persist(k, a)
  PROVE  LinksInv'
<1>1. TypeOK
  BY DEF BaseInv
<1>2. PICK c :
        /\ c \in DOMAIN connections /\ db' = View(c)
        /\ DOMAIN connections' = DOMAIN connections
        /\ \A e \in DOMAIN connections :
             connections'[e] = IF e = c THEN Afterwards(a) ELSE connections[e]
  BY CommitStep
<1> DEFINE writes == connections[c].writes
<1>3. \A e \in DOMAIN connections :
        /\ connections[e].writes \in Seq(WriteRecords)
        /\ Len(connections[e].writes) \in Nat
        /\ DOMAIN connections[e].writes = 1 .. Len(connections[e].writes)
  BY <1>1, SequenceFacts DEF ConnectionState
<1>4. db \in RowValues /\ db' \in RowValues
  BY <1>1, CommitStep DEF TypeOK
<1>5. TrucksUnique(View(c))
  BY <1>2 DEF LinksInv, TrucksReserved
<1>6. ASSUME NEW p \in Packages, View(c)[p] \in Routes
      PROVE  db[p] = View(c)[p] /\ p \notin RowsWritten(c)
  <2>1. p \in Rows
    BY DEF Rows
  <2>2. CASE \E i \in DOMAIN writes : writes[i].row = p /\ View(c)[p] = writes[i].value
    <3>1. PICK i \in DOMAIN writes : writes[i].row = p /\ View(c)[p] = writes[i].value
      BY <2>2
    <3>2. writes[i] \in WriteRecords
      BY <1>2, <1>3
    <3>3. writes[i].value \in {None, Gone}
      BY <3>1, <3>2, DispatchDatabaseAssumption DEF WriteRecords, Statements, Statement
    <3> QED BY <1>6, <3>1, <3>3, DispatchDatabaseAssumption
  <2>3. CASE (\A i \in DOMAIN writes : writes[i].row # p) /\ View(c)[p] = db[p]
    BY <2>3, WrittenRows
  <2> QED BY <1>2, <1>3, <2>1, <2>2, <2>3, OverlayValue DEF View
<1>7. Linked(View(c))
  <2>1. ASSUME NEW p \in Packages, View(c)[p] \in Routes PROVE View(c)[View(c)[p]] # Gone
    <3> DEFINE r == View(c)[p]
    <3>1. db[p] = r /\ p \notin RowsWritten(c) /\ r \in Rows
      BY <1>6, <2>1 DEF Rows
    <3>2. db[r] # Gone
      BY <2>1, <3>1 DEF LinksInv, RowsStayLinked, Linked
    <3>3. ASSUME NEW i \in DOMAIN writes, writes[i].row = r PROVE writes[i].value # Gone
      BY <1>2, <2>1, <3>1, <3>3 DEF LinksInv, RemovalCascades
    <3> HIDE DEF r
    <3>4. View(c)[r] # Gone
      BY <1>2, <1>3, <3>1, <3>2, <3>3, OverlayValue DEF View
    <3> QED BY <3>4 DEF r
  <2> QED BY <1>5, <2>1 DEF Linked, TrucksUnique
<1>8. RowsStayLinked'
  BY <1>2, <1>7 DEF RowsStayLinked, Linked
<1>9. ASSUME NEW e \in DOMAIN connections', NEW i \in DOMAIN connections'[e].writes
      PROVE  e \in DOMAIN connections /\ e # c /\ connections'[e] = connections[e]
  BY <1>2, <1>9, ConnectionTypes, EmptySet DEF Afterwards
<1>10. RemovalCascades'
  <2> SUFFICES ASSUME NEW e \in DOMAIN connections', NEW i \in DOMAIN connections'[e].writes,
                      connections'[e].writes[i].row \in Routes,
                      connections'[e].writes[i].value = Gone,
                      NEW p \in Packages, db'[p] = connections'[e].writes[i].row
               PROVE  p \in RowsWritten(e)'
    BY DEF RemovalCascades
  <2>1. e \in DOMAIN connections /\ connections'[e] = connections[e]
    BY <1>9
  <2>2. db[p] = connections[e].writes[i].row
    BY <1>2, <1>6, <2>1
  <2>3. p \in RowsWritten(e)
    BY <2>1, <2>2 DEF LinksInv, RemovalCascades
  <2> QED BY <2>1, <2>3 DEF RowsWritten
<1>11. ASSUME NEW e \in DOMAIN connections PROVE TrucksUnique(View(e)')
  <2>1. View(e)' = Overlay(View(c), connections'[e].writes)
    BY <1>2 DEF View
  <2>2. CASE e = c
    <3>1. connections'[e].writes = <<>>
      BY <1>2, <2>2, ConnectionTypes DEF Afterwards
    <3>2. \A r \in Routes : View(e)'[r] = View(c)[r]
      BY <2>1, <3>1, NothingWritten DEF Rows
    <3> QED BY <1>5, <3>2, UniqueOfSame
  <2>3. CASE e # c
    <3> DEFINE mine == connections[e].writes
    <3>1. View(e)' = Overlay(View(c), mine) /\ View(e) = Overlay(db, mine)
          /\ View(c) = Overlay(db, writes)
      BY <1>2, <2>1, <2>3 DEF View
    <3>2. TrucksUnique(View(e))
      BY DEF LinksInv, TrucksReserved
    <3>3. ASSUME NEW r \in Routes
          PROVE  \/ /\ \A i \in DOMAIN mine : mine[i].row # r
                    /\ View(e)'[r] = View(c)[r] /\ View(e)[r] = db[r]
                 \/ \E i \in DOMAIN mine :
                      /\ mine[i].row = r /\ View(e)'[r] = mine[i].value
                      /\ View(e)[r] = mine[i].value
      <4>1. r \in Rows
        BY DEF Rows
      <4>2. Len(mine) \in Nat /\ DOMAIN mine = 1 .. Len(mine)
        BY <1>3
      <4> HIDE DEF mine
      <4> QED BY <3>1, <4>1, <4>2, OverlayOther
    <3>4. ASSUME NEW r \in Routes
          PROVE  \/ View(c)[r] = db[r]
                 \/ \E i \in DOMAIN writes : writes[i].row = r /\ View(c)[r] = writes[i].value
      <4>1. r \in Rows /\ View(c) = Overlay(db, writes)
        BY <3>1 DEF Rows
      <4>2. Len(writes) \in Nat /\ DOMAIN writes = 1 .. Len(writes)
        BY <1>2, <1>3
      <4> HIDE DEF writes
      <4>3. \/ Overlay(db, writes)[r] = db[r]
            \/ \E i \in DOMAIN writes :
                 writes[i].row = r /\ Overlay(db, writes)[r] = writes[i].value
        BY <4>1, <4>2, OverlayOrigin
      <4> QED BY <4>1, <4>3
    <3>5. ASSUME NEW i \in DOMAIN mine, NEW j \in DOMAIN writes, mine[i].row \in Routes,
                 writes[j].row \in Routes, mine[i].value \in Trucks,
                 mine[i].value = writes[j].value
          PROVE  FALSE
      BY <1>2, <2>3, <3>5 DEF LinksInv, TrucksReserved
    <3>6. ASSUME NEW r \in Routes, NEW q \in Routes, View(e)'[r] \in Trucks,
                 View(e)'[r] = View(e)'[q], NEW i \in DOMAIN mine, mine[i].row = r,
                 View(e)'[r] = mine[i].value, View(e)[r] = mine[i].value,
                 View(e)'[q] = View(c)[q], View(e)[q] = db[q]
          PROVE  r = q
      <4>1. CASE View(c)[q] = db[q]
        BY <3>2, <3>6, <4>1 DEF TrucksUnique
      <4>2. CASE \E j \in DOMAIN writes : writes[j].row = q /\ View(c)[q] = writes[j].value
        BY <3>5, <3>6, <4>2
      <4> QED BY <3>4, <4>1, <4>2
    <3>7. ASSUME NEW r \in Routes, NEW q \in Routes, View(e)'[r] \in Trucks,
                 View(e)'[r] = View(e)'[q]
          PROVE  r = q
      <4>1. CASE View(e)'[r] = View(e)[r] /\ View(e)'[q] = View(e)[q]
        BY <3>2, <3>7, <4>1 DEF TrucksUnique
      <4>2. CASE View(e)'[r] = View(c)[r] /\ View(e)'[q] = View(c)[q]
        BY <1>5, <3>7, <4>2 DEF TrucksUnique
      <4>3. CASE /\ View(e)'[q] = View(c)[q] /\ View(e)[q] = db[q]
                 /\ \E i \in DOMAIN mine : mine[i].row = r /\ View(e)'[r] = mine[i].value
                                           /\ View(e)[r] = mine[i].value
        BY <3>6, <3>7, <4>3
      <4>4. CASE /\ View(e)'[r] = View(c)[r] /\ View(e)[r] = db[r]
                 /\ \E i \in DOMAIN mine : mine[i].row = q /\ View(e)'[q] = mine[i].value
                                           /\ View(e)[q] = mine[i].value
        BY <3>6, <3>7, <4>4
      <4>5. \/ View(e)'[r] = View(c)[r] /\ View(e)[r] = db[r]
            \/ /\ View(e)'[r] = View(e)[r]
               /\ \E i \in DOMAIN mine : mine[i].row = r /\ View(e)'[r] = mine[i].value
                                         /\ View(e)[r] = mine[i].value
        BY <3>3
      <4>6. \/ View(e)'[q] = View(c)[q] /\ View(e)[q] = db[q]
            \/ /\ View(e)'[q] = View(e)[q]
               /\ \E i \in DOMAIN mine : mine[i].row = q /\ View(e)'[q] = mine[i].value
                                         /\ View(e)[q] = mine[i].value
        BY <3>3
      <4> QED BY <4>1, <4>2, <4>3, <4>4, <4>5, <4>6
    <3> QED BY <3>7 DEF TrucksUnique
  <2> QED BY <2>2, <2>3
<1>12. \A e \in DOMAIN connections' : TrucksUnique(View(e))'
  BY <1>2, <1>11 DEF TrucksUnique
<1>13. ASSUME NEW d \in DOMAIN connections', NEW e \in DOMAIN connections',
              NEW i \in DOMAIN connections'[d].writes, NEW j \in DOMAIN connections'[e].writes,
              connections'[d].writes[i].row \in Routes, connections'[e].writes[j].row \in Routes,
              connections'[d].writes[i].value \in Trucks,
              connections'[d].writes[i].value = connections'[e].writes[j].value
       PROVE  d = e
  BY <1>9, <1>13 DEF LinksInv, TrucksReserved
<1>14. TrucksReserved'
  BY <1>12, <1>13 DEF TrucksReserved
<1> QED BY <1>8, <1>10, <1>14 DEF LinksInv

\* A package row is written alone: nothing for the other rows changes.
LEMMA WritePackageRow ==
  ASSUME TypeOK, NEW k \in DOMAIN commands, WritePackage(k),
         NEW p, p = Head(commands[k].packages)
  PROVE  /\ p \in Packages /\ commands[k].route \in Routes /\ UNCHANGED connections
         /\ \A x \in Rows \ {p} : db'[x] = db[x]
         /\ \/ UNCHANGED <<db, stale>>
            \/ /\ p \in commands[k].copy.packages /\ db'[p] = None
               /\ stale' = (stale \/ ~CopyIsCurrent(db, commands[k]) \/ db[p] # None)
            \/ /\ p \notin commands[k].copy.packages /\ db'[p] = commands[k].route
               /\ db[commands[k].route] # Gone
               /\ \A e \in DOMAIN connections : commands[k].route \notin RowsWritten(e)
               /\ stale' = (stale \/ ~CopyIsCurrent(db, commands[k]) \/ db[p] # None)
<1> DEFINE c == commands[k]
           linked == p \notin c.copy.packages
           locked == UNION {RowsWritten(d) : d \in DOMAIN connections}
           v == IF linked THEN c.route ELSE None
<1>1. p \in Packages /\ c.route \in Routes /\ UNCHANGED connections
  BY WritePackageStep
<1>2. p \in Rows /\ DOMAIN db = Rows
  BY <1>1 DEF Rows, TypeOK, RowValues
<1>3. \/ UNCHANGED <<db, stale>>
      \/ /\ linked => c.route \notin locked /\ db[c.route] # Gone
         /\ db' = [db EXCEPT ![p] = v]
         /\ stale' = (stale \/ ~CopyIsCurrent(db, c) \/ db[p] # None)
  BY DEF WritePackage
<1>4. \A x : x \notin locked => \A e \in DOMAIN connections : x \notin RowsWritten(e)
  OBVIOUS
<1> HIDE DEF locked
<1>5. CASE UNCHANGED <<db, stale>>
  BY <1>1, <1>5
<1>6. CASE /\ linked => c.route \notin locked /\ db[c.route] # Gone
           /\ db' = [db EXCEPT ![p] = v]
           /\ stale' = (stale \/ ~CopyIsCurrent(db, c) \/ db[p] # None)
  <2>1. db'[p] = v /\ \A x \in Rows \ {p} : db'[x] = db[x]
    BY <1>2, <1>6
  <2> QED BY <1>1, <1>4, <1>6, <2>1
<1> QED BY <1>3, <1>5, <1>6

LEMMA LinksWritePackage ==
  ASSUME BaseInv, LinksInv, NEW k \in DOMAIN commands, WritePackage(k)
  PROVE  LinksInv'
<1>1. TypeOK
  BY DEF BaseInv
<1>2. PICK p, r :
        /\ p \in Packages /\ r \in Routes /\ UNCHANGED connections
        /\ \A x \in Rows \ {p} : db'[x] = db[x]
        /\ \/ db' = db
           \/ db'[p] = None
           \/ /\ db'[p] = r /\ db[r] # Gone
              /\ \A e \in DOMAIN connections : r \notin RowsWritten(e)
  BY <1>1, WritePackageRow
<1>3. \A r1 \in Routes : r1 \in Rows /\ db'[r1] = db[r1]
  BY <1>2, DispatchDatabaseAssumption DEF Rows
<1>4. \A q \in Packages : q \in Rows /\ (q # p => db'[q] = db[q])
  BY <1>2 DEF Rows
<1>5. None \notin Routes
  BY DispatchDatabaseAssumption
<1>6. RowsStayLinked'
  <2>1. Linked(db)
    BY DEF LinksInv, RowsStayLinked
  <2> QED BY <1>2, <1>3, <1>4, <1>5, <2>1 DEF RowsStayLinked, Linked
<1>7. RemovalCascades'
  <2> SUFFICES ASSUME NEW e \in DOMAIN connections, NEW i \in DOMAIN connections[e].writes,
                      connections[e].writes[i].row \in Routes,
                      connections[e].writes[i].value = Gone,
                      NEW q \in Packages, db'[q] = connections[e].writes[i].row
               PROVE  q \in RowsWritten(e)
    BY <1>2 DEF RemovalCascades, RowsWritten
  <2>1. connections[e].writes[i].row \in RowsWritten(e)
    BY WrittenRows
  <2>2. db'[q] = db[q]
    BY <1>2, <1>4, <1>5, <2>1
  <2> QED BY <2>2 DEF LinksInv, RemovalCascades
<1>8. ASSUME NEW e \in DOMAIN connections PROVE TrucksUnique(View(e)')
  <2> DEFINE mine == connections[e].writes
  <2>1. View(e)' = Overlay(db', mine) /\ View(e) = Overlay(db, mine)
    BY <1>2 DEF View
  <2>2. Len(mine) \in Nat /\ DOMAIN mine = 1 .. Len(mine)
    BY <1>1, SequenceFacts
  <2>3. ASSUME NEW x \in Routes PROVE View(e)'[x] = View(e)[x]
    <3>1. x \in Rows /\ db'[x] = db[x]
      BY <1>3
    <3> QED BY <2>1, <2>2, <3>1, OverlayOther
  <2>4. TrucksUnique(View(e))
    BY DEF LinksInv, TrucksReserved
  <2> QED BY <2>3, <2>4, UniqueOfSame
<1>9. \A e \in DOMAIN connections' : TrucksUnique(View(e))'
  BY <1>2, <1>8 DEF TrucksUnique
<1>10. TrucksReserved'
  BY <1>2, <1>9 DEF LinksInv, TrucksReserved
<1> QED BY <1>6, <1>7, <1>10 DEF LinksInv

LEMMA LinksInit ==
  ASSUME Init
  PROVE  LinksInv
BY InitFacts DEF LinksInv, RowsStayLinked, RemovalCascades, TrucksReserved

LEMMA LinksStep ==
  ASSUME BaseInv, LinksInv, [Next]_vars
  PROVE  LinksInv'
<1>0. TypeOK
  BY DEF BaseInv
<1>1. ASSUME UNCHANGED <<db, connections>> PROVE LinksInv'
  <2>1. Forgets
    BY <1>1 DEF Forgets
  <2> QED BY <1>1, <2>1, LinksForgotten
<1>2. CASE Start
  BY <1>1, <1>2, StartStep DEF Untouched
<1>3. ASSUME NEW k \in DOMAIN commands, Step(k) PROVE LinksInv'
  <2>1. CASE ReadOnly(k)
    BY <1>0, <1>1, <2>1, ReadOnlyStep DEF Untouched
  <2>2. CASE WritePackage(k)
    BY <2>2, LinksWritePackage
  <2>3. CASE Enter(k)
    BY <2>3, EnterStep, EnterBase, LinksForgotten
  <2>4. CASE Wait(k)
    BY <1>1, <2>4 DEF Wait, Untouched
  <2>5. CASE Execute(k)
    BY <2>5, LinksExecute
  <2>6. CASE RowMissing(k) \/ StatementFails(k) \/ CommitFails(k)
    BY <2>6, RaiseBase, LinksForgotten
  <2>7. CASE Commit(k) \/ CommitUnanswered(k)
    BY <2>7, LinksCommit DEF Commit, CommitUnanswered
  <2>8. CASE Exit(k)
    <3>1. Forgets /\ UNCHANGED db
      BY <2>8, ExitBase DEF Exit
    <3> QED BY <3>1, LinksForgotten
  <2> QED BY <1>3, <2>1, <2>2, <2>3, <2>4, <2>5, <2>6, <2>7, <2>8 DEF Step, ReadOnly
<1>4. CASE UNCHANGED vars
  BY <1>1, <1>4 DEF vars
<1> QED BY <1>2, <1>3, <1>4 DEF Next

(***************************************************************************)
(* No package row names a missing route and no truck is on two routes,     *)
(* under any interleaving of commands, lost connections and failing        *)
(* statements (schema.sql: the keys of routes and packages).  Committed    *)
(* rows alone are not inductive: a transaction that removes a route has    *)
(* taken off every package that names it, also those linked after it was   *)
(* read, and a truck that two transactions give out has one of them wait.  *)
(***************************************************************************)
THEOREM LinksHold == Spec => []RowsStayLinked
<1>1. Init => BaseInv /\ LinksInv
  BY BaseInit, LinksInit
<1>2. BaseInv /\ LinksInv /\ [Next]_vars => BaseInv' /\ LinksInv'
  BY BaseStep, LinksStep
<1>3. LinksInv => RowsStayLinked
  BY DEF LinksInv
<1> QED BY <1>1, <1>2, <1>3, PTL DEF Spec

-----------------------------------------------------------------------------
(* A unit of work is atomic when no other thread enters it                 *)

\* Another command in a unit of work has another process, hence another
\* connection, and waits on none of this one's.
LEMMA Apart ==
  ASSUME TypeOK, UnitsOK, LoneUnits, NEW k \in DOMAIN commands, NEW j \in DOMAIN commands,
         Lone(j), InUnit(k), k # j
  PROVE  /\ commands[k].process # commands[j].process
         /\ Unit(k).connection # Unit(j).connection /\ CursorOf(k) # Unit(j).connection
<1>1. InUnit(j) /\ commands[k].process # commands[j].process
  BY DEF LoneUnits, Others, Lone
<1>2. commands[k].process \in Processes /\ commands[j].process \in Processes
  BY <1>1, CursorFacts
<1>3. Unit(k).connection # Unit(j).connection
  BY <1>1, <1>2 DEF UnitsOK, Unit
<1>4. commands[k].cursor # 0 => commands[k].cursor # Unit(j).connection
  BY <1>1, <1>2 DEF UnitsOK, Unit
<1> QED BY <1>1, <1>3, <1>4 DEF CursorOf

LEMMA LoneCursor ==
  ASSUME LoneUnits, NEW k \in DOMAIN commands, Lone(k)
  PROVE  CursorOf(k) = Unit(k).connection
BY DEF LoneUnits, CursorOf

\* What a lone unit's progress depends on.
LEMMA ProgressKept ==
  ASSUME NEW j, LoneProgress(j), Unit(j)'.connection = Unit(j).connection,
         Unit(j)'.committed = Unit(j).committed,
         connections'[Unit(j).connection] = connections[Unit(j).connection],
         commands'[j].phase = commands[j].phase, commands'[j].failed = commands[j].failed,
         commands'[j].kept = commands[j].kept, commands'[j].planned = commands[j].planned,
         commands'[j].todo = commands[j].todo, commands'[j].unanswered = commands[j].unanswered
  PROVE  LoneProgress(j)'
<1>1. Done(j)' = Done(j)
  BY DEF Done
<1> QED BY <1>1 DEF LoneProgress

\* A step of k leaves the other lone units alone.
LEMMA AtomicFrame ==
  ASSUME BaseInv, AtomicInv, UnitsStay, NEW k \in DOMAIN commands,
         \A j \in DOMAIN commands : j # k =>
           /\ commands'[j].phase = commands[j].phase /\ commands'[j].failed = commands[j].failed
           /\ commands'[j].planned = commands[j].planned /\ commands'[j].todo = commands[j].todo
           /\ commands'[j].outcome = commands[j].outcome
           /\ commands'[j].unanswered = commands[j].unanswered
           /\ ~commands[j].shared => commands'[j].kept = commands[j].kept
           /\ Lone(j) =>
                /\ connections'[Unit(j).connection] = connections[Unit(j).connection]
                /\ unit'[commands[j].process].committed = unit[commands[j].process].committed,
         Lone(k)' => LoneProgress(k)',
         commands'[k].phase = "ended" /\ ~commands'[k].shared => AllOrNothing(commands'[k])
  PROVE  AtomicInv'
<1>1. TypeOK /\ DOMAIN commands' = DOMAIN commands
      /\ \A j \in DOMAIN commands : commands'[j].shared = commands[j].shared
  BY DEF BaseInv, UnitsStay, Continues
<1>2. ASSUME NEW j \in DOMAIN commands, j # k, Lone(j)' PROVE LoneProgress(j)'
  <2>1. InUnit(j) /\ Unit(j)'.connection = Unit(j).connection
        /\ commands'[j].process = commands[j].process
    BY <1>1, <1>2, UnitSame DEF Lone
  <2>2. Lone(j) /\ ~commands[j].shared
    BY <1>1, <1>2, <2>1 DEF Lone
  <2>3. LoneProgress(j)
    BY <2>2 DEF AtomicInv
  <2>4. Unit(j)'.committed = Unit(j).committed
    BY <1>2, <2>1, <2>2 DEF Unit
  <2> QED BY <1>2, <2>1, <2>2, <2>3, <2>4, ProgressKept
<1>3. ASSUME NEW j \in DOMAIN commands, j # k, commands'[j].phase = "ended", ~commands'[j].shared
      PROVE  AllOrNothing(commands'[j])
  <2>1. commands[j].phase = "ended" /\ ~commands[j].shared
    BY <1>1, <1>3
  <2>2. AllOrNothing(commands[j])
    BY <2>1 DEF AtomicInv
  <2> QED BY <1>3, <2>1, <2>2 DEF AllOrNothing
<1> QED BY <1>1, <1>2, <1>3 DEF AtomicInv

LEMMA AtomicMoves ==
  ASSUME BaseInv, AtomicInv, UnitsStay, NEW k \in DOMAIN commands, NEW d, MovesTo(k, d),
         CommandOK(d), UNCHANGED unit,
         \A j \in DOMAIN commands : j # k /\ Lone(j) =>
           connections'[Unit(j).connection] = connections[Unit(j).connection],
         Lone(k)' => LoneProgress(k)',
         d.phase = "ended" /\ ~d.shared => AllOrNothing(d)
  PROVE  AtomicInv'
<1>1. \A j \in DOMAIN commands : commands'[j] = IF j = k THEN d ELSE commands[j]
  BY CommandsTyped DEF BaseInv
<1> QED BY <1>1, AtomicFrame

\* Steps of a command outside units of work.
LEMMA AtomicOutside ==
  ASSUME BaseInv, AtomicInv, NEW k \in DOMAIN commands, ReadOnly(k) \/ WritePackage(k)
  PROVE  AtomicInv'
<1>1. TypeOK /\ UnitsStay
  BY OutsideStepBase DEF BaseInv
<1>2. UNCHANGED <<connections, unit>> /\ \E d : MovesTo(k, d) /\ Reached(d)
  BY <1>1, ReadOnlyStep, WritePackageStep DEF Untouched
<1>3. PICK d : MovesTo(k, d) /\ Reached(d)
  BY <1>2
<1>4. commands'[k] = d /\ CommandOK(d) /\ Outside(d)
  BY <1>1, <1>3, CommandsTyped DEF Reached
<1>5. ~ Lone(k)'
  BY <1>4, InUnitPhase DEF Lone, Outside, ReadingPhases, UnitPhases
<1> QED BY <1>1, <1>2, <1>3, <1>4, <1>5, AtomicMoves DEF Outside

\* Nor does a step of k in its unit of work touch the connection of a lone one.
LEMMA OthersLeftAlone ==
  ASSUME BaseInv, NEW k \in DOMAIN commands, NEW j \in DOMAIN commands, j # k, Lone(j),
         \/ Wait(k) \/ Execute(k) \/ RowMissing(k) \/ StatementFails(k)
         \/ (\E a \in BOOLEAN : Persist(k, a)) \/ CommitFails(k) \/ Exit(k)
  PROVE  connections'[Unit(j).connection] = connections[Unit(j).connection]
<1>1. TypeOK /\ UnitsOK /\ LoneUnits
  BY DEF BaseInv
<1>2. InUnit(k)
  BY DEF Wait, Execute, RowMissing, StatementFails, Persist, CommitFails, Exit, Executing, InUnit
<1>3. /\ CursorOf(k) # Unit(j).connection /\ Unit(k).connection # Unit(j).connection
      /\ Unit(j).connection \in DOMAIN connections
  BY <1>1, <1>2, Apart, CursorFacts DEF Lone
<1>4. CASE Wait(k)
  BY <1>4 DEF Wait, Untouched
<1>5. ASSUME NEW x, Leave(CursorOf(k), k, x)
      PROVE  connections'[Unit(j).connection] = connections[Unit(j).connection]
  BY <1>3, <1>5 DEF Leave
<1>6. CASE Execute(k) \/ RowMissing(k) \/ StatementFails(k)
  BY <1>5, <1>6 DEF Execute, RowMissing, StatementFails
<1>7. ASSUME NEW x, connections' = [connections EXCEPT ![Unit(k).connection] = x]
      PROVE  connections'[Unit(j).connection] = connections[Unit(j).connection]
  BY <1>3, <1>7
<1>8. CASE CommitFails(k) \/ Exit(k)
  BY <1>7, <1>8 DEF CommitFails, Exit
<1>9. ASSUME NEW a \in BOOLEAN, Persist(k, a)
      PROVE  connections'[Unit(j).connection] = connections[Unit(j).connection]
  BY <1>7, <1>9 DEF Persist
<1> QED BY <1>4, <1>6, <1>8, <1>9

LEMMA AtomicWait ==
  ASSUME BaseInv, AtomicInv, NEW k \in DOMAIN commands, Wait(k)
  PROVE  AtomicInv'
<1>1. TypeOK /\ UnitsOK /\ UnitsStay
  BY WaitBase DEF BaseInv
<1>2. InUnit(k) /\ commands[k].phase = "statements" /\ UNCHANGED <<connections, unit>>
  BY DEF Wait, Executing, InUnit, Untouched
<1>3. CursorOf(k) \in Nat
  BY <1>1, <1>2, CursorFacts, SequenceFacts
<1>4. PICK d : /\ MovesTo(k, d) /\ CommandOK(d) /\ SameCommand(d, commands[k])
               /\ d.phase = "statements" /\ d.todo = commands[k].todo
               /\ d.failed = commands[k].failed /\ d.unanswered = commands[k].unanswered
  BY <1>1, <1>3, WaitMoves
<1>5. commands'[k] = d
  BY <1>1, <1>4, CommandsTyped
<1>6. Unit(k)' = Unit(k) /\ d.shared = commands[k].shared
  BY <1>2, <1>4, <1>5 DEF Unit, SameCommand
<1>7. Lone(k)' => LoneProgress(k)'
  <2>1. Lone(k)' => Lone(k)
    BY <1>2, <1>5, <1>6 DEF Lone
  <2>2. Lone(k) => LoneProgress(k)
    BY DEF AtomicInv
  <2> QED BY <1>2, <1>4, <1>5, <1>6, <2>1, <2>2, ProgressKept DEF SameCommand
<1> QED BY <1>1, <1>2, <1>4, <1>7, AtomicMoves

\* A statement or a commit fails: nothing is kept, and the unit is rolled back.
LEMMA AtomicRaise ==
  ASSUME BaseInv, AtomicInv, NEW k \in DOMAIN commands,
         RowMissing(k) \/ StatementFails(k) \/ CommitFails(k)
  PROVE  AtomicInv'
<1>1. TypeOK /\ UnitsOK /\ LoneUnits /\ UnitsStay /\ Raise(k) /\ InUnit(k) /\ UNCHANGED unit
  BY RaiseBase DEF BaseInv
<1>2. commands[k].phase \in {"statements", "commit"} /\ commands[k].phase \in UnitPhases
  BY DEF RowMissing, StatementFails, CommitFails, Executing, UnitPhases
<1>3. PICK d : /\ MovesTo(k, d) /\ CommandOK(d) /\ SameCommand(d, commands[k])
               /\ d.phase = "exit" /\ d.todo = <<>> /\ d.failed = TRUE /\ d.cursor = 0
  BY <1>1, <1>2, RaiseMoves
<1>4. commands'[k] = d
  BY <1>1, <1>3, CommandsTyped
<1>5. Unit(k)' = Unit(k) /\ d.shared = commands[k].shared /\ d.kept = commands[k].kept
  BY <1>1, <1>3, <1>4 DEF Unit, SameCommand
<1>6. Lone(k)' => LoneProgress(k)'
  <2>1. Lone(k)' => Lone(k)
    BY <1>1, <1>4, <1>5 DEF Lone
  <2>2. Lone(k) => commands[k].kept = 0 /\ ~Unit(k).committed
    BY <1>2 DEF AtomicInv, LoneProgress
  <2> QED BY <1>3, <1>4, <1>5, <2>1, <2>2 DEF LoneProgress
<1>7. \A j \in DOMAIN commands : j # k /\ Lone(j) =>
        connections'[Unit(j).connection] = connections[Unit(j).connection]
  BY OthersLeftAlone
<1> QED BY <1>1, <1>3, <1>6, <1>7, AtomicMoves

\* A statement of k is one more that its transaction holds.
LEMMA OneMoreWritten ==
  ASSUME NEW old \in Seq(WriteRecords), NEW new, NEW W, NEW s, NEW seen, NEW k \in Nat, k # 0,
         Extended(new, old, W), WriteList(W, seen, s, k)
  PROVE  Cardinality(WrittenBy(k, new)) = Cardinality(WrittenBy(k, old)) + 1
<1> DEFINE n == Len(old)
<1>1. n \in Nat /\ DOMAIN old = 1 .. n
  BY LenProperties
<1>2. Len(W) \in Nat /\ Len(W) >= 1 /\ W[1].by = k /\ \A i \in 2 .. Len(W) : W[i].by # k
  BY DEF WriteList
<1>3. /\ \A i \in 1 .. n : i \in DOMAIN new /\ new[i] = old[i]
      /\ n + 1 \in DOMAIN new /\ new[n + 1].by = k
  BY <1>1, <1>2 DEF Extended
<1>4. ASSUME NEW i \in DOMAIN new, new[i].by = k
      PROVE  i \in 1 .. n \/ i = n + 1
  <2>1. i \in 1 .. n \/ \E j \in 1 .. Len(W) : i = n + j
    BY DEF Extended
  <2>2. ASSUME NEW j \in 1 .. Len(W), i = n + j PROVE j = 1
    <3>1. new[i] = W[j]
      BY <2>2 DEF Extended
    <3>2. j \notin 2 .. Len(W)
      BY <1>2, <1>4, <3>1
    <3> QED BY <1>2, <3>2
  <2> QED BY <2>1, <2>2
<1>5. WrittenBy(k, new) = WrittenBy(k, old) \cup {n + 1}
  BY <1>1, <1>3, <1>4 DEF WrittenBy
<1>6. n + 1 \notin WrittenBy(k, old)
  BY <1>1 DEF WrittenBy
<1>7. IsFiniteSet(WrittenBy(k, old))
  BY <1>1, WrittenByFacts
<1> QED BY <1>5, <1>6, <1>7, FS_AddElement

LEMMA AtomicExecute ==
  ASSUME BaseInv, AtomicInv, NEW k \in DOMAIN commands, Execute(k)
  PROVE  AtomicInv'
<1>1. TypeOK /\ UnitsOK /\ LoneUnits /\ UnitsStay
  BY ExecuteBase DEF BaseInv
<1>2. InUnit(k) /\ commands[k].phase = "statements" /\ Advances(k) /\ UNCHANGED unit
  BY <1>1, ExecuteStep
<1>3. PICK c, s, W : c = CursorOf(k) /\ Executed(k, c, s, W)
  BY <1>1, ExecuteStep
<1>4. PICK d : /\ MovesTo(k, d) /\ CommandOK(d) /\ SameCommand(d, commands[k])
               /\ d.phase \in {"statements", "commit"}
               /\ d.failed = commands[k].failed
               /\ Len(d.todo) \in Nat /\ Len(commands[k].todo) = Len(d.todo) + 1
  BY <1>1, <1>2, AdvanceMoves
<1>5. commands'[k] = d
  BY <1>1, <1>4, CommandsTyped
<1>6. Unit(k)' = Unit(k) /\ d.shared = commands[k].shared /\ d.kept = commands[k].kept
      /\ d.planned = commands[k].planned
  BY <1>2, <1>4, <1>5 DEF Unit, SameCommand
<1>7. ASSUME Lone(k)' PROVE LoneProgress(k)'
  <2>1. Lone(k)
    BY <1>2, <1>5, <1>6, <1>7 DEF Lone
  <2>2. LET x == connections[Unit(k).connection] IN
        /\ x.open /\ ~x.aborted /\ ~Unit(k).committed /\ ~commands[k].failed
        /\ commands[k].kept = 0
        /\ Done(k) + Len(commands[k].todo) = commands[k].planned
    BY <1>2, <2>1 DEF AtomicInv, LoneProgress
  <2>3. c = Unit(k).connection
    BY <1>1, <1>3, <2>1, LoneCursor
  <2> DEFINE old == connections[c].writes
             new == connections'[c].writes
  <2>4. /\ Extended(new, old, W) /\ WriteList(W, View(c), s, k)
        /\ connections'[c].open = connections[c].open
        /\ connections'[c].aborted = connections[c].aborted
        /\ c \in DOMAIN connections
    BY <1>3, <2>3 DEF Executed
  <2>5. k \in Nat /\ k # 0 /\ old \in Seq(WriteRecords) /\ Len(old) \in Nat
        /\ DOMAIN old = 1 .. Len(old)
    BY <1>1, <2>4, SequenceFacts DEF ConnectionState
  <2> HIDE DEF old, new
  <2>6. Cardinality(WrittenBy(k, new)) = Cardinality(WrittenBy(k, old)) + 1
        /\ Cardinality(WrittenBy(k, old)) \in Nat
    BY <2>4, <2>5, OneMoreWritten, WrittenByFacts
  <2>7. Done(k)' = Done(k) + 1 /\ Done(k) \in Nat
    BY <1>6, <2>3, <2>6 DEF Done, old, new
  <2>8. Done(k)' + Len(d.todo) = commands[k].planned
    BY <1>4, <2>2, <2>7
  <2> QED BY <1>4, <1>5, <1>6, <2>2, <2>3, <2>4, <2>8 DEF LoneProgress
<1>8. \A j \in DOMAIN commands : j # k /\ Lone(j) =>
        connections'[Unit(j).connection] = connections[Unit(j).connection]
  BY OthersLeftAlone
<1>9. d.phase # "ended"
  BY <1>4
<1> QED BY <1>1, <1>2, <1>4, <1>7, <1>8, <1>9, AtomicMoves

\* A commit keeps what its own command wrote and nothing of another lone unit.
LEMMA AtomicCommit ==
  ASSUME BaseInv, AtomicInv, NEW k \in DOMAIN commands,
         NEW a \in BOOLEAN, Persist(k, a)
  PROVE  AtomicInv'
<1>1. TypeOK /\ UnitsOK /\ LoneUnits /\ WritesOwned /\ UnitsStay
  BY CommitBase DEF BaseInv
<1>2. PICK c :
        /\ c = Unit(k).connection /\ InUnit(k) /\ commands[k].phase = "commit"
        /\ c \in DOMAIN connections
        /\ \A e \in DOMAIN connections :
             connections'[e] = IF e = c THEN Afterwards(a) ELSE connections[e]
        /\ \A p \in Processes :
             /\ unit'[p].connection = unit[p].connection
             /\ unit'[p].committed = (unit[p].committed \/ (a /\ p = commands[k].process))
        /\ \A j \in DOMAIN commands :
             CommandOK(commands'[j]) /\ Committed(k, a, j, connections[c].writes)
  BY CommitStep
<1> DEFINE writes == connections[c].writes
<1>3. Len(writes) \in Nat /\ DOMAIN writes = 1 .. Len(writes)
  BY <1>1, <1>2, SequenceFacts
<1>4. ASSUME NEW j \in DOMAIN commands, j # k, ~commands[j].shared
      PROVE  commands'[j].kept = commands[j].kept
  <2>1. ASSUME NEW i \in DOMAIN writes, writes[i].by = j PROVE FALSE
    <3>1. j # 0
      BY <1>1, SequenceFacts
    <3>2. InUnit(j) /\ c = Unit(j).connection
      BY <1>1, <1>2, <1>4, <2>1, <3>1 DEF WritesOwned
    <3>3. Lone(j)
      BY <1>4, <3>2 DEF Lone
    <3>4. InUnit(k) /\ c = Unit(k).connection
      BY <1>2
    <3>5. Unit(k).connection # Unit(j).connection
      BY <1>1, <1>4, <3>3, <3>4, Apart
    <3> QED BY <3>2, <3>4, <3>5
  <2>2. WrittenBy(j, writes) = {}
    BY <2>1 DEF WrittenBy
  <2>3. Cardinality(WrittenBy(j, writes)) = 0
    BY <1>3, <2>2, WrittenByFacts
  <2>4. commands[j].kept \in Nat
    BY <1>1, SequenceFacts DEF CommandState
  <2>5. commands'[j].kept = commands[j].kept + Cardinality(WrittenBy(j, writes))
    BY <1>2 DEF Committed
  <2> QED BY <2>3, <2>4, <2>5
<1>5. ASSUME NEW j \in DOMAIN commands, j # k, Lone(j)
      PROVE  /\ connections'[Unit(j).connection] = connections[Unit(j).connection]
             /\ unit'[commands[j].process].committed = unit[commands[j].process].committed
  <2>1. commands[j].process # commands[k].process /\ commands[j].process \in Processes
    BY <1>1, <1>2, <1>5, Apart, CursorFacts DEF Lone
  <2>2. connections'[Unit(j).connection] = connections[Unit(j).connection]
    BY <1>5, OthersLeftAlone
  <2>3. unit[commands[j].process].committed \in BOOLEAN
    BY <1>1, <2>1 DEF TypeOK
  <2> QED BY <1>2, <2>1, <2>2, <2>3
<1>6. ASSUME Lone(k)' PROVE LoneProgress(k)'
  <2>1. Committed(k, a, k, writes)
    BY <1>2
  <2>2. Lone(k)
    BY <1>2, <1>6, <2>1 DEF Lone, Committed
  <2>3. /\ ~commands[k].failed /\ commands[k].kept = 0
        /\ Done(k) + Len(commands[k].todo) = commands[k].planned
    BY <1>2, <2>2 DEF AtomicInv, LoneProgress
  <2>4. commands[k].todo = <<>> /\ commands[k].process \in Processes
    BY <1>1, <1>2, SequenceFacts, CursorFacts DEF CommandOK, PhaseOK
  <2>5. Done(k) = Cardinality(WrittenBy(k, writes)) /\ Done(k) \in Nat
    BY <1>2, <1>3, WrittenByFacts DEF Done
  <2>6. Done(k) = commands[k].planned
    <3>1. Len(commands[k].todo) = 0
      BY <2>4, EmptySeq
    <3> QED BY <2>3, <2>5, <3>1
  <2>7. /\ commands'[k].phase = "exit" /\ commands'[k].failed = ~a
        /\ ~a => commands'[k].unanswered
        /\ commands'[k].kept = commands[k].kept + Cardinality(WrittenBy(k, writes))
        /\ commands'[k].planned = commands[k].planned
        /\ commands'[k].process = commands[k].process
    BY <2>1, <2>3 DEF Committed
  <2>8. Unit(k)'.committed = a
    <3>1. ~Unit(k).committed
      BY <1>2, <2>2 DEF AtomicInv, LoneProgress
    <3> QED BY <1>2, <2>4, <2>7, <3>1 DEF Unit
  <2>9. commands'[k].kept = commands'[k].planned
    <3>1. commands'[k].kept = 0 + Done(k)
      BY <2>3, <2>5, <2>7
    <3>2. 0 + Done(k) = Done(k)
      BY <2>5
    <3> QED BY <2>6, <2>7, <3>1, <3>2
  <2> QED BY <2>3, <2>7, <2>8, <2>9 DEF LoneProgress
<1>7. commands'[k].phase = "exit"
  BY <1>2 DEF Committed
<1>8. ASSUME NEW j \in DOMAIN commands, j # k
      PROVE
        /\ commands'[j].phase = commands[j].phase /\ commands'[j].failed = commands[j].failed
        /\ commands'[j].planned = commands[j].planned /\ commands'[j].todo = commands[j].todo
        /\ commands'[j].outcome = commands[j].outcome
        /\ commands'[j].unanswered = commands[j].unanswered
  <2>1. Committed(k, a, j, writes)
    BY <1>2
  <2>2. commands[j].failed \in BOOLEAN /\ commands[j].unanswered \in BOOLEAN
    BY <1>1, SequenceFacts DEF CommandState
  <2> QED BY <1>8, <2>1, <2>2 DEF Committed
<1> QED BY <1>1, <1>4, <1>5, <1>6, <1>7, <1>8, AtomicFrame

LEMMA AtomicExit ==
  ASSUME BaseInv, AtomicInv, NEW k \in DOMAIN commands, Exit(k)
  PROVE  AtomicInv'
<1>1. TypeOK /\ UnitsOK /\ LoneUnits /\ UnitsStay
  BY ExitBase DEF BaseInv
<1>2. commands[k].phase = "exit" /\ InUnit(k) /\ UNCHANGED unit
      /\ connections' = [connections EXCEPT ![Unit(k).connection] = Closed]
  BY DEF Exit, InUnit
<1>3. PICK d : /\ MovesTo(k, d) /\ CommandOK(d) /\ d.phase = "ended"
               /\ d.kept = commands[k].kept /\ d.planned = commands[k].planned
               /\ d.shared = commands[k].shared /\ d.unanswered = commands[k].unanswered
               /\ d.outcome = IF commands[k].failed
                                 \/ (~Unit(k).committed /\ ~Live(Unit(k).connection))
                              THEN "raised" ELSE "returned"
  BY <1>1, ExitMoves
<1>4. ~ Lone(k)'
  <2>1. commands'[k].phase = "ended"
    BY <1>1, <1>3, CommandsTyped
  <2> QED BY <2>1 DEF Lone, InUnit
<1>5. ASSUME ~d.shared PROVE AllOrNothing(d)
  <2>1. Lone(k)
    BY <1>2, <1>3, <1>5 DEF Lone
  <2>2. IF commands[k].failed
        THEN \/ commands[k].kept = 0
             \/ commands[k].unanswered /\ commands[k].kept = commands[k].planned
        ELSE commands[k].kept = commands[k].planned /\ Unit(k).committed
    BY <1>2, <2>1 DEF AtomicInv, LoneProgress
  <2> QED BY <1>3, <2>2 DEF AllOrNothing
<1>6. \A j \in DOMAIN commands : j # k /\ Lone(j) =>
        connections'[Unit(j).connection] = connections[Unit(j).connection]
  BY OthersLeftAlone
<1> QED BY <1>1, <1>2, <1>3, <1>4, <1>5, <1>6, AtomicMoves

\* A unit of work begins with all of its statements to do.
LEMMA AtomicEnter ==
  ASSUME BaseInv, AtomicInv, NEW k \in DOMAIN commands, Enter(k)
  PROVE  AtomicInv'
<1> DEFINE p == commands[k].process
           n == Len(connections)
<1>1. TypeOK /\ UnitsOK
  BY DEF BaseInv
<1>2. /\ commands[k].phase = "enter" /\ p \in Processes
      /\ connections'[n + 1] = NewConnection
      /\ \A e \in DOMAIN connections :
           e # Unit(k).connection => connections'[e] = connections[e]
      /\ \A q \in Processes :
           unit'[q] = IF q = p THEN [connection |-> n + 1, committed |-> FALSE] ELSE unit[q]
      /\ DOMAIN commands' = DOMAIN commands
      /\ \A j \in DOMAIN commands : CommandOK(commands'[j]) /\ Entered(k, j)
  BY EnterStep
<1>3. \A j \in DOMAIN commands : commands'[j].process = commands[j].process
  BY <1>2 DEF Entered
<1>4. ASSUME Lone(k)' PROVE LoneProgress(k)'
  <2>1. /\ commands[k].kept = 0 /\ ~commands[k].failed
        /\ commands[k].planned = Len(commands[k].todo) /\ commands[k].planned \in Nat
    BY <1>1, <1>2, SequenceFacts DEF CommandOK, PhaseOK, Fresh, CommandState
  <2>2. /\ commands'[k].phase = "statements" /\ commands'[k].kept = commands[k].kept
        /\ commands'[k].failed = commands[k].failed /\ commands'[k].todo = commands[k].todo
        /\ commands'[k].planned = commands[k].planned
    BY <1>2 DEF Entered
  <2>3. Unit(k)' = [connection |-> n + 1, committed |-> FALSE]
    BY <1>2, <1>3 DEF Unit
  <2>4. connections'[Unit(k)'.connection] = NewConnection
    BY <1>2, <2>3
  <2>5. Done(k)' = 0
    <3>1. WrittenBy(k, <<>>) = {}
      BY EmptySet DEF WrittenBy
    <3> QED BY <2>4, <3>1, ConnectionTypes, FS_EmptySet DEF Done
  <2>6. 0 + Len(commands[k].todo) = commands[k].planned
    BY <2>1
  <2> QED BY <2>1, <2>2, <2>3, <2>4, <2>5, <2>6 DEF LoneProgress, NewConnection
<1>5. ASSUME NEW j \in DOMAIN commands, j # k, Lone(j)' PROVE LoneProgress(j)'
  <2>1. InUnit(j) /\ commands'[j].phase = commands[j].phase
    BY <1>2, <1>5, InUnitPhase DEF Lone, Entered
  <2>2. commands[j].process # p /\ commands'[j].shared = commands[j].shared
    BY <1>2, <1>5, <2>1 DEF Lone, Entered, p
  <2>3. Lone(j) /\ commands[j].process \in Processes /\ Unit(j).connection \in DOMAIN connections
    BY <1>1, <1>5, <2>1, <2>2, CursorFacts DEF Lone
  <2>4. Unit(j).connection # Unit(k).connection
    BY <1>1, <1>2, <2>1, <2>2, <2>3 DEF UnitsOK, Unit
  <2>5. connections'[Unit(j).connection] = connections[Unit(j).connection]
    BY <1>2, <2>3, <2>4
  <2>6. Unit(j)' = Unit(j)
    BY <1>2, <1>3, <2>2, <2>3 DEF Unit
  <2>7. LoneProgress(j)
    BY <2>3 DEF AtomicInv
  <2>8. /\ commands'[j].failed = commands[j].failed
        /\ commands'[j].unanswered = commands[j].unanswered
        /\ commands'[j].kept = commands[j].kept /\ commands'[j].planned = commands[j].planned
        /\ commands'[j].todo = commands[j].todo
    BY <1>2 DEF Entered
  <2> QED BY <2>1, <2>5, <2>6, <2>7, <2>8, ProgressKept
<1>6. ASSUME NEW j \in DOMAIN commands, commands'[j].phase = "ended", ~commands'[j].shared
      PROVE  AllOrNothing(commands'[j])
  <2>1. Entered(k, j)
    BY <1>2
  <2>2. j # k /\ commands[j].phase = "ended" /\ ~commands[j].shared
    BY <1>6, <2>1 DEF Entered
  <2>3. AllOrNothing(commands[j])
    BY <2>2 DEF AtomicInv
  <2> QED BY <2>1, <2>3 DEF AllOrNothing, Entered
<1> QED BY <1>2, <1>4, <1>5, <1>6 DEF AtomicInv

LEMMA AtomicStart ==
  ASSUME BaseInv, AtomicInv, Start
  PROVE  AtomicInv'
<1>1. PICK d :
        /\ Reached(d) /\ d.phase \in ReadingPhases /\ Untouched
        /\ \A j \in DOMAIN commands : commands'[j] = commands[j]
        /\ \A j \in DOMAIN commands' : j \in DOMAIN commands \/ commands'[j] = d
  BY StartFacts
<1>2. d.phase \notin UnitPhases \cup {"ended"}
  BY <1>1 DEF ReadingPhases, UnitPhases
<1>3. ASSUME NEW j \in DOMAIN commands', Lone(j)' PROVE LoneProgress(j)'
  <2>1. j \in DOMAIN commands /\ commands'[j] = commands[j]
    BY <1>1, <1>2, <1>3, InUnitPhase DEF Lone
  <2>2. Lone(j) /\ Unit(j)' = Unit(j) /\ UNCHANGED connections
    BY <1>1, <1>3, <2>1 DEF Lone, InUnit, Unit, Untouched
  <2> QED BY <2>1, <2>2, ProgressKept DEF AtomicInv
<1>4. ASSUME NEW j \in DOMAIN commands', commands'[j].phase = "ended", ~commands'[j].shared
      PROVE  AllOrNothing(commands'[j])
  <2>1. j \in DOMAIN commands /\ commands'[j] = commands[j]
    BY <1>1, <1>2, <1>4
  <2> QED BY <1>4, <2>1 DEF AtomicInv
<1> QED BY <1>3, <1>4 DEF AtomicInv

LEMMA AtomicStep ==
  ASSUME BaseInv, AtomicInv, [Next]_vars
  PROVE  AtomicInv'
<1>1. CASE Start
  BY <1>1, AtomicStart
<1>2. ASSUME NEW k \in DOMAIN commands, Step(k) PROVE AtomicInv'
  <2>1. CASE ReadOnly(k) \/ WritePackage(k)
    BY <2>1, AtomicOutside
  <2>2. CASE Enter(k)
    BY <2>2, AtomicEnter
  <2>3. CASE Wait(k)
    BY <2>3, AtomicWait
  <2>4. CASE Execute(k)
    BY <2>4, AtomicExecute
  <2>5. CASE RowMissing(k) \/ StatementFails(k) \/ CommitFails(k)
    BY <2>5, AtomicRaise
  <2>6. CASE Commit(k) \/ CommitUnanswered(k)
    BY <2>6, AtomicCommit DEF Commit, CommitUnanswered
  <2>7. CASE Exit(k)
    BY <2>7, AtomicExit
  <2> QED BY <1>2, <2>1, <2>2, <2>3, <2>4, <2>5, <2>6, <2>7 DEF Step, ReadOnly
<1>3. CASE UNCHANGED vars
  BY <1>3 DEF vars, AtomicInv, Lone, InUnit, LoneProgress, Done, Unit
<1> QED BY <1>1, <1>2, <1>3 DEF Next

(***************************************************************************)
(* A unit of work that no other thread of its process enters commits every *)
(* statement of a command that returns; of one that raises, none, or again *)
(* every one when it is the answer to COMMIT that was lost                 *)
(* (unit_of_work.py), under lock waits, missing rows, failing statements   *)
(* and failing commits, whatever the other processes do.  The invariant    *)
(* counts: what the transaction holds of the command and what it still has *)
(* to execute are together what was planned, and none of it is committed   *)
(* before COMMIT.                                                          *)
(***************************************************************************)
THEOREM LoneUnitsAtomic == Spec => []LoneUnitIsAtomic
<1>1. Init => BaseInv /\ AtomicInv
  BY BaseInit, InitFacts DEF AtomicInv
<1>2. BaseInv /\ AtomicInv /\ [Next]_vars => BaseInv' /\ AtomicInv'
  BY BaseStep, AtomicStep
<1>3. BaseInv /\ AtomicInv => LoneUnitIsAtomic
  <2> SUFFICES ASSUME BaseInv, AtomicInv, NEW k \in DOMAIN commands, ~commands[k].shared
               PROVE  AllOrNothing(commands[k])
    BY DEF LoneUnitIsAtomic
  <2>1. CASE commands[k].phase = "ended"
    BY <2>1 DEF AtomicInv
  <2>2. CASE commands[k].phase # "ended"
    <3>1. commands[k].outcome = "running"
      BY <2>2, SequenceFacts DEF BaseInv, CommandOK, Called
    <3> QED BY <3>1 DEF AllOrNothing
  <2> QED BY <2>1, <2>2
<1> QED BY <1>1, <1>2, <1>3, PTL DEF Spec

-----------------------------------------------------------------------------
(* Only stale copies and shared units of work harm                         *)

LEMMA StatementFields ==
  \A x, v : Statement(x, v).row = x /\ Statement(x, v).value = v
BY DEF Statement

\* What a command has been asked and has read.
SamePlan(d, c) ==
  /\ d.kind = c.kind /\ d.route = c.route /\ d.truck = c.truck
  /\ d.packages = c.packages /\ d.copy = c.copy /\ d.planned = c.planned

LEMMA PlanSame ==
  ASSUME NEW c, NEW d, SamePlan(d, c)
  PROVE  /\ Plan(d) = Plan(c)
         /\ Decided(c) /\ d.phase = c.phase /\ d.todo = c.todo => Decided(d)
         /\ Decided(c) /\ c.phase \in {"enter"} \cup UnitPhases /\ d.phase \in UnitPhases
              => Decided(d)
<1>1. Plan(d) = Plan(c)
  BY DEF SamePlan, Plan
<1>2. ASSUME Decided(c), d.phase = c.phase, d.todo = c.todo PROVE Decided(d)
  BY <1>1, <1>2 DEF SamePlan, Decided, LoadAllows
<1>3. ASSUME Decided(c), c.phase \in {"enter"} \cup UnitPhases, d.phase \in UnitPhases
      PROVE  Decided(d)
  <2>1. d.phase \notin {"write package", "enter"}
    BY <1>3 DEF UnitPhases
  <2> QED BY <1>3, <2>1 DEF SamePlan, Decided
<1> QED BY <1>1, <1>2, <1>3

LEMMA SamePlans ==
  ASSUME NEW c, NEW d
  PROVE  /\ SameCommand(d, c) => SamePlan(d, c)
         /\ \A v : d \in CommandState /\ SameCommand([d EXCEPT !.kept = v], c) => SamePlan(d, c)
         /\ \A v : d \in CommandState /\ SameCommand([d EXCEPT !.shared = v], c) => SamePlan(d, c)
         /\ d = c => SamePlan(d, c)
BY DEF SameCommand, SamePlan, CommandState

\* What the plan of a lone unit depends on.
LEMMA PlanKept ==
  ASSUME NEW j, LonePlan(j), SamePlan(commands'[j], commands[j]),
         commands[j].phase \in {"statements", "commit"}, commands'[j].todo = commands[j].todo,
         connections'[Unit(j)'.connection] = connections[Unit(j).connection]
  PROVE  LonePlan(j)'
<1>1. Plan(commands'[j]) = Plan(commands[j]) /\ commands'[j].kind = commands[j].kind
  BY PlanSame DEF SamePlan
<1>2. Plan(commands[j])' = Plan(commands'[j])
  OBVIOUS
<1> QED BY <1>1, <1>2 DEF LonePlan

LEMMA PlansFrame ==
  ASSUME BaseInv, PlansInv, UnitsStay, NEW k \in DOMAIN commands,
         \A j \in DOMAIN commands : j # k =>
           /\ SamePlan(commands'[j], commands[j])
           /\ commands'[j].phase = commands[j].phase /\ commands'[j].todo = commands[j].todo
           /\ Lone(j) => connections'[Unit(j).connection] = connections[Unit(j).connection],
         Decided(commands'[k]), Lone(k)' => LonePlan(k)'
  PROVE  PlansInv'
<1>1. TypeOK /\ DOMAIN commands' = DOMAIN commands
      /\ \A j \in DOMAIN commands : commands'[j].shared = commands[j].shared
  BY DEF BaseInv, UnitsStay, Continues
<1>2. ASSUME NEW j \in DOMAIN commands, j # k, Lone(j)' PROVE LonePlan(j)'
  <2>1. InUnit(j) /\ Unit(j)'.connection = Unit(j).connection
    BY <1>1, <1>2, UnitSame DEF Lone
  <2>2. Lone(j)
    BY <1>1, <1>2, <2>1 DEF Lone
  <2>3. CASE commands[j].phase \in {"statements", "commit"}
    BY <1>2, <2>1, <2>2, <2>3, PlanKept DEF PlansInv
  <2>4. CASE commands[j].phase \notin {"statements", "commit"}
    BY <1>2, <2>4 DEF LonePlan
  <2> QED BY <2>3, <2>4
<1>3. \A j \in DOMAIN commands : j # k => Decided(commands'[j])
  BY PlanSame DEF PlansInv
<1>4. \A j \in DOMAIN commands' : Decided(commands[j])'
  <2> SUFFICES ASSUME NEW j \in DOMAIN commands PROVE Decided(commands'[j])
    BY <1>1
  <2> QED BY <1>3
<1>5. \A j \in DOMAIN commands' : Lone(j)' => LonePlan(j)'
  BY <1>1, <1>2
<1> QED BY <1>4, <1>5 DEF PlansInv

LEMMA PlansMoves ==
  ASSUME BaseInv, PlansInv, UnitsStay, NEW k \in DOMAIN commands, NEW d, MovesTo(k, d),
         CommandOK(d), Decided(d), Lone(k)' => LonePlan(k)',
         \A j \in DOMAIN commands : j # k /\ Lone(j) =>
           connections'[Unit(j).connection] = connections[Unit(j).connection]
  PROVE  PlansInv'
<1>1. \A j \in DOMAIN commands : commands'[j] = IF j = k THEN d ELSE commands[j]
  BY CommandsTyped DEF BaseInv
<1>2. \A j \in DOMAIN commands : j # k => SamePlan(commands'[j], commands[j])
  BY <1>1, SamePlans
<1>3. Decided(commands'[k])
  BY <1>1
<1> QED BY <1>1, <1>2, <1>3, PlansFrame

LEMMA PlansOutside ==
  ASSUME BaseInv, PlansInv, NEW k \in DOMAIN commands, ReadOnly(k) \/ WritePackage(k)
  PROVE  PlansInv'
<1>1. TypeOK /\ UnitsStay
  BY OutsideStepBase DEF BaseInv
<1>2. UNCHANGED connections /\ \E d : MovesTo(k, d) /\ Reached(d)
  BY <1>1, ReadOnlyStep, WritePackageStep DEF Untouched
<1>3. PICK d : MovesTo(k, d) /\ Reached(d)
  BY <1>2
<1>4. commands'[k] = d /\ CommandOK(d) /\ Outside(d) /\ Decided(d)
  BY <1>1, <1>3, CommandsTyped DEF Reached
<1>5. ~ Lone(k)'
  BY <1>4, InUnitPhase DEF Lone, Outside, ReadingPhases, UnitPhases
<1> QED BY <1>1, <1>2, <1>3, <1>4, <1>5, PlansMoves

\* A step in the unit of work that executes no statement.
LEMMA PlansInside ==
  ASSUME BaseInv, PlansInv, NEW k \in DOMAIN commands,
         Wait(k) \/ RowMissing(k) \/ StatementFails(k) \/ CommitFails(k) \/ Exit(k)
  PROVE  PlansInv'
<1>1. TypeOK /\ UnitsOK /\ UnitsStay
  BY WaitBase, RaiseBase, ExitBase DEF BaseInv
<1>2. commands[k].phase \in UnitPhases /\ InUnit(k)
  BY DEF Wait, RowMissing, StatementFails, CommitFails, Exit, Executing, UnitPhases, InUnit
<1>3. \A j \in DOMAIN commands : j # k /\ Lone(j) =>
        connections'[Unit(j).connection] = connections[Unit(j).connection]
  BY OthersLeftAlone
<1>4. Decided(commands[k])
  BY DEF PlansInv
<1>5. CASE Wait(k)
  <2>1. CursorOf(k) \in Nat /\ commands[k].phase = "statements" /\ UNCHANGED <<connections, unit>>
    BY <1>1, <1>2, <1>5, CursorFacts, SequenceFacts DEF Wait, Executing, Untouched
  <2>2. PICK d : /\ MovesTo(k, d) /\ CommandOK(d) /\ SameCommand(d, commands[k])
                 /\ d.phase = "statements" /\ d.todo = commands[k].todo
    BY <1>1, <1>5, <2>1, WaitMoves
  <2>3. commands'[k] = d /\ SamePlan(d, commands[k]) /\ d.process = commands[k].process
        /\ d.shared = commands[k].shared
    BY <1>1, <2>2, CommandsTyped, SamePlans DEF SameCommand
  <2>4. Decided(d)
    BY <1>4, <2>1, <2>2, <2>3, PlanSame
  <2>5. ASSUME Lone(k)' PROVE LonePlan(k)'
    <3>1. Lone(k) /\ Unit(k)' = Unit(k)
      BY <1>2, <2>1, <2>3, <2>5 DEF Lone, Unit
    <3>2. LonePlan(k)
      BY <3>1 DEF PlansInv
    <3> QED BY <2>1, <2>2, <2>3, <3>1, <3>2, PlanKept
  <2> QED BY <1>1, <1>3, <2>2, <2>4, <2>5, PlansMoves
<1>6. CASE RowMissing(k) \/ StatementFails(k) \/ CommitFails(k)
  <2>1. Raise(k)
    BY <1>6, RaiseBase
  <2>2. PICK d : /\ MovesTo(k, d) /\ CommandOK(d) /\ SameCommand(d, commands[k])
                 /\ d.phase = "exit"
    BY <1>1, <1>2, <2>1, RaiseMoves
  <2>3. commands'[k] = d /\ SamePlan(d, commands[k])
    BY <1>1, <2>2, CommandsTyped, SamePlans
  <2>4. Decided(d)
    BY <1>2, <1>4, <2>2, <2>3, PlanSame DEF UnitPhases
  <2>5. LonePlan(k)'
    BY <2>2, <2>3 DEF LonePlan
  <2> QED BY <1>1, <1>3, <2>2, <2>4, <2>5, PlansMoves
<1>7. CASE Exit(k)
  <2>1. PICK d : MovesTo(k, d) /\ CommandOK(d) /\ d.phase = "ended"
    BY <1>1, <1>7, ExitMoves
  <2>2. commands'[k] = d
    BY <1>1, <2>1, CommandsTyped
  <2>3. Decided(d) /\ LonePlan(k)'
    BY <2>1, <2>2 DEF Decided, UnitPhases, LonePlan
  <2> QED BY <1>1, <1>3, <2>1, <2>3, PlansMoves
<1> QED BY <1>5, <1>6, <1>7

\* What a statement writes is of the plan, or a package of a removed route.
LEMMA PlansExecute ==
  ASSUME BaseInv, PlansInv, NEW k \in DOMAIN commands, Execute(k)
  PROVE  PlansInv'
<1>1. TypeOK /\ UnitsOK /\ LoneUnits /\ UnitsStay
  BY ExecuteBase DEF BaseInv
<1>2. InUnit(k) /\ commands[k].phase = "statements" /\ Advances(k) /\ UNCHANGED unit
  BY <1>1, ExecuteStep
<1>3. PICK c, s, W : c = CursorOf(k) /\ Executed(k, c, s, W)
  BY <1>1, ExecuteStep
<1> DEFINE b == commands[k]
<1>4. PICK d : /\ MovesTo(k, d) /\ CommandOK(d) /\ SameCommand(d, b)
               /\ d.phase \in {"statements", "commit"} /\ d.todo \in Seq(Statements)
               /\ Len(d.todo) \in Nat /\ Len(b.todo) = Len(d.todo) + 1
               /\ \A i \in 1 .. Len(d.todo) : d.todo[i] = b.todo[i + 1]
  BY <1>1, <1>2, AdvanceMoves
<1>5. commands'[k] = d /\ SamePlan(d, b) /\ d.process = b.process /\ d.shared = b.shared
  BY <1>1, <1>4, CommandsTyped, SamePlans DEF SameCommand
<1>6. Plan(d) = Plan(b) /\ d.kind = b.kind
  BY <1>5, PlanSame DEF SamePlan
<1>7. Decided(b)
  BY DEF PlansInv
<1>8. Decided(d)
  BY <1>2, <1>4, <1>5, <1>7, PlanSame DEF UnitPhases
<1>9. ASSUME Lone(k)' PROVE LonePlan(k)'
  <2>1. Lone(k) /\ Unit(k)' = Unit(k)
    BY <1>2, <1>5, <1>9 DEF Lone, Unit
  <2>2. c = Unit(k).connection
    BY <1>1, <1>3, <2>1, LoneCursor
  <2> DEFINE old == connections[c].writes
             new == connections'[c].writes
             planned(w) == \/ Statement(w.row, w.value) \in Plan(b)
                           \/ /\ b.kind = "remove route"
                              /\ Statement(w.row, w.value) \in {Statement(p, None) : p \in Packages}
  <2>3. /\ Extended(new, old, W) /\ WriteList(W, View(c), s, k) /\ s \in Statements
        /\ c \in DOMAIN connections /\ b.todo[1] = s
    BY <1>3, <2>2 DEF Executed
  <2>4. b \in CommandState /\ b.todo \in Seq(Statements) /\ b.kind \in UnitKinds /\ Called(b)
        /\ old \in Seq(WriteRecords) /\ Len(old) \in Nat /\ DOMAIN old = 1 .. Len(old)
    <3>1. b \in CommandState /\ CommandOK(b) /\ connections[c] \in ConnectionState
          /\ Len(old) \in Nat /\ DOMAIN old = 1 .. Len(old)
      BY <1>1, <2>3, SequenceFacts
    <3> QED BY <1>2, <3>1 DEF CommandState, ConnectionState, CommandOK, PhaseOK, UnitPhases
  <2>5. /\ ToSet(b.todo) \subseteq Plan(b)
        /\ \A i \in DOMAIN old : planned(old[i])
        /\ \A x \in Plan(b) :
             x \in ToSet(b.todo) \/ \E i \in DOMAIN old : Statement(old[i].row, old[i].value) = x
    BY <1>2, <2>1, <2>2 DEF PlansInv, LonePlan
  <2>6. /\ \A x \in ToSet(d.todo) : x \in ToSet(b.todo)
        /\ \A x \in ToSet(b.todo) : x = s \/ x \in ToSet(d.todo)
        /\ s \in ToSet(b.todo)
    <3>1. DOMAIN b.todo = 1 .. Len(b.todo) /\ DOMAIN d.todo = 1 .. Len(d.todo)
      BY <1>4, <2>4, LenProperties
    <3>2. \A i \in 1 .. Len(d.todo) : i + 1 \in 1 .. Len(b.todo)
      BY <1>4
    <3>3. \A i \in 1 .. Len(b.todo) : i = 1 \/ (i - 1 \in 1 .. Len(d.todo) /\ i - 1 + 1 = i)
      BY <1>4
    <3>4. 1 \in 1 .. Len(b.todo)
      BY <1>4
    <3>5. ASSUME NEW i \in 1 .. Len(b.todo), i # 1 PROVE b.todo[i] \in ToSet(d.todo)
      <4>1. PICK m \in 1 .. Len(d.todo) : m + 1 = i
        BY <3>3, <3>5
      <4>2. d.todo[m] = b.todo[i]
        BY <1>4, <4>1
      <4> QED BY <3>1, <4>2 DEF ToSet
    <3>6. \A i \in 1 .. Len(d.todo) : d.todo[i] \in ToSet(b.todo)
      BY <1>4, <3>1, <3>2 DEF ToSet
    <3>7. s \in ToSet(b.todo)
      BY <2>3, <3>1, <3>4 DEF ToSet
    <3>8. \A x \in ToSet(d.todo) : x \in ToSet(b.todo)
      BY <3>1, <3>6 DEF ToSet
    <3>9. \A x \in ToSet(b.todo) : x = s \/ x \in ToSet(d.todo)
      <4>1. \A x \in ToSet(b.todo) : \E i \in 1 .. Len(b.todo) : x = b.todo[i]
        BY <3>1 DEF ToSet
      <4> QED BY <2>3, <3>5, <4>1
    <3> QED BY <3>7, <3>8, <3>9
  <2>7. s \in Plan(b) /\ Statement(s.row, s.value) = s
    BY <2>3, <2>5, <2>6 DEF Statement, Statements
  <2>8. s.row \in Routes /\ s.value = Gone => b.kind = "remove route"
    <3> SUFFICES ASSUME s.row \in Routes, s.value = Gone, b.kind # "remove route" PROVE FALSE
      OBVIOUS
    <3> HIDE DEF old, new, planned
    <3>1. CASE b.kind = "assign truck"
      <4>1. s \in {Statement(b.route, b.truck), Statement(b.truck, "On the way")}
            /\ b.route \in Routes /\ b.truck \in Trucks
        BY <2>4, <2>7, <3>1 DEF Plan, Called, RouteKinds
      <4>2. CASE s = Statement(b.route, b.truck)
        <5>1. s.value = b.truck
          BY <4>2, StatementFields
        <5> QED BY <4>1, <5>1, DispatchDatabaseAssumption
      <4>3. CASE s = Statement(b.truck, "On the way")
        <5>1. s.row = b.truck
          BY <4>3, StatementFields
        <5> QED BY <4>1, <5>1, DispatchDatabaseAssumption
      <4> QED BY <4>1, <4>2, <4>3
    <3>2. CASE b.kind = "remove package"
      <4>1. s = Statement(Head(b.packages), Gone) /\ b.packages # <<>>
            /\ b.packages \in Seq(Packages)
        BY <2>4, <2>7, <3>2 DEF Plan, Called, CommandState
      <4>2. Head(b.packages) \in Packages
        BY <4>1, TailFacts
      <4>3. s.row = Head(b.packages)
        BY <4>1, StatementFields
      <4> QED BY <4>2, <4>3, DispatchDatabaseAssumption
    <3> QED BY <2>4, <3>1, <3>2 DEF UnitKinds
  <2>9. \A i \in DOMAIN new : planned(new[i])
    <3> SUFFICES ASSUME NEW i \in DOMAIN new PROVE planned(new[i])
      OBVIOUS
    <3>1. CASE i \in 1 .. Len(old)
      <4>1. new[i] = old[i]
        BY <2>3, <3>1 DEF Extended
      <4> HIDE DEF old, new, planned
      <4> QED BY <2>4, <2>5, <3>1, <4>1
    <3>2. ASSUME NEW j \in 1 .. Len(W), i = Len(old) + j PROVE planned(new[i])
      <4>1. new[i] = W[j]
        BY <2>3, <3>2 DEF Extended
      <4>2. CASE j = 1
        <5>1. W[1].row = s.row /\ W[1].value = s.value
          BY <2>3 DEF WriteList
        <5> QED BY <2>7, <4>1, <4>2, <5>1
      <4>3. CASE j # 1
        <5>1. j \in 2 .. Len(W)
          BY <2>3, <4>3 DEF WriteList
        <5>2. /\ s.row \in Routes /\ s.value = Gone
              /\ W[j].value = None /\ W[j].row \in Packages
          BY <2>3, <5>1 DEF WriteList, Load
        <5> QED BY <2>8, <4>1, <5>2
      <4> QED BY <4>2, <4>3
    <3>3. i \in 1 .. Len(old) \/ \E j \in 1 .. Len(W) : i = Len(old) + j
      BY <2>3 DEF Extended
    <3> QED BY <3>1, <3>2, <3>3
  <2>10. \A x \in Plan(b) :
           x \in ToSet(d.todo) \/ \E i \in DOMAIN new : Statement(new[i].row, new[i].value) = x
    <3> HIDE DEF old, new, planned
    <3>1. \A i \in DOMAIN old : i \in DOMAIN new /\ new[i] = old[i]
      BY <2>3, <2>4 DEF Extended
    <3>2. /\ Len(old) + 1 \in DOMAIN new /\ new[Len(old) + 1] = W[1]
          /\ W[1].row = s.row /\ W[1].value = s.value
      BY <2>3 DEF Extended, WriteList
    <3>3. Statement(new[Len(old) + 1].row, new[Len(old) + 1].value) = s
      BY <2>7, <3>2
    <3> QED BY <2>5, <2>6, <3>1, <3>2, <3>3
  <2>11. connections'[Unit(k)'.connection].writes = new
    BY <2>1, <2>2
  <2> HIDE DEF new, old
  <2> QED BY <1>5, <1>6, <2>5, <2>6, <2>9, <2>10, <2>11 DEF LonePlan
<1>10. \A j \in DOMAIN commands : j # k /\ Lone(j) =>
         connections'[Unit(j).connection] = connections[Unit(j).connection]
  BY OthersLeftAlone
<1> QED BY <1>1, <1>4, <1>8, <1>9, <1>10, PlansMoves

LEMMA PlansCommit ==
  ASSUME BaseInv, PlansInv, NEW k \in DOMAIN commands,
         NEW a \in BOOLEAN, Persist(k, a)
  PROVE  PlansInv'
<1>1. TypeOK /\ UnitsStay
  BY CommitBase DEF BaseInv
<1>2. PICK c : /\ commands[k].phase = "commit"
               /\ \A j \in DOMAIN commands :
                    CommandOK(commands'[j]) /\ Committed(k, a, j, connections[c].writes)
  BY CommitStep
<1>3. ASSUME NEW j \in DOMAIN commands
      PROVE  /\ SamePlan(commands'[j], commands[j])
             /\ commands'[j].phase = IF j = k THEN "exit" ELSE commands[j].phase
             /\ commands'[j].todo = commands[j].todo
  BY <1>2, SamePlans DEF Committed, CommandOK
<1>4. Decided(commands'[k])
  <2>1. Decided(commands[k])
    BY DEF PlansInv
  <2> QED BY <1>2, <1>3, <2>1, PlanSame DEF UnitPhases
<1>5. LonePlan(k)'
  BY <1>3 DEF LonePlan
<1>6. \A j \in DOMAIN commands : j # k /\ Lone(j) =>
        connections'[Unit(j).connection] = connections[Unit(j).connection]
  BY OthersLeftAlone
<1> QED BY <1>1, <1>3, <1>4, <1>5, <1>6, PlansFrame

\* A unit of work begins with its plan to do.
LEMMA PlansEnter ==
  ASSUME BaseInv, PlansInv, NEW k \in DOMAIN commands, Enter(k)
  PROVE  PlansInv'
<1> DEFINE p == commands[k].process
           n == Len(connections)
<1>1. TypeOK /\ UnitsOK
  BY DEF BaseInv
<1>2. /\ commands[k].phase = "enter" /\ p \in Processes
      /\ connections'[n + 1] = NewConnection
      /\ \A e \in DOMAIN connections :
           e # Unit(k).connection => connections'[e] = connections[e]
      /\ \A q \in Processes :
           unit'[q] = IF q = p THEN [connection |-> n + 1, committed |-> FALSE] ELSE unit[q]
      /\ DOMAIN commands' = DOMAIN commands
      /\ \A j \in DOMAIN commands : CommandOK(commands'[j]) /\ Entered(k, j)
  BY EnterStep
<1>3. ASSUME NEW j \in DOMAIN commands
      PROVE  /\ SamePlan(commands'[j], commands[j])
             /\ commands'[j].phase = IF j = k THEN "statements" ELSE commands[j].phase
             /\ commands'[j].todo = commands[j].todo
             /\ commands'[j].process = commands[j].process
  BY <1>2, SamePlans DEF Entered, CommandOK
<1>4. ASSUME NEW j \in DOMAIN commands PROVE Decided(commands'[j])
  <2>1. Decided(commands[j])
    BY DEF PlansInv
  <2> QED BY <1>2, <1>3, <2>1, PlanSame DEF UnitPhases
<1>5. LonePlan(k)'
  <2>1. Plan(commands'[k]) = Plan(commands[k]) /\ commands'[k].todo = commands[k].todo
    BY <1>3, PlanSame
  <2>2. ToSet(commands[k].todo) = Plan(commands[k])
    BY <1>2 DEF PlansInv, Decided
  <2>3. Unit(k)'.connection = n + 1
    BY <1>2, <1>3 DEF Unit
  <2>4. connections'[Unit(k)'.connection].writes = <<>>
    BY <1>2, <2>3, ConnectionTypes
  <2> QED BY <2>1, <2>2, <2>4, EmptySet DEF LonePlan
<1>6. ASSUME NEW j \in DOMAIN commands, j # k, Lone(j)' PROVE LonePlan(j)'
  <2>1. InUnit(j) /\ commands'[j].phase = commands[j].phase
    BY <1>3, <1>6, InUnitPhase DEF Lone
  <2>2. commands[j].process # p /\ commands'[j].shared = commands[j].shared
    BY <1>2, <1>6, <2>1 DEF Lone, Entered, p
  <2>3. Lone(j) /\ commands[j].process \in Processes /\ Unit(j).connection \in DOMAIN connections
    BY <1>1, <1>6, <2>1, <2>2, CursorFacts DEF Lone
  <2>4. Unit(j).connection # Unit(k).connection
    BY <1>1, <1>2, <2>1, <2>2, <2>3 DEF UnitsOK, Unit
  <2>5. connections'[Unit(j).connection] = connections[Unit(j).connection]
    BY <1>2, <2>3, <2>4
  <2>6. Unit(j)' = Unit(j)
    BY <1>2, <1>3, <2>2, <2>3 DEF Unit
  <2>7. LonePlan(j)
    BY <2>3 DEF PlansInv
  <2>8. CASE commands[j].phase \in {"statements", "commit"}
    BY <1>3, <2>5, <2>6, <2>7, <2>8, PlanKept
  <2>9. CASE commands[j].phase \notin {"statements", "commit"}
    BY <2>1, <2>9 DEF LonePlan
  <2> QED BY <2>8, <2>9
<1>7. \A j \in DOMAIN commands' : Decided(commands[j])'
  <2> SUFFICES ASSUME NEW j \in DOMAIN commands PROVE Decided(commands'[j])
    BY <1>2
  <2> QED BY <1>4
<1> QED BY <1>2, <1>5, <1>6, <1>7 DEF PlansInv

LEMMA PlansStart ==
  ASSUME BaseInv, PlansInv, Start
  PROVE  PlansInv'
<1>1. PICK d :
        /\ Reached(d) /\ d.phase \in ReadingPhases /\ Untouched
        /\ \A j \in DOMAIN commands : commands'[j] = commands[j]
        /\ \A j \in DOMAIN commands' : j \in DOMAIN commands \/ commands'[j] = d
  BY StartFacts
<1>2. d.phase \notin UnitPhases /\ Decided(d)
  BY <1>1 DEF ReadingPhases, UnitPhases, Reached
<1>3. ASSUME NEW j \in DOMAIN commands' PROVE Decided(commands'[j])
  BY <1>1, <1>2 DEF PlansInv
<1>4. ASSUME NEW j \in DOMAIN commands', Lone(j)' PROVE LonePlan(j)'
  <2>1. j \in DOMAIN commands /\ commands'[j] = commands[j]
    BY <1>1, <1>2, <1>4, InUnitPhase DEF Lone
  <2>2. Lone(j) /\ Unit(j)' = Unit(j) /\ UNCHANGED connections
    BY <1>1, <1>4, <2>1 DEF Lone, InUnit, Unit, Untouched
  <2> QED BY <2>1, <2>2, PlanKept, SamePlans DEF PlansInv, LonePlan
<1>5. \A j \in DOMAIN commands' : Decided(commands[j])'
  <2> SUFFICES ASSUME NEW j \in DOMAIN commands' PROVE Decided(commands'[j])
    OBVIOUS
  <2> QED BY <1>3
<1> QED BY <1>4, <1>5 DEF PlansInv

LEMMA PlansStep ==
  ASSUME BaseInv, PlansInv, [Next]_vars
  PROVE  PlansInv'
<1>1. CASE Start
  BY <1>1, PlansStart
<1>2. ASSUME NEW k \in DOMAIN commands, Step(k) PROVE PlansInv'
  <2>1. CASE ReadOnly(k) \/ WritePackage(k)
    BY <2>1, PlansOutside
  <2>2. CASE Enter(k)
    BY <2>2, PlansEnter
  <2>3. CASE Wait(k) \/ RowMissing(k) \/ StatementFails(k) \/ CommitFails(k) \/ Exit(k)
    BY <2>3, PlansInside
  <2>4. CASE Execute(k)
    BY <2>4, PlansExecute
  <2>5. CASE Commit(k) \/ CommitUnanswered(k)
    BY <2>5, PlansCommit DEF Commit, CommitUnanswered
  <2> QED BY <1>2, <2>1, <2>2, <2>3, <2>4, <2>5 DEF Step, ReadOnly
<1>3. CASE UNCHANGED vars
  <2>1. UNCHANGED <<connections, unit, commands>>
    BY <1>3 DEF vars
  <2>2. \A j \in DOMAIN commands' : Decided(commands[j])'
    <3> SUFFICES ASSUME NEW j \in DOMAIN commands PROVE Decided(commands[j])'
      BY <2>1
    <3>1. Decided(commands[j])' <=> Decided(commands'[j])
      OBVIOUS
    <3> QED BY <2>1, <3>1 DEF PlansInv
  <2>3. ASSUME NEW j \in DOMAIN commands', Lone(j)' PROVE LonePlan(j)'
    <3>1. j \in DOMAIN commands /\ Lone(j) /\ Unit(j)' = Unit(j)
      BY <2>1, <2>3 DEF Lone, InUnit, Unit
    <3>2. SamePlan(commands'[j], commands[j]) /\ commands'[j] = commands[j]
          /\ connections'[Unit(j)'.connection] = connections[Unit(j).connection]
      BY <2>1, <3>1 DEF SamePlan
    <3>3. LonePlan(j)
      BY <3>1 DEF PlansInv
    <3>4. CASE commands[j].phase \in {"statements", "commit"}
      BY <3>2, <3>3, <3>4, PlanKept
    <3>5. CASE commands[j].phase \notin {"statements", "commit"}
      BY <3>2, <3>5 DEF LonePlan
    <3> QED BY <3>4, <3>5
  <2> QED BY <2>2, <2>3 DEF PlansInv
<1> QED BY <1>1, <1>2, <1>3 DEF Next

\* Loads are finite.
LEMMA LoadFinite ==
  ASSUME NEW rows, NEW r
  PROVE  /\ Load(rows, r) \subseteq Packages /\ IsFiniteSet(Load(rows, r))
         /\ Cardinality(Load(rows, r)) \in Nat
<1>1. Load(rows, r) \subseteq Packages
  BY DEF Load
<1>2. IsFiniteSet(Packages)
  BY DispatchDatabaseAssumption
<1> QED BY <1>1, <1>2, FS_Subset, FS_CardinalityType

LEMMA SmallerLoad ==
  ASSUME NEW rows, NEW after, NEW r, Load(after, r) \subseteq Load(rows, r),
         Cardinality(Load(rows, r)) <= Capacity
  PROVE  Cardinality(Load(after, r)) <= Capacity
<1>1. Cardinality(Load(after, r)) <= Cardinality(Load(rows, r))
  BY LoadFinite, FS_Subset
<1>2. Capacity \in Nat
  BY DispatchDatabaseAssumption
<1> QED BY <1>1, <1>2, LoadFinite

\* Taking packages off routes, or away, leaves sound rows sound.
LEMMA UnloadedSound ==
  ASSUME NEW rows, NEW after, Sound(rows),
         \A x \in Routes \cup Trucks : after[x] = rows[x],
         \A p \in Packages : after[p] \in {rows[p], None, Gone}
  PROVE  Sound(after)
<1>1. \A r \in Routes : Load(after, r) \subseteq Load(rows, r)
  BY DispatchDatabaseAssumption DEF Load
<1>2. \A t \in Trucks : RouteOf(after, t) = RouteOf(rows, t)
  BY DEF RouteOf
<1>3. \A r \in Routes : after[r] \in Trucks => Cardinality(Load(after, r)) <= Capacity
  BY <1>1, SmallerLoad DEF Sound
<1> QED BY <1>2, <1>3 DEF Sound

\* Linking an unassigned package to a route with room on its truck.
LEMMA LinkedSound ==
  ASSUME NEW rows, NEW after, Sound(rows), NEW p \in Packages, NEW r \in Routes,
         rows[p] = None, after[p] = r, \A x \in Rows \ {p} : after[x] = rows[x],
         rows[r] \in Trucks => Cardinality(Load(rows, r)) < Capacity
  PROVE  Sound(after)
<1>1. /\ \A x \in Routes \cup Trucks : after[x] = rows[x]
      /\ \A q \in Packages : q # p => after[q] = rows[q]
  BY DispatchDatabaseAssumption DEF Rows
<1>2. \A t \in Trucks : RouteOf(after, t) = RouteOf(rows, t)
  BY <1>1 DEF RouteOf
<1>3. ASSUME NEW q \in Routes, after[q] \in Trucks
      PROVE  Cardinality(Load(after, q)) <= Capacity
  <2>1. CASE q = r
    <3>1. Load(after, r) = Load(rows, r) \cup {p} /\ p \notin Load(rows, r)
      BY <1>1, DispatchDatabaseAssumption DEF Load
    <3>2. Cardinality(Load(after, r)) = Cardinality(Load(rows, r)) + 1
      BY <3>1, LoadFinite, FS_AddElement
    <3>3. Cardinality(Load(rows, r)) < Capacity /\ Capacity \in Nat
      BY <1>1, <1>3, <2>1, DispatchDatabaseAssumption
    <3> QED BY <2>1, <3>2, <3>3, LoadFinite
  <2>2. CASE q # r
    <3>1. Load(after, q) \subseteq Load(rows, q)
      BY <1>1, <2>2 DEF Load
    <3> QED BY <1>1, <1>3, <3>1, SmallerLoad DEF Sound
  <2> QED BY <2>1, <2>2
<1> QED BY <1>1, <1>2, <1>3 DEF Sound

\* Giving a free truck to a route without one that it can carry.
LEMMA AssignedSound ==
  ASSUME NEW rows, NEW after, Sound(rows), NEW r \in Routes, NEW t \in Trucks,
         rows[r] = None, RouteOf(rows, t) = {}, Cardinality(Load(rows, r)) <= Capacity,
         after[r] = t, after[t] = "On the way", \A x \in Rows \ {r, t} : after[x] = rows[x]
  PROVE  Sound(after)
<1>1. /\ \A x \in Packages : after[x] = rows[x]
      /\ \A x \in Routes : x # r => after[x] = rows[x]
      /\ \A x \in Trucks : x # t => after[x] = rows[x]
  BY DispatchDatabaseAssumption DEF Rows
<1>2. ASSUME NEW q \in Routes, after[q] \in Trucks
      PROVE  Cardinality(Load(after, q)) <= Capacity
  <2>1. Load(after, q) = Load(rows, q)
    BY <1>1 DEF Load
  <2> QED BY <1>1, <1>2, <2>1 DEF Sound
<1>3. ASSUME NEW u \in Trucks PROVE after[u] = "On the way" <=> RouteOf(after, u) # {}
  <2>1. CASE u = t
    BY <2>1 DEF RouteOf
  <2>2. CASE u # t
    <3>1. RouteOf(after, u) = RouteOf(rows, u)
      BY <1>1, <2>2, DispatchDatabaseAssumption DEF RouteOf
    <3> QED BY <1>1, <2>2, <3>1 DEF Sound
  <2> QED BY <2>1, <2>2
<1> QED BY <1>2, <1>3 DEF Sound

\* Removing a route frees the truck that only it has.
LEMMA RemovedSound ==
  ASSUME NEW rows, NEW after, Sound(rows), TrucksUnique(rows), NEW r \in Routes,
         rows[r] \in Trucks \cup {None, Gone},
         after[r] = Gone, rows[r] \in Trucks => after[rows[r]] = "Free",
         \A x \in Routes \cup Trucks : x # r /\ x # rows[r] => after[x] = rows[x],
         \A p \in Packages : after[p] \in {rows[p], None}
  PROVE  Sound(after)
<1>1. \A q \in Routes : q # r => after[q] = rows[q]
  BY DispatchDatabaseAssumption
<1>2. \A q \in Routes : Load(after, q) \subseteq Load(rows, q)
  BY DispatchDatabaseAssumption DEF Load
<1>3. after[r] \notin Trucks
  BY DispatchDatabaseAssumption
<1>4. ASSUME NEW q \in Routes, after[q] \in Trucks
      PROVE  Cardinality(Load(after, q)) <= Capacity
  BY <1>1, <1>2, <1>3, <1>4, SmallerLoad DEF Sound
<1>5. ASSUME NEW t \in Trucks PROVE after[t] = "On the way" <=> RouteOf(after, t) # {}
  <2>1. CASE rows[r] = t
    <3>1. \A q \in Routes : q # r => rows[q] # t
      BY <2>1 DEF TrucksUnique
    <3>2. RouteOf(after, t) = {}
      BY <1>1, <1>3, <3>1 DEF RouteOf
    <3> QED BY <2>1, <3>2
  <2>2. CASE rows[r] # t
    <3>1. after[t] = rows[t]
      BY <2>2, DispatchDatabaseAssumption
    <3>2. RouteOf(after, t) = RouteOf(rows, t)
      BY <1>1, <1>3, <2>2 DEF RouteOf
    <3> QED BY <3>1, <3>2 DEF Sound
  <2> QED BY <2>1, <2>2
<1> QED BY <1>4, <1>5 DEF Sound

\* What the commit of a lone unit leaves in a row.
Planned(c, rows, after, x) ==
  \/ after[x] = rows[x] /\ \A s \in Plan(c) : s.row # x
  \/ \E s \in Plan(c) : s.row = x /\ s.value = after[x]
  \/ c.kind = "remove route" /\ x \in Packages /\ after[x] = None

LEMMA PlanCommitted ==
  ASSUME BaseInv, AtomicInv, PlansInv, NEW k \in DOMAIN commands,
         NEW a \in BOOLEAN, Persist(k, a),
         ~commands[k].shared, ~stale'
  PROVE  /\ CopyIsCurrent(db, commands[k])
         /\ \A x \in Rows : Planned(commands[k], db, db', x)
<1> DEFINE b == commands[k]
<1>1. TypeOK
  BY DEF BaseInv
<1>2. PICK c : /\ c = Unit(k).connection /\ InUnit(k) /\ b.phase = "commit"
               /\ c \in DOMAIN connections /\ db' = View(c)
  BY CommitStep
<1> DEFINE writes == connections[c].writes
<1>3. Len(writes) \in Nat /\ DOMAIN writes = 1 .. Len(writes)
  BY <1>1, <1>2, SequenceFacts
<1>4. b.todo = <<>> /\ b.planned # 0 /\ k # 0
  <2>1. k # 0 /\ CommandOK(b)
    BY <1>1, SequenceFacts
  <2>2. b.todo = <<>>
    BY <1>2, <2>1 DEF CommandOK, PhaseOK
  <2>3. Decided(b)
    BY DEF PlansInv
  <2>4. b.planned # 0
    BY <1>2, <2>3 DEF Decided, UnitPhases
  <2> QED BY <2>1, <2>2, <2>4
<1>5. Lone(k)
  BY <1>2 DEF Lone
<1>6. PICK i \in DOMAIN writes : writes[i].by = k
  <2>1. Done(k) + Len(b.todo) = b.planned
    BY <1>2, <1>5 DEF AtomicInv, LoneProgress
  <2>2. Done(k) = Cardinality(WrittenBy(k, writes)) /\ Done(k) \in Nat
    BY <1>2, <1>3, WrittenByFacts DEF Done
  <2>3. Len(b.todo) = 0
    BY <1>4, EmptySeq
  <2>4. Done(k) # 0
    <3>1. Done(k) + 0 = b.planned
      BY <2>1, <2>3
    <3>2. Done(k) + 0 = Done(k)
      BY <2>2
    <3> QED BY <1>4, <3>1, <3>2
  <2>5. WrittenBy(k, writes) # {}
    BY <1>3, <2>2, <2>4, WrittenByFacts
  <2> QED BY <2>5 DEF WrittenBy
<1>7. CopyIsCurrent(db, b)
  <2>1. k \in {w.by : w \in ToSet(writes)} \ {0}
    BY <1>4, <1>6 DEF ToSet
  <2>2. stale' = (stale \/ \E j \in {w.by : w \in ToSet(writes)} \ {0} :
                             ~Running(j) \/ ~CopyIsCurrent(db, commands[j]))
    BY <1>2 DEF Persist
  <2> QED BY <2>1, <2>2
<1>8. /\ \A m \in DOMAIN writes :
           \/ Statement(writes[m].row, writes[m].value) \in Plan(b)
           \/ /\ b.kind = "remove route"
              /\ Statement(writes[m].row, writes[m].value)
                   \in {Statement(p, None) : p \in Packages}
      /\ \A s \in Plan(b) :
           \E m \in DOMAIN writes : Statement(writes[m].row, writes[m].value) = s
  <2>1. LonePlan(k) /\ b.phase \in {"statements", "commit"} /\ ToSet(b.todo) = {}
    BY <1>2, <1>4, <1>5, EmptySet DEF PlansInv
  <2> HIDE DEF b, writes
  <2> QED BY <1>2, <2>1 DEF LonePlan, b, writes
<1> HIDE DEF b, writes
<1>9. ASSUME NEW x \in Rows PROVE Planned(b, db, db', x)
  <2>1. CASE (\A m \in DOMAIN writes : writes[m].row # x) /\ db'[x] = db[x]
    <3>1. \A s \in Plan(b) : s.row # x
      <4> SUFFICES ASSUME NEW s \in Plan(b) PROVE s.row # x
        OBVIOUS
      <4>1. PICK m \in DOMAIN writes : Statement(writes[m].row, writes[m].value) = s
        BY <1>8
      <4>2. s.row = writes[m].row
        BY <4>1, StatementFields
      <4> QED BY <2>1, <4>2
    <3> QED BY <2>1, <3>1 DEF Planned
  <2>2. CASE \E m \in DOMAIN writes : writes[m].row = x /\ db'[x] = writes[m].value
    <3>1. PICK m \in DOMAIN writes : writes[m].row = x /\ db'[x] = writes[m].value
      BY <2>2
    <3>2. CASE Statement(writes[m].row, writes[m].value) \in Plan(b)
      <4> DEFINE s == Statement(writes[m].row, writes[m].value)
      <4>1. s \in Plan(b) /\ s.row = x /\ s.value = db'[x]
        BY <3>1, <3>2, StatementFields
      <4> HIDE DEF s
      <4> QED BY <4>1 DEF Planned
    <3>3. CASE /\ b.kind = "remove route"
               /\ Statement(writes[m].row, writes[m].value)
                   \in {Statement(p, None) : p \in Packages}
      <4>1. PICK p \in Packages : Statement(writes[m].row, writes[m].value) = Statement(p, None)
        BY <3>3
      <4>2. writes[m].row = p /\ writes[m].value = None
        BY <4>1, StatementFields
      <4> QED BY <3>1, <3>3, <4>2 DEF Planned
    <3> QED BY <1>8, <3>2, <3>3
  <2>3. db' = Overlay(db, writes)
    BY <1>2 DEF View, writes
  <2>4. \/ (\A m \in DOMAIN writes : writes[m].row # x) /\ Overlay(db, writes)[x] = db[x]
        \/ \E m \in DOMAIN writes :
             writes[m].row = x /\ Overlay(db, writes)[x] = writes[m].value
    BY <1>3, OverlayOrigin
  <2> QED BY <2>1, <2>2, <2>3, <2>4
<1> QED BY <1>7, <1>9 DEF b

\* Committing a plan made on copies that are still current.
LEMMA PlanSound ==
  ASSUME NEW b \in CommandState, b.kind \in UnitKinds, Called(b), b.phase = "commit", Decided(b),
         NEW rows \in RowValues, NEW after, Linked(rows), Sound(rows), CopyIsCurrent(rows, b),
         \A x \in Rows : Planned(b, rows, after, x)
  PROVE  Sound(after)
<1>1. TrucksUnique(rows)
  BY DEF Linked, TrucksUnique
<1>2. CASE b.kind = "assign truck"
  <2> DEFINE r == b.route
             t == b.truck
  <2>1. r \in Routes /\ t \in Trucks /\ r \in Rows /\ t \in Rows
    BY <1>2 DEF Called, RouteKinds, Rows
  <2>2. Plan(b) = {Statement(r, t), Statement(t, "On the way")}
    BY <1>2 DEF Plan
  <2>3. r # t
    BY <2>1, DispatchDatabaseAssumption
  <2>4. /\ \A s \in Plan(b) : \/ s.row = r /\ s.value = t
                              \/ s.row = t /\ s.value = "On the way"
        /\ \E s \in Plan(b) : s.row = r
        /\ \E s \in Plan(b) : s.row = t
    <3>1. Statement(r, t) \in Plan(b) /\ Statement(t, "On the way") \in Plan(b)
      BY <2>2
    <3>2. \A s \in Plan(b) : s = Statement(r, t) \/ s = Statement(t, "On the way")
      BY <2>2
    <3> HIDE DEF r, t
    <3>3. \A s \in Plan(b) : \/ s.row = r /\ s.value = t
                             \/ s.row = t /\ s.value = "On the way"
      <4> SUFFICES ASSUME NEW s \in Plan(b)
                   PROVE  \/ s.row = r /\ s.value = t
                          \/ s.row = t /\ s.value = "On the way"
        OBVIOUS
      <4>1. CASE s = Statement(r, t)
        BY <4>1, StatementFields
      <4>2. CASE s = Statement(t, "On the way")
        BY <4>2, StatementFields
      <4> QED BY <3>2, <4>1, <4>2
    <3>4. Statement(r, t).row = r /\ Statement(t, "On the way").row = t
      BY StatementFields
    <3> QED BY <3>1, <3>3, <3>4
  <2> HIDE DEF r, t
  <2>5. after[r] = t /\ after[t] = "On the way"
    <3>1. \E s \in Plan(b) : s.row = r /\ s.value = after[r]
      BY <1>2, <2>1, <2>4 DEF Planned
    <3>2. \E s \in Plan(b) : s.row = t /\ s.value = after[t]
      BY <1>2, <2>1, <2>4 DEF Planned
    <3> QED BY <2>3, <2>4, <3>1, <3>2
  <2>6. \A x \in Rows \ {r, t} : after[x] = rows[x]
    <3> SUFFICES ASSUME NEW x \in Rows, x # r, x # t PROVE after[x] = rows[x]
      OBVIOUS
    <3>1. \A s \in Plan(b) : s.row # x
      BY <2>4
    <3>2. Planned(b, rows, after, x) /\ b.kind # "remove route"
      BY <1>2
    <3> QED BY <3>1, <3>2 DEF Planned
  <2>7. /\ rows[r] = None /\ RouteOf(rows, t) = {}
        /\ Cardinality(Load(rows, r)) <= Capacity
    BY <1>2 DEF CopyIsCurrent, Decided, UnitPhases, r, t
  <2> QED BY <2>1, <2>5, <2>6, <2>7, AssignedSound
<1>3. CASE b.kind = "remove route"
  <2> DEFINE r == b.route
             t == b.copy.truck
             loaded == b.copy.packages
  <2>1. r \in Routes /\ r \in Rows /\ t \in Trucks \cup {None} /\ loaded \subseteq Packages
    BY <1>3 DEF Called, RouteKinds, Rows, CommandState
  <2>2. Plan(b) = {Statement(p, None) : p \in loaded}
                    \cup (IF t = None THEN {} ELSE {Statement(t, "Free")})
                    \cup {Statement(r, Gone)}
    BY <1>3 DEF Plan
  <2>3. rows[r] = t
    BY <1>3 DEF CopyIsCurrent
  <2> HIDE DEF r, t, loaded
  <2>4. \A s \in Plan(b) :
          \/ \E p \in loaded : s.row = p /\ s.value = None
          \/ t # None /\ s.row = t /\ s.value = "Free"
          \/ s.row = r /\ s.value = Gone
    <3> SUFFICES ASSUME NEW s \in Plan(b)
                 PROVE  \/ \E p \in loaded : s.row = p /\ s.value = None
                        \/ t # None /\ s.row = t /\ s.value = "Free"
                        \/ s.row = r /\ s.value = Gone
      OBVIOUS
    <3>1. \/ \E p \in loaded : s = Statement(p, None)
          \/ t # None /\ s = Statement(t, "Free")
          \/ s = Statement(r, Gone)
      BY <2>2
    <3> QED BY <3>1, StatementFields
  <2>5. (\E s \in Plan(b) : s.row = r) /\ (t # None => \E s \in Plan(b) : s.row = t)
    <3>1. Statement(r, Gone) \in Plan(b) /\ (t # None => Statement(t, "Free") \in Plan(b))
      BY <2>2
    <3> QED BY <3>1, StatementFields
  <2>6. None \notin Trucks /\ Routes \cap (Trucks \cup Packages) = {} /\ Trucks \cap Packages = {}
    BY DispatchDatabaseAssumption
  <2>7. after[r] = Gone
    <3>1. r \notin Packages /\ (t # None => r # t) /\ r \notin loaded
      BY <2>1, <2>6
    <3>2. \E s \in Plan(b) : s.row = r /\ s.value = after[r]
      BY <2>1, <2>5, <3>1 DEF Planned
    <3> QED BY <2>4, <3>1, <3>2
  <2>8. t \in Trucks => after[t] = "Free"
    <3> SUFFICES ASSUME t \in Trucks PROVE after[t] = "Free"
      OBVIOUS
    <3>1. t \in Rows /\ t \notin Packages /\ t # r /\ t # None
      BY <2>1, <2>6 DEF Rows
    <3>2. \E s \in Plan(b) : s.row = t /\ s.value = after[t]
      BY <2>5, <3>1 DEF Planned
    <3> QED BY <2>1, <2>4, <3>1, <3>2
  <2>9. ASSUME NEW x \in Routes \cup Trucks, x # r, x # t PROVE after[x] = rows[x]
    <3>1. x \in Rows /\ x \notin Packages
      BY <2>6 DEF Rows
    <3> QED BY <2>1, <2>4, <2>9, <3>1 DEF Planned
  <2>10. ASSUME NEW p \in Packages PROVE after[p] \in {rows[p], None}
    <3>1. p \in Rows /\ p # r /\ (t # None => p # t)
      BY <2>1, <2>6 DEF Rows
    <3> QED BY <2>1, <2>4, <3>1 DEF Planned
  <2>11. rows[r] \in Trucks \cup {None, Gone}
    BY <2>1, <2>3
  <2> QED BY <1>1, <2>1, <2>3, <2>7, <2>8, <2>9, <2>10, <2>11, RemovedSound
<1>4. CASE b.kind = "remove package"
  <2> DEFINE p == Head(b.packages)
  <2>1. p \in Packages /\ p \in Rows
    <3>1. b.packages # <<>> /\ b.packages \in Seq(Packages)
      BY <1>4 DEF Called, CommandState
    <3> QED BY <3>1, TailFacts DEF Rows
  <2>2. Plan(b) = {Statement(p, Gone)}
    BY <1>4 DEF Plan
  <2> HIDE DEF p
  <2>3. \A s \in Plan(b) : s.row = p /\ s.value = Gone
    BY <2>2, StatementFields
  <2>4. \A x \in Routes \cup Trucks : x \in Rows /\ x # p
    BY <2>1, DispatchDatabaseAssumption DEF Rows
  <2>5. \A x \in Routes \cup Trucks : after[x] = rows[x]
    BY <1>4, <2>3, <2>4 DEF Planned
  <2>6. \A x \in Packages : after[x] \in {rows[x], None, Gone}
    BY <1>4, <2>3 DEF Planned, Rows
  <2> QED BY <2>5, <2>6, UnloadedSound
<1> QED BY <1>2, <1>3, <1>4 DEF UnitKinds

\* A step that leaves the rows and has not been clean for longer than they are.
LEMMA CleanBefore ==
  ASSUME BaseInv, [Next]_vars, Clean'
  PROVE  Clean
<1>1. TypeOK
  BY DEF BaseInv
<1>2. ASSUME stale' = stale, DOMAIN commands \subseteq DOMAIN commands',
             \A j \in DOMAIN commands : commands[j].shared => commands'[j].shared
      PROVE  Clean
  BY <1>2 DEF Clean
<1>3. CASE Start
  BY <1>2, <1>3, StartFacts DEF Untouched
<1>4. ASSUME NEW k \in DOMAIN commands, Step(k) PROVE Clean
  <2>1. ASSUME UnitsStay
        PROVE  DOMAIN commands \subseteq DOMAIN commands' /\
               \A j \in DOMAIN commands : commands[j].shared => commands'[j].shared
    BY <2>1 DEF UnitsStay, Continues
  <2>2. CASE ReadOnly(k)
    BY <1>1, <1>2, <2>1, <2>2, OutsideStepBase, ReadOnlyStep DEF Untouched
  <2>3. CASE WritePackage(k)
    <3>1. stale' => ~Clean'
      BY DEF Clean
    <3>2. ~stale
      BY <1>1, <2>3, <3>1, WritePackageRow
    <3> QED BY <2>1, <2>3, <3>2, OutsideStepBase DEF Clean, UnitsStay
  <2>4. CASE Enter(k)
    BY <1>2, <2>4, EnterStep DEF Entered
  <2>5. CASE Wait(k)
    BY <1>2, <2>1, <2>5, WaitBase DEF Wait, Untouched
  <2>6. CASE Execute(k)
    BY <1>2, <2>1, <2>6, ExecuteBase DEF Execute
  <2>7. CASE RowMissing(k) \/ StatementFails(k) \/ CommitFails(k)
    BY <1>2, <2>1, <2>7, RaiseBase
  <2>8. CASE Commit(k) \/ CommitUnanswered(k)
    <3>1. ~stale
      BY <2>8 DEF Clean, Commit, CommitUnanswered, Persist
    <3>2. UnitsStay
      BY <2>8, CommitBase DEF Commit, CommitUnanswered
    <3> QED BY <2>1, <3>1, <3>2 DEF Clean, UnitsStay
  <2>9. CASE Exit(k)
    BY <1>2, <2>1, <2>9, ExitBase DEF Exit
  <2> QED BY <1>4, <2>2, <2>3, <2>4, <2>5, <2>6, <2>7, <2>8, <2>9 DEF Step, ReadOnly
<1>5. CASE UNCHANGED vars
  BY <1>2, <1>5 DEF vars
<1> QED BY <1>3, <1>4, <1>5 DEF Next

LEMMA SoundCommit ==
  ASSUME BaseInv, LinksInv, AtomicInv, PlansInv, Sound(db), Clean, Clean',
         NEW k \in DOMAIN commands,
         NEW a \in BOOLEAN, Persist(k, a)
  PROVE  Sound(db)'
<1>1. TypeOK
  BY DEF BaseInv
<1>2. commands[k].phase = "commit" /\ ~commands[k].shared /\ ~stale'
  BY DEF Persist, Clean
<1>3. /\ commands[k] \in CommandState /\ commands[k].kind \in UnitKinds /\ Called(commands[k])
      /\ Decided(commands[k])
  BY <1>1, <1>2, SequenceFacts DEF CommandOK, PhaseOK, UnitPhases, PlansInv
<1>4. /\ CopyIsCurrent(db, commands[k])
      /\ \A x \in Rows : Planned(commands[k], db, db', x)
  BY <1>2, PlanCommitted
<1>5. db \in RowValues /\ Linked(db)
  BY <1>1 DEF TypeOK, LinksInv, RowsStayLinked
<1>6. Sound(db')
  BY <1>2, <1>3, <1>4, <1>5, PlanSound
<1> QED BY <1>6 DEF Sound

LEMMA SoundWritePackage ==
  ASSUME BaseInv, PlansInv, Sound(db), Clean', NEW k \in DOMAIN commands, WritePackage(k)
  PROVE  Sound(db)'
<1> DEFINE b == commands[k]
<1>1. TypeOK /\ ~stale' /\ b.phase = "write package" /\ b.kind = "assign packages"
  BY WritePackageStep DEF BaseInv, Clean
<1>2. PICK p : p = Head(b.packages)
  OBVIOUS
<1>3. /\ p \in Packages /\ b.route \in Routes
      /\ \A x \in Rows \ {p} : db'[x] = db[x]
      /\ \/ UNCHANGED <<db, stale>>
         \/ /\ p \in b.copy.packages /\ db'[p] = None
            /\ stale' = (stale \/ ~CopyIsCurrent(db, b) \/ db[p] # None)
         \/ /\ p \notin b.copy.packages /\ db'[p] = b.route
            /\ stale' = (stale \/ ~CopyIsCurrent(db, b) \/ db[p] # None)
  BY <1>1, <1>2, WritePackageRow
<1>4. \A x \in Routes \cup Trucks : db'[x] = db[x]
  BY <1>3, DispatchDatabaseAssumption DEF Rows
<1>5. \A q \in Packages : q # p => db'[q] = db[q]
  BY <1>3 DEF Rows
<1>6. CASE db' = db \/ db'[p] = None
  <2>1. \A q \in Packages : db'[q] \in {db[q], None, Gone}
    BY <1>5, <1>6
  <2>2. Sound(db')
    BY <1>4, <2>1, UnloadedSound
  <2> QED BY <2>2 DEF Sound
<1>7. CASE /\ p \notin b.copy.packages /\ db'[p] = b.route
           /\ stale' = (stale \/ ~CopyIsCurrent(db, b) \/ db[p] # None)
  <2>1. CopyIsCurrent(db, b) /\ db[p] = None
    BY <1>1, <1>7
  <2>2. db[b.route] = b.copy.truck /\ Load(db, b.route) = b.copy.packages
    BY <1>1, <2>1 DEF CopyIsCurrent
  <2>3. Decided(b)
    BY DEF PlansInv
  <2>4. LoadAllows(b, p)
    BY <1>1, <1>2, <2>3 DEF Decided
  <2>5. db[b.route] \in Trucks => Cardinality(Load(db, b.route)) < Capacity
    BY <1>7, <2>2, <2>4, DispatchDatabaseAssumption DEF LoadAllows
  <2>6. Sound(db')
    BY <1>3, <1>7, <2>1, <2>5, LinkedSound
  <2> QED BY <2>6 DEF Sound
<1> QED BY <1>3, <1>6, <1>7

LEMMA SoundStep ==
  ASSUME BaseInv, LinksInv, AtomicInv, SoundInv, [Next]_vars
  PROVE  SoundInv'
<1>1. PlansInv'
  BY PlansStep DEF SoundInv
<1>2. ASSUME Clean' PROVE Sound(db)'
  <2>1. TypeOK /\ Clean /\ Sound(db) /\ PlansInv
    BY <1>2, CleanBefore DEF BaseInv, SoundInv
  <2>2. ASSUME UNCHANGED db PROVE Sound(db)'
    BY <2>1, <2>2 DEF Sound
  <2>3. CASE Start
    BY <2>2, <2>3, StartStep DEF Untouched
  <2>4. ASSUME NEW k \in DOMAIN commands, Step(k) PROVE Sound(db)'
    <3>1. CASE ReadOnly(k)
      BY <2>1, <2>2, <3>1, ReadOnlyStep DEF Untouched
    <3>2. CASE WritePackage(k)
      BY <1>2, <2>1, <3>2, SoundWritePackage
    <3>3. CASE Commit(k) \/ CommitUnanswered(k)
      BY <1>2, <2>1, <3>3, SoundCommit DEF Commit, CommitUnanswered
    <3>4. CASE \/ Enter(k) \/ Wait(k) \/ Execute(k) \/ RowMissing(k)
               \/ StatementFails(k) \/ CommitFails(k) \/ Exit(k)
      BY <2>2, <3>4
         DEF Enter, Wait, Execute, RowMissing, StatementFails, CommitFails, Exit, Untouched
    <3> QED BY <2>4, <3>1, <3>2, <3>3, <3>4 DEF Step, ReadOnly
  <2>5. CASE UNCHANGED vars
    BY <2>2, <2>5 DEF vars
  <2> QED BY <2>3, <2>4, <2>5 DEF Next
<1> QED BY <1>1, <1>2 DEF SoundInv, Clean, Sound

(***************************************************************************)
(* When no unit of work was shared and nothing was committed on copies     *)
(* that no longer matched the rows, every truck carries what it can and is *)
(* on the way exactly when a route has it (assign_truck_to_route.py,       *)
(* remove_route.py, assign_packages_to_route.py and the graph loaders).    *)
(* The invariant carries the decision from the copy to the commit: a       *)
(* transaction of a lone unit holds the statements that were planned and   *)
(* no others, so that what is committed is what was decided.               *)
(***************************************************************************)
THEOREM OnlyStaleHarms == Spec => []OnlyStaleCopiesHarm
<1>1. Init => BaseInv /\ LinksInv /\ AtomicInv /\ SoundInv
  BY BaseInit, LinksInit, InitFacts DEF AtomicInv, SoundInv, PlansInv
<1>2. /\ BaseInv /\ LinksInv /\ AtomicInv /\ SoundInv /\ [Next]_vars
      => BaseInv' /\ LinksInv' /\ AtomicInv' /\ SoundInv'
  BY BaseStep, LinksStep, AtomicStep, SoundStep
<1>3. SoundInv => OnlyStaleCopiesHarm
  BY DEF SoundInv, Clean, OnlyStaleCopiesHarm
<1> QED BY <1>1, <1>2, <1>3, PTL DEF Spec

=============================================================================
