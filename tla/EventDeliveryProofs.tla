-------------------------- MODULE EventDeliveryProofs --------------------------
(***************************************************************************)
(* What the audit log owes a command of EventDelivery, for any number of   *)
(* workers, commands, entities and failures.                               *)
(*                                                                         *)
(* The inductive invariant follows each event of a running command that no *)
(* other command has taken: it is pending on the recorder the command      *)
(* works on, then on one it has tracked or in its scope, then in the batch *)
(* being published or in the log under the command's own actor.            *)
(***************************************************************************)
EXTENDS EventDelivery, SequenceTheorems, TLAPS

Holders == Workers \cup {Shared}

KindsOfCommand == {"assign packages", "create package", "not permitted", "heartbeat"}

Command ==
  [kind : KindsOfCommand, actor : Actors \cup {None},
   outcome : {"running", "returned", "raised", "died"}]

WorkerState ==
  [phase : {"idle", "running", "returned", "raised", "publishing"}, command : Nat,
   target : Recorders \cup {None}, changes : Nat, scope : Seq(Nat),
   tracked : SUBSET Recorders, failing : BOOLEAN, queue : Seq(Nat),
   captured : SUBSET Recorders]

DeliveryTypeOK ==
  /\ backend \in {"memory", "threads", "database"}
  /\ commands \in Seq(Command)
  /\ commandOf \in Seq(Nat)
  /\ pending \in [Holders -> [Recorders -> Seq(Nat)]]
  /\ worker \in [Workers -> WorkerState]
  /\ audit \in Seq([event : Nat, actor : Actors \cup {None}])

IsBusy(w) == worker[w].phase # "idle"

PendingSet(h, r) == ToSet(pending[h][r])

\* The event is one of the command that w runs.
Own(w, e) == e \in DOMAIN commandOf /\ commandOf[e] = worker[w].command

\* The command of w records on the recorder it was called with.
RecordsOnTarget(w) ==
  \/ CommandOf(w).kind = "assign packages" /\ worker[w].changes > 0
  \/ CommandOf(w).kind = "create package"

\* Where an event of w's command is, unless another command has taken it.
Held(w, e) ==
  /\ worker[w].phase = "running" =>
       RecordsOnTarget(w) /\ e \in ToSet(PendingOf(w, worker[w].target))
  /\ worker[w].phase = "returned" =>
       \/ e \in ToSet(worker[w].scope)
       \/ \E r \in worker[w].tracked : e \in ToSet(PendingOf(w, r))
  /\ worker[w].phase = "publishing" /\ ~worker[w].failing =>
       e \in ToSet(worker[w].queue) \/ Audited(e, CommandOf(w).actor)

\* A shared recorder with events of w's command is one the command will clear.
Placed(w, r) ==
  /\ worker[w].phase = "running" => RecordsOnTarget(w) /\ r = worker[w].target
  /\ worker[w].phase = "returned" => r \in worker[w].tracked
  /\ worker[w].phase = "publishing" /\ ~worker[w].failing => r \in worker[w].captured

Assigned(w) ==
  /\ worker[w].command \in 1 .. Len(commands)
  /\ CommandOf(w).outcome = "running"
  /\ worker[w].phase \in {"running", "returned"} => ~worker[w].failing
  /\ worker[w].phase = "raised" => worker[w].failing
  /\ worker[w].tracked \subseteq {Parcel, worker[w].target}
  /\ CommandOf(w).kind # "not permitted" => worker[w].target \in Recorders

BusyOK(w) ==
  /\ Assigned(w)
  /\ \A e \in DOMAIN commandOf : Own(w, e) /\ e \notin swept => Held(w, e)
  /\ \A r \in Recorders : \A e \in PendingSet(Shared, r) : Own(w, e) => Placed(w, r)
  /\ \A e \in ToSet(worker[w].queue) : e \in DOMAIN commandOf /\ (Own(w, e) \/ e \in swept)
  /\ \A e \in ToSet(worker[w].scope) : Own(w, e)

\* Copies and parcels are the worker's own.
CopiesOK(w) == \A r \in Recorders : \A e \in PendingSet(w, r) : IsBusy(w) /\ Own(w, e)

WorkerOK(w) == (IsBusy(w) => BusyOK(w)) /\ CopiesOK(w)

OneWorkerEach ==
  \A v, w \in Workers :
    /\ IsBusy(v) /\ IsBusy(w)
    /\ worker[v].command = worker[w].command \/ backend = "memory"
    => v = w

SharedOK ==
  \A r \in Recorders :
    /\ backend = "database" \/ r = Parcel => PendingSet(Shared, r) = {}
    /\ \A e \in PendingSet(Shared, r) :
         /\ e \in DOMAIN commandOf
         /\ backend = "memory" =>
              \/ commands[commandOf[e]].outcome = "raised"
              \/ \E w \in Workers : IsBusy(w) /\ Own(w, e)

EventsOK ==
  /\ \A e \in DOMAIN commandOf : commandOf[e] \in 1 .. Len(commands)
  /\ swept \subseteq DOMAIN commandOf

AuditOK ==
  \A i \in DOMAIN audit :
    /\ audit[i].event \in DOMAIN commandOf
    /\ \/ audit[i].actor = commands[commandOf[audit[i].event]].actor
       \/ audit[i].event \in swept

DeliveryInv ==
  /\ DeliveryTypeOK
  /\ \A w \in Workers : WorkerOK(w)
  /\ OneWorkerEach /\ SharedOK /\ EventsOK /\ AuditOK
  /\ AcknowledgedIsAudited /\ OnlyThreadsSweep /\ AuditedOnce

-----------------------------------------------------------------------------
(* What a step of one worker may do to everything else.                    *)

\* Recorded by w in this step or before.
OwnNext(w, e) ==
  IsBusy(w) /\ e \in DOMAIN commandOf' /\ commandOf'[e] = worker[w].command

CommandsKept(w) ==
  \A c \in DOMAIN commands :
    /\ c \in DOMAIN commands'
    /\ commands'[c].kind = commands[c].kind /\ commands'[c].actor = commands[c].actor
    /\ (IsBusy(w) /\ c = worker[w].command) \/ commands'[c].outcome = commands[c].outcome

EventsKept(w) ==
  /\ \A e \in DOMAIN commandOf : e \in DOMAIN commandOf' /\ commandOf'[e] = commandOf[e]
  /\ \A e \in DOMAIN commandOf' : e \in DOMAIN commandOf \/ OwnNext(w, e)

SharedKept(w) ==
  \A r \in Recorders :
    /\ \A e \in PendingSet(Shared, r) :
         e \in PendingSet(Shared, r)' \/ e \in swept' \/ OwnNext(w, e)
    /\ \A e \in PendingSet(Shared, r)' :
         \/ e \in PendingSet(Shared, r)
         \/ OwnNext(w, e) /\ backend # "database" /\ r # Parcel

SweptKept(w) ==
  /\ swept \subseteq swept'
  /\ \A e \in swept' :
       \/ e \in swept
       \/ /\ IsBusy(w) /\ ~ Own(w, e)
          /\ \E r \in Recorders : e \in PendingSet(Shared, r)

AuditKept(w) ==
  /\ \A e, a : Audited(e, a) => Audited(e, a)'
  /\ \A i \in DOMAIN audit' :
       \/ i \in DOMAIN audit /\ audit'[i] = audit[i]
       \/ /\ IsBusy(w) /\ audit'[i].event \in DOMAIN commandOf
          /\ audit'[i].actor = CommandOf(w).actor
          /\ Own(w, audit'[i].event) \/ audit'[i].event \in swept

Effect(w) ==
  /\ backend' = backend
  /\ \A v \in Workers : v # w => worker'[v] = worker[v] /\ pending'[v] = pending[v]
  /\ CommandsKept(w) /\ EventsKept(w) /\ SharedKept(w) /\ SweptKept(w) /\ AuditKept(w)

\* A worker keeps its command until it is idle, and takes a new one then.
KeepsCommand(w) ==
  IsBusy(w)' =>
    \/ IsBusy(w) /\ worker'[w].command = worker[w].command
    \/ /\ ~ IsBusy(w) /\ worker'[w].command \notin DOMAIN commands
       /\ backend = "memory" => \A v \in Workers : ~ IsBusy(v)

\* What a command leaves behind when it ends.
Ends(w) ==
  IsBusy(w) =>
    /\ commands'[worker[w].command].outcome = "returned" =>
         \A e \in DOMAIN commandOf' : commandOf'[e] = worker[w].command =>
           \/ \E i \in DOMAIN audit' : audit'[i] = [event |-> e, actor |-> CommandOf(w).actor]
           \/ e \in swept'
    /\ IsBusy(w)' \/ \A r \in Recorders : \A e \in PendingSet(Shared, r)' :
         OwnNext(w, e) => commands'[worker[w].command].outcome = "raised"

Guarantee(w) ==
  /\ Effect(w) /\ KeepsCommand(w) /\ Ends(w)
  /\ DeliveryTypeOK' /\ WorkerOK(w)' /\ AuditedOnce'

-----------------------------------------------------------------------------
(* Sets of the members of sequences, and types.                            *)

LEMMA EmptySet == ToSet(<<>>) = {}
BY DEF ToSet

LEMMA SingletonSet == \A x : ToSet(<<x>>) = {x}
BY DEF ToSet

LEMMA AppendSet ==
  ASSUME NEW S, NEW s \in Seq(S), NEW x \in S
  PROVE  Append(s, x) \in Seq(S) /\ ToSet(Append(s, x)) = ToSet(s) \cup {x}
<1>1. /\ Append(s, x) \in Seq(S) /\ Len(Append(s, x)) = Len(s) + 1 /\ Len(s) \in Nat
      /\ \A i \in 1 .. Len(s) : Append(s, x)[i] = s[i]
      /\ Append(s, x)[Len(s) + 1] = x
  BY AppendProperties
<1>2. DOMAIN s = 1 .. Len(s) /\ DOMAIN Append(s, x) = 1 .. Len(s) + 1  BY <1>1
<1>3. 1 .. Len(s) + 1 = 1 .. Len(s) \cup {Len(s) + 1}  BY <1>1
<1> HIDE DEF ToSet
<1>4. ASSUME NEW y \in ToSet(Append(s, x)) PROVE y \in ToSet(s) \cup {x}
  BY <1>1, <1>2, <1>3 DEF ToSet
<1>5. ASSUME NEW y \in ToSet(s) PROVE y \in ToSet(Append(s, x))
  BY <1>1, <1>2, <1>3 DEF ToSet
<1>6. x \in ToSet(Append(s, x))
  BY <1>1, <1>2, <1>3 DEF ToSet
<1>7. QED  BY <1>1, <1>4, <1>5, <1>6

LEMMA ConcatSet ==
  ASSUME NEW S, NEW s \in Seq(S), NEW t \in Seq(S)
  PROVE  s \o t \in Seq(S) /\ ToSet(s \o t) = ToSet(s) \cup ToSet(t)
<1>1. /\ s \o t \in Seq(S) /\ Len(s \o t) = Len(s) + Len(t) /\ Len(s) \in Nat /\ Len(t) \in Nat
      /\ \A i \in 1 .. Len(s) + Len(t) :
           (s \o t)[i] = IF i <= Len(s) THEN s[i] ELSE t[i - Len(s)]
  BY ConcatProperties
<1>2. /\ DOMAIN s = 1 .. Len(s) /\ DOMAIN t = 1 .. Len(t)
      /\ DOMAIN (s \o t) = 1 .. Len(s) + Len(t)
  BY <1>1
<1>3. ASSUME NEW y \in ToSet(s \o t) PROVE y \in ToSet(s) \cup ToSet(t)
  <2>1. PICK i \in 1 .. Len(s) + Len(t) : y = (s \o t)[i]  BY <1>2 DEF ToSet
  <2>2. CASE i <= Len(s)
    <3>1. i \in 1 .. Len(s) /\ y = s[i]  BY <1>1, <2>1, <2>2
    <3>2. QED  BY <1>2, <3>1 DEF ToSet
  <2>3. CASE ~ (i <= Len(s))
    <3>1. i - Len(s) \in 1 .. Len(t) /\ y = t[i - Len(s)]  BY <1>1, <2>1, <2>3
    <3>2. QED  BY <1>2, <3>1 DEF ToSet
  <2>4. QED  BY <2>2, <2>3
<1>4. ASSUME NEW y \in ToSet(s) PROVE y \in ToSet(s \o t)
  <2>1. PICK i \in 1 .. Len(s) : y = s[i]  BY <1>2 DEF ToSet
  <2>2. i \in 1 .. Len(s) + Len(t) /\ y = (s \o t)[i]  BY <1>1, <2>1
  <2>3. QED  BY <1>2, <2>2 DEF ToSet
<1>5. ASSUME NEW y \in ToSet(t) PROVE y \in ToSet(s \o t)
  <2>1. PICK i \in 1 .. Len(t) : y = t[i]  BY <1>2 DEF ToSet
  <2>2. /\ i + Len(s) \in 1 .. Len(s) + Len(t) /\ ~ (i + Len(s) <= Len(s))
        /\ i + Len(s) - Len(s) = i
    BY <1>1, <2>1
  <2>3. y = (s \o t)[i + Len(s)]  BY <1>1, <2>1, <2>2
  <2>4. QED  BY <1>2, <2>2, <2>3 DEF ToSet
<1>6. QED  BY <1>1, <1>3, <1>4, <1>5

LEMMA TailSet ==
  ASSUME NEW S, NEW s \in Seq(S), s # <<>>
  PROVE  /\ Head(s) \in S /\ Tail(s) \in Seq(S)
         /\ ToSet(s) = {Head(s)} \cup ToSet(Tail(s))
<1>1. /\ Len(s) \in Nat /\ Len(s) # 0 /\ Head(s) = s[1] /\ Tail(s) \in Seq(S)
      /\ Len(Tail(s)) = Len(s) - 1
      /\ \A i \in 1 .. Len(Tail(s)) : Tail(s)[i] = s[i + 1]
  BY HeadTailProperties, EmptySeq
<1>2. /\ DOMAIN s = 1 .. Len(s) /\ DOMAIN Tail(s) = 1 .. Len(s) - 1 /\ 1 \in 1 .. Len(s)
  BY <1>1
<1>3. Head(s) \in S /\ Head(s) \in ToSet(s)  BY <1>1, <1>2 DEF ToSet
<1>4. ASSUME NEW y \in ToSet(Tail(s)) PROVE y \in ToSet(s)
  <2>1. PICK i \in 1 .. Len(s) - 1 : y = Tail(s)[i]  BY <1>2 DEF ToSet
  <2>2. i + 1 \in 1 .. Len(s) /\ y = s[i + 1]  BY <1>1, <1>2, <2>1
  <2>3. QED  BY <1>2, <2>2 DEF ToSet
<1>5. ASSUME NEW y \in ToSet(s), y # Head(s) PROVE y \in ToSet(Tail(s))
  <2>1. PICK i \in 1 .. Len(s) : y = s[i]  BY <1>2 DEF ToSet
  <2>2. i # 1  BY <1>1, <1>5, <2>1
  <2>3. i - 1 \in 1 .. Len(s) - 1 /\ i - 1 + 1 = i  BY <1>1, <2>1, <2>2
  <2>4. y = Tail(s)[i - 1]  BY <1>1, <1>2, <2>1, <2>3
  <2>5. QED  BY <1>2, <2>3, <2>4 DEF ToSet
<1>6. QED  BY <1>1, <1>3, <1>4, <1>5

-----------------------------------------------------------------------------
(* A step that keeps to its guarantee preserves the invariant.             *)

LEMMA BusyFacts ==
  ASSUME DeliveryInv, NEW w \in Workers, IsBusy(w)
  PROVE  /\ BusyOK(w) /\ Assigned(w)
         /\ worker[w].command \in DOMAIN commands /\ CommandOf(w).outcome = "running"
<1>1. BusyOK(w) /\ Assigned(w)  BY DEF DeliveryInv, WorkerOK, BusyOK
<1>2. DOMAIN commands = 1 .. Len(commands)  BY DEF DeliveryInv, DeliveryTypeOK
<1>3. QED  BY <1>1, <1>2 DEF Assigned

LEMMA OtherWorker ==
  ASSUME DeliveryInv, NEW w \in Workers, NEW v \in Workers, v # w,
         Effect(w), DeliveryTypeOK'
  PROVE  WorkerOK(v)'
<1>1. worker'[v] = worker[v] /\ pending'[v] = pending[v] /\ backend' = backend  BY DEF Effect
<1>2. ASSUME NEW e, Own(v, e)' \/ Own(v, e), IsBusy(v)
      PROVE  Own(v, e) /\ Own(v, e)' /\ ~ OwnNext(w, e)
  <2>1. IsBusy(w) => worker[w].command # worker[v].command
    BY <1>2 DEF DeliveryInv, OneWorkerEach
  <2>2. QED  BY <1>1, <1>2, <2>1 DEF Effect, EventsKept, OwnNext, Own
<1>3. ASSUME NEW e, NEW r \in Recorders, Own(v, e), IsBusy(v), e \notin swept',
             e \in ToSet(PendingOf(v, r))
      PROVE  e \in ToSet(PendingOf(v, r))'
  <2>1. ~ OwnNext(w, e)  BY <1>2, <1>3
  <2>2. CASE Holder(v, r) = v  BY <1>1, <1>3, <2>2 DEF PendingOf, Holder
  <2>3. CASE Holder(v, r) # v
    <3>1. Holder(v, r) = Shared /\ Holder(v, r)' = Shared  BY <1>1, <2>3 DEF Holder
    <3>2. e \in PendingSet(Shared, r)  BY <1>3, <3>1 DEF PendingOf, PendingSet
    <3>3. e \in PendingSet(Shared, r)'  BY <1>3, <2>1, <3>2 DEF Effect, SharedKept
    <3>4. QED  BY <3>1, <3>3 DEF PendingOf, PendingSet
  <2>4. QED  BY <2>2, <2>3
<1>4. ASSUME IsBusy(v) PROVE BusyOK(v)'
  <2>1. /\ BusyOK(v) /\ Assigned(v)
        /\ worker[v].command \in DOMAIN commands /\ CommandOf(v).outcome = "running"
    BY <1>4, BusyFacts
  <2>2. /\ worker[v].command \in DOMAIN commands'
        /\ CommandOf(v)'.kind = CommandOf(v).kind /\ CommandOf(v)'.actor = CommandOf(v).actor
        /\ CommandOf(v)'.outcome = "running"
    <3>1. ~ (IsBusy(w) /\ worker[w].command = worker[v].command)
      BY <1>4 DEF DeliveryInv, OneWorkerEach
    <3>2. QED  BY <1>1, <2>1, <3>1 DEF Effect, CommandsKept, CommandOf
  <2>3. Assigned(v)'
    <3>1. DOMAIN commands' = 1 .. Len(commands')  BY DEF DeliveryTypeOK
    <3>2. worker'[v].command \in 1 .. Len(commands')  BY <1>1, <2>2, <3>1
    <3>3. /\ worker[v].phase \in {"running", "returned"} => ~ worker[v].failing
          /\ worker[v].phase = "raised" => worker[v].failing
          /\ worker[v].tracked \subseteq {Parcel, worker[v].target}
          /\ CommandOf(v).kind # "not permitted" => worker[v].target \in Recorders
      BY <2>1 DEF Assigned
    <3>4. CommandOf(v)'.outcome = "running"  BY <2>2
    <3>5. /\ worker'[v].phase \in {"running", "returned"} => ~ worker'[v].failing
          /\ worker'[v].phase = "raised" => worker'[v].failing
      BY <1>1, <3>3
    <3>6. worker'[v].tracked \subseteq {Parcel, worker'[v].target}  BY <1>1, <3>3
    <3>7. CommandOf(v)'.kind # "not permitted" => worker'[v].target \in Recorders
      BY <1>1, <2>2, <3>3
    <3>8. QED  BY <3>2, <3>4, <3>5, <3>6, <3>7 DEF Assigned
  <2>4. \A e \in DOMAIN commandOf' : Own(v, e)' /\ e \notin swept' => Held(v, e)'
    <3> SUFFICES ASSUME NEW e \in DOMAIN commandOf', Own(v, e)', e \notin swept'
                 PROVE  Held(v, e)'
      OBVIOUS
    <3>1. Own(v, e) /\ e \in DOMAIN commandOf  BY <1>2, <1>4 DEF Own
    <3>2. e \notin swept  BY DEF Effect, SweptKept
    <3>3. Held(v, e)  BY <2>1, <3>1, <3>2 DEF BusyOK
    <3>4. ASSUME worker'[v].phase = "running"
          PROVE  RecordsOnTarget(v)' /\ e \in ToSet(PendingOf(v, worker[v].target))'
      <4>1. RecordsOnTarget(v) /\ e \in ToSet(PendingOf(v, worker[v].target))
        BY <1>1, <3>3, <3>4 DEF Held
      <4>2. worker[v].target \in Recorders
        BY <2>1, <4>1 DEF Assigned, RecordsOnTarget
      <4>3. \A r \in Recorders : e \in ToSet(PendingOf(v, r)) => e \in ToSet(PendingOf(v, r))'
        BY <1>3, <1>4, <3>1
      <4>4. e \in ToSet(PendingOf(v, worker[v].target))'
        BY <1>1, <4>1, <4>2, <4>3 DEF PendingOf, Holder
      <4>5. QED  BY <1>1, <2>2, <4>1, <4>4 DEF RecordsOnTarget
    <3>5. ASSUME worker'[v].phase = "returned"
          PROVE  \/ e \in ToSet(worker'[v].scope)
                 \/ \E r \in worker'[v].tracked : e \in ToSet(PendingOf(v, r))'
      <4>1. CASE e \in ToSet(worker[v].scope)  BY <1>1, <4>1
      <4>2. CASE e \notin ToSet(worker[v].scope)
        <5>1. PICK r \in worker[v].tracked : e \in ToSet(PendingOf(v, r))
          BY <1>1, <3>3, <3>5, <4>2 DEF Held
        <5>2. r \in Recorders  BY DEF DeliveryInv, DeliveryTypeOK, WorkerState
        <5>3. e \in ToSet(PendingOf(v, r))'  BY <1>3, <1>4, <3>1, <5>1, <5>2
        <5>4. QED  BY <1>1, <5>3
      <4>3. QED  BY <4>1, <4>2
    <3>6. ASSUME worker'[v].phase = "publishing", ~ worker'[v].failing
          PROVE  e \in ToSet(worker'[v].queue) \/ Audited(e, CommandOf(v).actor)'
      <4>1. e \in ToSet(worker[v].queue) \/ Audited(e, CommandOf(v).actor)
        BY <1>1, <3>3, <3>6 DEF Held
      <4>2. Audited(e, CommandOf(v).actor) => Audited(e, CommandOf(v).actor)'
        BY <2>2 DEF Effect, AuditKept
      <4>3. QED  BY <1>1, <4>1, <4>2
    <3>7. QED  BY <3>4, <3>5, <3>6 DEF Held
  <2>5. \A r \in Recorders : \A e \in PendingSet(Shared, r)' : Own(v, e)' => Placed(v, r)'
    <3> SUFFICES ASSUME NEW r \in Recorders, NEW e \in PendingSet(Shared, r)', Own(v, e)'
                 PROVE  Placed(v, r)'
      OBVIOUS
    <3>1. Own(v, e) /\ ~ OwnNext(w, e)  BY <1>2, <1>4
    <3>2. e \in PendingSet(Shared, r)  BY <3>1 DEF Effect, SharedKept
    <3>3. Placed(v, r)  BY <2>1, <3>1, <3>2 DEF BusyOK
    <3>4. QED  BY <1>1, <2>2, <3>3 DEF Placed, RecordsOnTarget
  <2>6. \A e \in ToSet(worker'[v].queue) :
          e \in DOMAIN commandOf' /\ (Own(v, e)' \/ e \in swept')
    <3> SUFFICES ASSUME NEW e \in ToSet(worker[v].queue)
                 PROVE  e \in DOMAIN commandOf' /\ (Own(v, e)' \/ e \in swept')
      BY <1>1
    <3>1. e \in DOMAIN commandOf /\ (Own(v, e) \/ e \in swept)  BY <2>1 DEF BusyOK
    <3>2. Own(v, e) => Own(v, e)'  BY <1>2, <1>4
    <3>3. QED  BY <3>1, <3>2 DEF Effect, EventsKept, SweptKept
  <2>7. \A e \in ToSet(worker'[v].scope) : Own(v, e)'
    BY <1>1, <1>2, <1>4, <2>1 DEF BusyOK
  <2>8. QED  BY <2>3, <2>4, <2>5, <2>6, <2>7 DEF BusyOK
<1>5. CopiesOK(v)'
  <2> SUFFICES ASSUME NEW r \in Recorders, NEW e \in PendingSet(v, r)'
               PROVE  IsBusy(v)' /\ Own(v, e)'
    BY DEF CopiesOK
  <2>1. e \in PendingSet(v, r)  BY <1>1 DEF PendingSet
  <2>2. IsBusy(v) /\ Own(v, e)  BY <2>1 DEF DeliveryInv, WorkerOK, CopiesOK
  <2>3. QED  BY <1>1, <1>2, <2>2 DEF IsBusy
<1>6. IsBusy(v)' => IsBusy(v)  BY <1>1 DEF IsBusy
<1>7. QED  BY <1>4, <1>5, <1>6 DEF WorkerOK

LEMMA StepInv ==
  ASSUME DeliveryInv, NEW w \in Workers, Guarantee(w)
  PROVE  DeliveryInv'
<1>1. /\ Effect(w) /\ KeepsCommand(w) /\ Ends(w)
      /\ DeliveryTypeOK' /\ WorkerOK(w)' /\ AuditedOnce'
  BY DEF Guarantee
<1>2. /\ backend' = backend /\ \A v \in Workers : v # w => worker'[v] = worker[v]
      /\ CommandsKept(w) /\ EventsKept(w) /\ SharedKept(w) /\ SweptKept(w) /\ AuditKept(w)
  BY <1>1 DEF Effect
<1>3. DOMAIN commands = 1 .. Len(commands) /\ DOMAIN commands' = 1 .. Len(commands')
  BY <1>1 DEF DeliveryInv, DeliveryTypeOK
<1>4. IsBusy(w) => worker[w].command \in DOMAIN commands /\ commands[worker[w].command].outcome = "running"
  BY BusyFacts DEF CommandOf
<1>5. ASSUME NEW e \in DOMAIN commandOf
      PROVE  /\ commandOf[e] \in DOMAIN commands
             /\ commandOf'[e] = commandOf[e]
             /\ e \in DOMAIN commandOf'
  BY <1>2, <1>3 DEF DeliveryInv, EventsOK, EventsKept
<1>6. \A v \in Workers : WorkerOK(v)'
  BY <1>1, OtherWorker
<1>7. OneWorkerEach'
  <2> SUFFICES ASSUME NEW u \in Workers, NEW v \in Workers, u # v,
                      IsBusy(u)', IsBusy(v)',
                      worker'[u].command = worker'[v].command \/ backend' = "memory"
               PROVE  FALSE
    BY DEF OneWorkerEach
  <2>1. ASSUME NEW x \in Workers, x # w, IsBusy(x)', IsBusy(w)',
               worker'[x].command = worker'[w].command \/ backend' = "memory"
        PROVE  FALSE
    <3>1. IsBusy(x) /\ worker'[x].command = worker[x].command  BY <1>2, <2>1 DEF IsBusy
    <3>2. CASE IsBusy(w) /\ worker'[w].command = worker[w].command
      BY <1>2, <2>1, <3>1, <3>2 DEF DeliveryInv, OneWorkerEach
    <3>3. CASE ~ IsBusy(w)
      <4>1. worker'[w].command \notin DOMAIN commands /\ backend # "memory"
        BY <1>1, <1>2, <2>1, <3>1, <3>3 DEF KeepsCommand
      <4>2. worker[x].command \in DOMAIN commands  BY <3>1, BusyFacts
      <4>3. QED  BY <1>2, <2>1, <3>1, <4>1, <4>2
    <3>4. QED  BY <1>1, <2>1, <3>2, <3>3 DEF KeepsCommand
  <2>2. CASE u = w  BY <2>1, <2>2
  <2>3. CASE v = w  BY <2>1, <2>3
  <2>4. CASE u # w /\ v # w
    <3>1. IsBusy(u) /\ IsBusy(v)  BY <1>2, <2>4 DEF IsBusy
    <3>2. QED  BY <1>2, <2>4, <3>1 DEF DeliveryInv, OneWorkerEach
  <2>5. QED  BY <2>2, <2>3, <2>4
<1>8. SharedOK'
  <2> SUFFICES ASSUME NEW r \in Recorders
               PROVE  /\ backend' = "database" \/ r = Parcel => PendingSet(Shared, r)' = {}
                      /\ \A e \in PendingSet(Shared, r)' :
                           /\ e \in DOMAIN commandOf'
                           /\ backend' = "memory" =>
                                \/ commands'[commandOf'[e]].outcome = "raised"
                                \/ \E v \in Workers : IsBusy(v)' /\ Own(v, e)'
    BY DEF SharedOK
  <2>1. backend' = "database" \/ r = Parcel => PendingSet(Shared, r)' = {}
    BY <1>2 DEF DeliveryInv, SharedOK, SharedKept
  <2>2. ASSUME NEW e \in PendingSet(Shared, r)'
        PROVE  /\ e \in DOMAIN commandOf'
               /\ backend' = "memory" =>
                    \/ commands'[commandOf'[e]].outcome = "raised"
                    \/ \E v \in Workers : IsBusy(v)' /\ Own(v, e)'
    <3>1. ASSUME OwnNext(w, e)
          PROVE  commands'[commandOf'[e]].outcome = "raised" \/ (IsBusy(w)' /\ Own(w, e)')
      <4>1. CASE IsBusy(w)'
        BY <1>1, <3>1, <4>1 DEF KeepsCommand, OwnNext, Own
      <4>2. CASE ~ IsBusy(w)'
        BY <1>1, <3>1, <4>2 DEF Ends, OwnNext
      <4>3. QED  BY <4>1, <4>2
    <3>2. ASSUME ~ OwnNext(w, e), backend = "memory"
          PROVE  \/ commands'[commandOf'[e]].outcome = "raised"
                 \/ \E v \in Workers : IsBusy(v)' /\ Own(v, e)'
      <4>1. e \in PendingSet(Shared, r)  BY <1>2, <3>2 DEF SharedKept
      <4>2. /\ e \in DOMAIN commandOf
            /\ \/ commands[commandOf[e]].outcome = "raised"
               \/ \E v \in Workers : IsBusy(v) /\ Own(v, e)
        BY <3>2, <4>1 DEF DeliveryInv, SharedOK
      <4>3. CASE commands[commandOf[e]].outcome = "raised"
        <5>1. commands'[commandOf[e]].outcome = commands[commandOf[e]].outcome
          BY <1>2, <1>4, <1>5, <4>2, <4>3 DEF CommandsKept
        <5>2. QED  BY <1>5, <4>2, <4>3, <5>1
      <4>4. ASSUME NEW v \in Workers, IsBusy(v), Own(v, e)
            PROVE  IsBusy(v)' /\ Own(v, e)'
        <5>1. v # w  BY <1>5, <3>2, <4>2, <4>4 DEF Own, OwnNext
        <5>2. QED  BY <1>2, <1>5, <4>2, <4>4, <5>1 DEF Own, IsBusy
      <4>5. QED  BY <4>2, <4>3, <4>4
    <3>3. e \in DOMAIN commandOf'
      <4>1. CASE OwnNext(w, e)  BY <4>1 DEF OwnNext
      <4>2. CASE e \in PendingSet(Shared, r)
        BY <1>5, <4>2 DEF DeliveryInv, SharedOK
      <4>3. QED  BY <1>2, <4>1, <4>2 DEF SharedKept
    <3>4. QED  BY <1>2, <3>1, <3>2, <3>3
  <2>3. QED  BY <2>1, <2>2
<1>9. EventsOK'
  <2>1. ASSUME NEW e \in DOMAIN commandOf' PROVE commandOf'[e] \in DOMAIN commands'
    <3>1. CASE e \in DOMAIN commandOf  BY <1>2, <1>5, <3>1 DEF CommandsKept
    <3>2. CASE OwnNext(w, e)  BY <1>2, <1>4, <3>2 DEF OwnNext, CommandsKept
    <3>3. QED  BY <1>2, <3>1, <3>2 DEF EventsKept
  <2>2. ASSUME NEW e \in swept' PROVE e \in DOMAIN commandOf'
    <3>1. e \in DOMAIN commandOf
      BY <1>2, <2>2 DEF SweptKept, DeliveryInv, EventsOK, SharedOK
    <3>2. QED  BY <1>5, <3>1
  <2>3. QED  BY <1>3, <2>1, <2>2 DEF EventsOK
<1>10. AuditOK'
  <2> SUFFICES ASSUME NEW i \in DOMAIN audit'
               PROVE  /\ audit'[i].event \in DOMAIN commandOf'
                      /\ \/ audit'[i].actor = commands'[commandOf'[audit'[i].event]].actor
                         \/ audit'[i].event \in swept'
    BY DEF AuditOK
  <2>1. ASSUME NEW e \in DOMAIN commandOf
        PROVE  commands'[commandOf'[e]].actor = commands[commandOf[e]].actor
    BY <1>2, <1>5 DEF CommandsKept
  <2>2. swept \subseteq swept'  BY <1>2 DEF SweptKept
  <2>3. CASE i \in DOMAIN audit /\ audit'[i] = audit[i]
    <3>1. /\ audit[i].event \in DOMAIN commandOf
          /\ \/ audit[i].actor = commands[commandOf[audit[i].event]].actor
             \/ audit[i].event \in swept
      BY <2>3 DEF DeliveryInv, AuditOK
    <3>2. QED  BY <1>5, <2>1, <2>2, <2>3, <3>1
  <2>4. CASE /\ IsBusy(w) /\ audit'[i].event \in DOMAIN commandOf
             /\ audit'[i].actor = CommandOf(w).actor
             /\ Own(w, audit'[i].event) \/ audit'[i].event \in swept
    BY <1>5, <2>1, <2>2, <2>4 DEF Own, CommandOf
  <2>5. QED  BY <1>2, <2>3, <2>4 DEF AuditKept
<1>11. AcknowledgedIsAudited'
  <2> SUFFICES ASSUME NEW e \in DOMAIN commandOf',
                      commands'[commandOf'[e]].outcome = "returned"
               PROVE  Audited(e, commands[commandOf[e]].actor)' \/ e \in swept'
    BY DEF AcknowledgedIsAudited
  <2>1. CASE IsBusy(w) /\ commandOf'[e] = worker[w].command
    <3>1. \/ \E i \in DOMAIN audit' : audit'[i] = [event |-> e, actor |-> CommandOf(w).actor]
          \/ e \in swept'
      BY <1>1, <2>1 DEF Ends
    <3>2. CommandOf(w).actor = commands'[commandOf'[e]].actor
      BY <1>2, <1>4, <2>1 DEF CommandsKept, CommandOf
    <3>3. QED  BY <3>1, <3>2 DEF Audited
  <2>2. CASE ~ (IsBusy(w) /\ commandOf'[e] = worker[w].command)
    <3>1. e \in DOMAIN commandOf  BY <1>2, <2>2 DEF EventsKept, OwnNext
    <3>2. /\ commands'[commandOf[e]].outcome = commands[commandOf[e]].outcome
          /\ commands'[commandOf[e]].actor = commands[commandOf[e]].actor
          /\ commandOf'[e] = commandOf[e]
      BY <1>2, <1>5, <2>2, <3>1 DEF CommandsKept
    <3>3. Audited(e, commands[commandOf[e]].actor) \/ e \in swept
      BY <3>1, <3>2 DEF DeliveryInv, AcknowledgedIsAudited
    <3>4. QED  BY <1>2, <3>2, <3>3 DEF AuditKept, SweptKept
  <2>3. QED  BY <2>1, <2>2
<1>12. OnlyThreadsSweep'
  <2> SUFFICES ASSUME NEW e \in swept', backend # "threads"
               PROVE  commands'[commandOf'[e]].outcome = "raised"
    BY <1>2 DEF OnlyThreadsSweep
  <2>1. e \in DOMAIN commandOf /\ commands[commandOf[e]].outcome = "raised"
    <3>1. CASE e \in swept
      BY <3>1 DEF DeliveryInv, EventsOK, OnlyThreadsSweep
    <3>2. ASSUME IsBusy(w), ~ Own(w, e), NEW r \in Recorders, e \in PendingSet(Shared, r)
          PROVE  e \in DOMAIN commandOf /\ commands[commandOf[e]].outcome = "raised"
      <4>1. backend = "memory" /\ e \in DOMAIN commandOf
        BY <3>2 DEF DeliveryInv, SharedOK, DeliveryTypeOK
      <4>2. ASSUME NEW v \in Workers, IsBusy(v), Own(v, e) PROVE FALSE
        BY <3>2, <4>1, <4>2 DEF DeliveryInv, OneWorkerEach
      <4>3. QED  BY <3>2, <4>1, <4>2 DEF DeliveryInv, SharedOK
    <3>3. QED  BY <1>2, <3>1, <3>2 DEF SweptKept
  <2>2. commands'[commandOf[e]].outcome = commands[commandOf[e]].outcome
    BY <1>2, <1>4, <1>5, <2>1 DEF CommandsKept
  <2>3. QED  BY <1>5, <2>1, <2>2
<1>13. QED
  BY <1>1, <1>6, <1>7, <1>8, <1>9, <1>10, <1>11, <1>12 DEF DeliveryInv

-----------------------------------------------------------------------------
(* Starting a command.                                                     *)

LEMMA InitDelivery == Init => DeliveryInv
<1> SUFFICES ASSUME Init PROVE DeliveryInv  OBVIOUS
<1>1. \A w \in Workers : worker[w] = Idle  BY DEF Init
<1>2. \A w \in Workers : ~ IsBusy(w)  BY <1>1 DEF IsBusy, Idle
<1>3. \A h \in Holders, r \in Recorders : PendingSet(h, r) = {}
  BY EmptySet DEF Init, Holders, PendingSet
<1>4. DeliveryTypeOK
  <2>1. Idle \in WorkerState
    BY EmptySeq DEF Idle, WorkerState
  <2>2. backend \in {"memory", "threads", "database"}
    BY EventDeliveryAssumption DEF Init
  <2>3. QED  BY <2>1, <2>2 DEF Init, DeliveryTypeOK, Holders
<1>5. \A w \in Workers : WorkerOK(w)
  BY <1>2, <1>3 DEF WorkerOK, CopiesOK, Holders
<1>6. OneWorkerEach  BY <1>2 DEF OneWorkerEach
<1>7. SharedOK  BY <1>3 DEF SharedOK, Holders
<1>8. DOMAIN commandOf = {} /\ DOMAIN audit = {} /\ swept = {}
  BY DEF Init
<1>9. EventsOK /\ AuditOK /\ AcknowledgedIsAudited /\ OnlyThreadsSweep /\ AuditedOnce
  BY <1>8 DEF EventsOK, AuditOK, AcknowledgedIsAudited, OnlyThreadsSweep, AuditedOnce
<1>10. QED  BY <1>4, <1>5, <1>6, <1>7, <1>9 DEF DeliveryInv

LEMMA Beyond ==
  ASSUME NEW n \in Nat
  PROVE  /\ n + 1 \notin 1 .. n /\ n + 1 \in 1 .. n + 1 /\ n + 1 \in Nat
         /\ \A i \in 1 .. n : i \in 1 .. n + 1 /\ i \in Nat
         /\ \A i \in 1 .. n + 1 : i \in 1 .. n \/ i = n + 1
OBVIOUS

LEMMA Fresh ==
  ASSUME NEW n \in Nat, NEW target \in Recorders \cup {None}, NEW z \in Seq(Nat), NEW s,
         s = [phase |-> "running", command |-> n, target |-> target, changes |-> 0, scope |-> z,
              tracked |-> {}, failing |-> FALSE, queue |-> z, captured |-> {}]
  PROVE  /\ s \in WorkerState
         /\ s.phase = "running" /\ s.command = n /\ s.target = target
         /\ s.scope = z /\ s.tracked = {} /\ s.failing = FALSE
         /\ s.queue = z /\ s.captured = {}
<1>1. s \in WorkerState  BY DEF WorkerState
<1>2. QED  BY <1>1

LEMMA Begun ==
  ASSUME NEW n, NEW target, NEW s,
         s = [Idle EXCEPT !.phase = "running", !.target = target, !.command = n]
  PROVE  s = [phase |-> "running", command |-> n, target |-> target, changes |-> 0,
              scope |-> <<>>, tracked |-> {}, failing |-> FALSE, queue |-> <<>>, captured |-> {}]
BY DEF Idle

LEMMA Extended ==
  ASSUME NEW S, NEW s \in Seq(S), NEW x \in S, NEW t, t = Append(s, x)
  PROVE  /\ t \in Seq(S) /\ Len(t) = Len(s) + 1 /\ Len(s) \in Nat
         /\ DOMAIN s = 1 .. Len(s) /\ DOMAIN t = 1 .. Len(s) + 1
         /\ Len(s) + 1 \in DOMAIN t /\ Len(s) + 1 \notin DOMAIN s /\ t[Len(s) + 1] = x
         /\ \A k \in DOMAIN s : k \in DOMAIN t /\ t[k] = s[k]
         /\ \A k \in DOMAIN t : k \in DOMAIN s \/ k = Len(s) + 1
<1>1. t \in Seq(S) /\ Len(t) = Len(s) + 1  BY AppendProperties
<1>2. t[Len(s) + 1] = x  BY AppendProperties
<1>3. Len(s) \in Nat /\ DOMAIN s = 1 .. Len(s)  OBVIOUS
<1>4. DOMAIN t = 1 .. Len(s) + 1  BY <1>1
<1>5. ASSUME NEW k \in DOMAIN s PROVE k \in DOMAIN t /\ t[k] = s[k]
  BY <1>3, <1>4, AppendProperties, Beyond
<1>6. Len(s) + 1 \in DOMAIN t /\ Len(s) + 1 \notin DOMAIN s  BY <1>3, <1>4, Beyond
<1>7. ASSUME NEW k \in DOMAIN t PROVE k \in DOMAIN s \/ k = Len(s) + 1
  BY <1>3, <1>4, Beyond
<1>8. QED  BY <1>1, <1>2, <1>3, <1>4, <1>5, <1>6, <1>7

LEMMA Types ==
  ASSUME DeliveryInv
  PROVE  /\ commands \in Seq(Command) /\ commandOf \in Seq(Nat)
         /\ pending \in [Holders -> [Recorders -> Seq(Nat)]]
         /\ worker \in [Workers -> WorkerState]
         /\ audit \in Seq([event : Nat, actor : Actors \cup {None}])
         /\ Len(commands) \in Nat /\ DOMAIN commands = 1 .. Len(commands)
         /\ Len(commandOf) \in Nat /\ DOMAIN commandOf = 1 .. Len(commandOf)
         /\ Len(audit) \in Nat /\ DOMAIN audit = 1 .. Len(audit)
<1>1. DeliveryTypeOK  BY DEF DeliveryInv
<1>2. /\ commands \in Seq(Command) /\ commandOf \in Seq(Nat)
      /\ audit \in Seq([event : Nat, actor : Actors \cup {None}])
  BY <1>1 DEF DeliveryTypeOK
<1>3. QED  BY <1>1, <1>2 DEF DeliveryTypeOK

\* Every command but the one that is not permitted has a target.
HasTarget(kind, target) ==
  kind \in KindsOfCommand /\ (kind # "not permitted" => target \in Recorders)

LEMMA BeginStep ==
  ASSUME DeliveryInv, NEW w \in Workers, NEW kind, NEW actor \in Actors \cup {None},
         NEW target \in Recorders \cup {None}, HasTarget(kind, target),
         Begin(w, kind, actor, target)
  PROVE  Guarantee(w)
<1> DEFINE c == [kind |-> kind, actor |-> actor, outcome |-> "running"]
<1>1. /\ worker[w].phase = "idle" /\ ~ IsBusy(w)
      /\ backend = "memory" => Busy = {}
      /\ commands' = Append(commands, c)
      /\ backend' = backend /\ commandOf' = commandOf /\ pending' = pending
      /\ audit' = audit /\ swept' = swept
  <2>1. worker[w].phase = "idle"  BY DEF Begin
  <2>2. commands' = Append(commands, c)  BY DEF Begin
  <2>3. QED  BY <2>1, <2>2 DEF Begin, IsBusy
<1>2. worker' = [worker EXCEPT ![w] = [Idle EXCEPT !.phase = "running", !.target = target,
                                                   !.command = Len(commands) + 1]]
  BY DEF Begin
<1>3. /\ commands \in Seq(Command) /\ worker \in [Workers -> WorkerState] /\ c \in Command
      /\ Len(commands) \in Nat /\ DOMAIN commands = 1 .. Len(commands)
  <2>1. c \in Command  BY DEF Command, HasTarget
  <2>2. QED  BY <2>1, Types
<1> HIDE DEF c
<1> DEFINE n == Len(commands) + 1
<1>4. /\ commands' \in Seq(Command) /\ DOMAIN commands' = 1 .. Len(commands')
      /\ n \in Nat /\ n \notin DOMAIN commands /\ n \in DOMAIN commands' /\ commands'[n] = c
      /\ \A d \in DOMAIN commands : d \in DOMAIN commands' /\ commands'[d] = commands[d]
  <2>1. commands' = Append(commands, c)  BY <1>1
  <2>2. commands' \in Seq(Command) /\ n \notin DOMAIN commands /\ n \in DOMAIN commands' /\ commands'[n] = c
    BY <1>3, <2>1, Extended
  <2>3. ASSUME NEW d \in DOMAIN commands PROVE d \in DOMAIN commands' /\ commands'[d] = commands[d]
    BY <1>3, <2>1, Extended
  <2>4. n \in Nat /\ DOMAIN commands' = 1 .. Len(commands')  BY <1>3, <2>2
  <2>5. QED  BY <2>2, <2>3, <2>4
<1> HIDE DEF n
<1>5. /\ worker'[w].phase = "running" /\ worker'[w].command = n
      /\ worker'[w].target = target /\ worker'[w].scope = <<>> /\ worker'[w].tracked = {}
      /\ worker'[w].failing = FALSE /\ worker'[w].queue = <<>> /\ worker'[w].captured = {}
      /\ worker'[w] \in WorkerState
      /\ worker' \in [Workers -> WorkerState]
      /\ \A v \in Workers : v # w => worker'[v] = worker[v]
  <2> DEFINE s == [Idle EXCEPT !.phase = "running", !.target = target, !.command = n]
  <2>1. worker' = [worker EXCEPT ![w] = s]  BY <1>2 DEF n
  <2>a. s = [phase |-> "running", command |-> n, target |-> target, changes |-> 0,
             scope |-> <<>>, tracked |-> {}, failing |-> FALSE, queue |-> <<>>, captured |-> {}]
    BY Begun
  <2>b. <<>> \in Seq(Nat) /\ n \in Nat  BY <1>4, EmptySeq
  <2> HIDE DEF s
  <2>2. /\ s \in WorkerState
        /\ s.phase = "running" /\ s.command = n /\ s.target = target
        /\ s.scope = <<>> /\ s.tracked = {} /\ s.failing = FALSE
        /\ s.queue = <<>> /\ s.captured = {}
    BY <2>a, <2>b, Fresh
  <2>3. /\ worker'[w] = s /\ worker' \in [Workers -> WorkerState]
        /\ \A v \in Workers : v # w => worker'[v] = worker[v]
    BY <1>3, <2>1, <2>2
  <2>4. QED  BY <2>2, <2>3
<1>6. DeliveryTypeOK'
  BY <1>1, <1>4, <1>5 DEF DeliveryInv, DeliveryTypeOK
<1>7. ASSUME NEW e PROVE ~ Own(w, e)'
  <2>1. e \in DOMAIN commandOf => commandOf[e] \in 1 .. Len(commands)
    BY DEF DeliveryInv, EventsOK
  <2>2. Own(w, e)' => e \in DOMAIN commandOf /\ commandOf[e] = n  BY <1>1, <1>5 DEF Own
  <2>3. QED  BY <1>3, <1>4, <2>1, <2>2
<1>8. WorkerOK(w)'
  <2>1. Assigned(w)'
    <3>1. CommandOf(w)' = c  BY <1>4, <1>5 DEF CommandOf
    <3>2. c.kind = kind /\ c.outcome = "running"  BY DEF c
    <3>3. worker'[w].command \in 1 .. Len(commands')  BY <1>4, <1>5
    <3>4. CommandOf(w)'.kind # "not permitted" => worker'[w].target \in Recorders
      BY <1>5, <3>1, <3>2 DEF HasTarget
    <3>5. worker'[w].failing = FALSE /\ worker'[w].phase # "raised"
      BY <1>5
    <3>6. QED  BY <1>5, <3>1, <3>2, <3>3, <3>4, <3>5 DEF Assigned
  <2>2. BusyOK(w)'
    BY <1>5, <1>7, <2>1, EmptySet DEF BusyOK
  <2>3. CopiesOK(w)'
    <3>1. \A r \in Recorders : PendingSet(w, r) = {}
      BY <1>1 DEF DeliveryInv, WorkerOK, CopiesOK
    <3>2. \A r \in Recorders : PendingSet(w, r)' = {}
      BY <1>1, <3>1 DEF PendingSet
    <3>3. QED  BY <3>2 DEF CopiesOK
  <2>4. QED  BY <2>2, <2>3 DEF WorkerOK
<1>9. Effect(w)
  <2>1. CommandsKept(w)
    <3>1. ASSUME NEW d \in DOMAIN commands
          PROVE  d \in DOMAIN commands' /\ commands'[d] = commands[d]
      BY <1>4
    <3>2. QED  BY <3>1 DEF CommandsKept
  <2>2. EventsKept(w)  BY <1>1 DEF EventsKept
  <2>3. SharedKept(w)  BY <1>1 DEF SharedKept, PendingSet
  <2>4. SweptKept(w)  BY <1>1 DEF SweptKept
  <2>5. AuditKept(w)  BY <1>1 DEF AuditKept, Audited
  <2>6. QED  BY <1>1, <1>5, <2>1, <2>2, <2>3, <2>4, <2>5 DEF Effect
<1>10. KeepsCommand(w)
  <2>1. backend = "memory" => \A v \in Workers : ~ IsBusy(v)  BY <1>1 DEF Busy, IsBusy
  <2>2. worker'[w].command \notin DOMAIN commands  BY <1>4, <1>5
  <2>3. QED  BY <1>1, <2>1, <2>2 DEF KeepsCommand
<1>11. Ends(w)  BY <1>1 DEF Ends
<1>12. AuditedOnce'  BY <1>1 DEF DeliveryInv, AuditedOnce
<1>13. QED  BY <1>6, <1>8, <1>9, <1>10, <1>11, <1>12 DEF Guarantee

LEMMA StartStep ==
  ASSUME DeliveryInv, NEW w \in Workers, Start(w)
  PROVE  Guarantee(w)
<1>1. Routes \subseteq Recorders /\ Customers \subseteq Recorders  BY DEF Recorders
<1>2. KindsOfCommand = {"assign packages", "create package", "not permitted", "heartbeat"}
  BY DEF KindsOfCommand
<1>3. CASE \E actor \in Actors, r \in Routes : Begin(w, "assign packages", actor, r)
  BY <1>1, <1>2, <1>3, BeginStep DEF HasTarget
<1>4. CASE \E actor \in Actors, k \in Customers : Begin(w, "create package", actor, k)
  BY <1>1, <1>2, <1>4, BeginStep DEF HasTarget
<1>5. CASE \E actor \in Actors \cup {None} : Begin(w, "not permitted", actor, None)
  BY <1>2, <1>5, BeginStep DEF HasTarget
<1>6. CASE \E actor \in Actors \cup {None}, r \in Routes : Begin(w, "heartbeat", actor, r)
  BY <1>1, <1>2, <1>6, BeginStep DEF HasTarget
<1>7. QED  BY <1>3, <1>4, <1>5, <1>6 DEF Start

-----------------------------------------------------------------------------
(* Running a command.                                                      *)

\* What every step of a running command does; its place in the worker's state
\* and the events it may leave there are the step's own.
Ran(w) ==
  /\ backend' = backend /\ commands' = commands /\ audit' = audit /\ swept' = swept
  /\ worker' \in [Workers -> WorkerState]
  /\ \A v \in Workers : v # w => worker'[v] = worker[v] /\ pending'[v] = pending[v]
  /\ worker'[w].command = worker[w].command /\ worker'[w].queue = worker[w].queue
  /\ commandOf' \in Seq(Nat) /\ EventsKept(w)
  /\ pending' \in [Holders -> [Recorders -> Seq(Nat)]]
  /\ \A h \in Holders, r \in Recorders :
       /\ \A e \in PendingSet(h, r) : e \in PendingSet(h, r)'
       /\ \A e \in PendingSet(h, r)' :
            e \in PendingSet(h, r) \/ (OwnNext(w, e) /\ h = Holder(w, r))

LEMMA RunStep ==
  ASSUME DeliveryInv, NEW w \in Workers, IsBusy(w), IsBusy(w)', Ran(w),
         \A e : e \in ToSet(worker'[w].scope) => OwnNext(w, e),
         Assigned(w)',
         \A e : OwnNext(w, e) /\ e \notin swept => Held(w, e)',
         \A r \in Recorders : \A e : e \in PendingSet(Shared, r)' /\ OwnNext(w, e) => Placed(w, r)'
  PROVE  Guarantee(w)
<1>1. \A e : Own(w, e)' <=> OwnNext(w, e)
  BY DEF Ran, Own, OwnNext
<1>2. \A e : Own(w, e) => OwnNext(w, e)
  BY DEF Ran, EventsKept, Own, OwnNext
<1>3. w \in Holders /\ Shared \in Holders  BY DEF Holders
<1>4. DeliveryTypeOK'
  BY DEF Ran, DeliveryInv, DeliveryTypeOK
<1>5. WorkerOK(w)'
  <2>1. \A e \in DOMAIN commandOf' : Own(w, e)' /\ e \notin swept' => Held(w, e)'
    BY <1>1 DEF Ran
  <2>2. \A r \in Recorders : \A e \in PendingSet(Shared, r)' : Own(w, e)' => Placed(w, r)'
    BY <1>1
  <2>3. \A e \in ToSet(worker'[w].queue) :
          e \in DOMAIN commandOf' /\ (Own(w, e)' \/ e \in swept')
    <3> SUFFICES ASSUME NEW e \in ToSet(worker'[w].queue)
                 PROVE  e \in DOMAIN commandOf' /\ (Own(w, e)' \/ e \in swept')
      OBVIOUS
    <3>1. e \in ToSet(worker[w].queue)  BY DEF Ran
    <3>2. e \in DOMAIN commandOf /\ (Own(w, e) \/ e \in swept)
      BY <3>1, BusyFacts DEF BusyOK
    <3>3. QED  BY <1>1, <1>2, <3>2 DEF Ran, EventsKept
  <2>4. \A e \in ToSet(worker'[w].scope) : Own(w, e)'
    BY <1>1
  <2>5. BusyOK(w)'  BY <2>1, <2>2, <2>3, <2>4 DEF BusyOK
  <2>6. CopiesOK(w)'
    <3> SUFFICES ASSUME NEW r \in Recorders, NEW e \in PendingSet(w, r)'
                 PROVE  IsBusy(w)' /\ Own(w, e)'
      BY DEF CopiesOK
    <3>1. e \in PendingSet(w, r) \/ OwnNext(w, e)  BY <1>3 DEF Ran
    <3>2. e \in PendingSet(w, r) => Own(w, e)  BY DEF DeliveryInv, WorkerOK, CopiesOK
    <3>3. QED  BY <1>1, <1>2, <3>1, <3>2
  <2>7. QED  BY <2>5, <2>6 DEF WorkerOK
<1>6. Effect(w)
  <2>1. CommandsKept(w)  BY DEF Ran, CommandsKept
  <2>2. SharedKept(w)
    <3> SUFFICES ASSUME NEW r \in Recorders
                 PROVE  /\ \A e \in PendingSet(Shared, r) :
                             e \in PendingSet(Shared, r)' \/ e \in swept' \/ OwnNext(w, e)
                        /\ \A e \in PendingSet(Shared, r)' :
                             \/ e \in PendingSet(Shared, r)
                             \/ OwnNext(w, e) /\ backend # "database" /\ r # Parcel
      BY DEF SharedKept
    <3>1. Holder(w, r) = Shared => backend # "database" /\ r # Parcel
      BY EventDeliveryAssumption DEF Holder
    <3>2. QED  BY <1>3, <3>1 DEF Ran
  <2>3. SweptKept(w)  BY DEF Ran, SweptKept
  <2>4. AuditKept(w)  BY DEF Ran, AuditKept, Audited
  <2>5. QED  BY <2>1, <2>2, <2>3, <2>4 DEF Ran, Effect
<1>7. KeepsCommand(w)  BY DEF Ran, KeepsCommand
<1>8. Ends(w)
  <2>1. commands'[worker[w].command].outcome = "running"
    BY BusyFacts DEF Ran, CommandOf
  <2>2. QED  BY <2>1 DEF Ends
<1>9. AuditedOnce'  BY DEF Ran, DeliveryInv, AuditedOnce
<1>10. QED  BY <1>4, <1>5, <1>6, <1>7, <1>8, <1>9 DEF Guarantee

\* The next event is pending on one recorder and everything else as before.
NewPending(w, r) ==
  pending' = [pending EXCEPT ![Holder(w, r)][r] = Append(@, NewEvent)]

LEMMA PendingGrows ==
  ASSUME DeliveryInv, NEW w \in Workers, NEW r \in Recorders, NewPending(w, r)
  PROVE  /\ NewEvent \in Nat /\ pending' \in [Holders -> [Recorders -> Seq(Nat)]]
         /\ \A v \in Workers : v # w => pending'[v] = pending[v]
         /\ \A h \in Holders, q \in Recorders :
              PendingSet(h, q)' = PendingSet(h, q) \cup
                (IF h = Holder(w, r) /\ q = r THEN {NewEvent} ELSE {})
<1>1. pending \in [Holders -> [Recorders -> Seq(Nat)]] /\ NewEvent \in Nat
  BY Types DEF NewEvent
<1> USE DEF NewPending
<1>2. Holder(w, r) \in Holders /\ Shared \notin Workers
  BY EventDeliveryAssumption DEF Holder, Holders
<1>3. /\ Append(pending[Holder(w, r)][r], NewEvent) \in Seq(Nat)
      /\ ToSet(Append(pending[Holder(w, r)][r], NewEvent))
           = ToSet(pending[Holder(w, r)][r]) \cup {NewEvent}
  <2>1. pending[Holder(w, r)][r] \in Seq(Nat)  BY <1>1, <1>2
  <2>2. QED  BY <1>1, <2>1, AppendSet
<1>4. ASSUME NEW h \in Holders, NEW q \in Recorders
      PROVE  pending'[h][q] = IF h = Holder(w, r) /\ q = r
                              THEN Append(pending[h][q], NewEvent) ELSE pending[h][q]
  BY <1>1, <1>2
<1>5. pending' \in [Holders -> [Recorders -> Seq(Nat)]]
  BY <1>1, <1>2, <1>3
<1>6. \A v \in Workers : v # w => pending'[v] = pending[v]
  <2>1. \A v \in Workers : v # w => v # Holder(w, r)  BY <1>2 DEF Holder
  <2>2. QED  BY <1>1, <1>2, <2>1 DEF Holders
<1>7. ASSUME NEW h \in Holders, NEW q \in Recorders
      PROVE  PendingSet(h, q)' = PendingSet(h, q) \cup
               (IF h = Holder(w, r) /\ q = r THEN {NewEvent} ELSE {})
  BY <1>3, <1>4 DEF PendingSet
<1>8. QED  BY <1>1, <1>5, <1>6, <1>7

LEMMA EventAppended ==
  ASSUME DeliveryInv, NEW w \in Workers, IsBusy(w),
         commandOf' = Append(commandOf, worker[w].command)
  PROVE  /\ commandOf' \in Seq(Nat) /\ EventsKept(w) /\ OwnNext(w, NewEvent)
         /\ \A e : OwnNext(w, e) => Own(w, e) \/ e = NewEvent
<1>1. commandOf \in Seq(Nat) /\ worker[w].command \in Nat
  BY Types DEF WorkerState
<1>2. /\ commandOf' \in Seq(Nat) /\ NewEvent \in DOMAIN commandOf'
      /\ commandOf'[NewEvent] = worker[w].command
  BY <1>1, Extended DEF NewEvent
<1>3. ASSUME NEW e \in DOMAIN commandOf
      PROVE  e \in DOMAIN commandOf' /\ commandOf'[e] = commandOf[e]
  BY <1>1, Extended
<1>4. ASSUME NEW e \in DOMAIN commandOf' PROVE e \in DOMAIN commandOf \/ e = NewEvent
  BY <1>1, Extended DEF NewEvent
<1>5. QED  BY <1>2, <1>3, <1>4 DEF EventsKept, OwnNext, Own

\* One event, recorded on r.
LEMMA RecordStep ==
  ASSUME DeliveryInv, NEW w \in Workers, IsBusy(w), NEW r \in Recorders, RecordOn(w, r),
         backend' = backend, commands' = commands, audit' = audit, swept' = swept,
         worker' \in [Workers -> WorkerState],
         \A v \in Workers : v # w => worker'[v] = worker[v],
         worker'[w].command = worker[w].command, worker'[w].queue = worker[w].queue
  PROVE  /\ Ran(w) /\ OwnNext(w, NewEvent)
         /\ NewEvent \in ToSet(pending'[Holder(w, r)][r])
         /\ \A q \in Recorders : \A e :
              e \in PendingSet(Shared, q)' => e \in PendingSet(Shared, q) \/ q = r
         /\ \A e : OwnNext(w, e) => Own(w, e) \/ e = NewEvent
<1>1. /\ commandOf' \in Seq(Nat) /\ EventsKept(w) /\ OwnNext(w, NewEvent)
      /\ \A e : OwnNext(w, e) => Own(w, e) \/ e = NewEvent
  BY EventAppended DEF RecordOn
<1>2. /\ pending' \in [Holders -> [Recorders -> Seq(Nat)]]
      /\ \A v \in Workers : v # w => pending'[v] = pending[v]
      /\ \A h \in Holders, q \in Recorders :
           PendingSet(h, q)' = PendingSet(h, q) \cup
             (IF h = Holder(w, r) /\ q = r THEN {NewEvent} ELSE {})
  BY PendingGrows DEF RecordOn, NewPending
<1>3. Holder(w, r) \in Holders /\ Shared \in Holders  BY DEF Holder, Holders
<1>4. ASSUME NEW h \in Holders, NEW q \in Recorders
      PROVE  /\ \A e \in PendingSet(h, q) : e \in PendingSet(h, q)'
             /\ \A e \in PendingSet(h, q)' :
                  e \in PendingSet(h, q) \/ (OwnNext(w, e) /\ h = Holder(w, q))
  BY <1>1, <1>2
<1>5. Ran(w)
  BY <1>1, <1>2, <1>4 DEF Ran
<1>6. NewEvent \in ToSet(pending'[Holder(w, r)][r])
  BY <1>2, <1>3 DEF PendingSet
<1>7. ASSUME NEW q \in Recorders, NEW e, e \in PendingSet(Shared, q)'
      PROVE  e \in PendingSet(Shared, q) \/ q = r
  BY <1>2, <1>3, <1>7
<1>8. QED  BY <1>1, <1>5, <1>6, <1>7

\* A step that records nothing on an entity.
LEMMA MoveStep ==
  ASSUME DeliveryInv, NEW w \in Workers, commandOf' \in Seq(Nat), EventsKept(w),
         backend' = backend, commands' = commands, audit' = audit, swept' = swept,
         pending' = pending, worker' \in [Workers -> WorkerState],
         \A v \in Workers : v # w => worker'[v] = worker[v],
         worker'[w].command = worker[w].command, worker'[w].queue = worker[w].queue
  PROVE  Ran(w)
<1>1. pending \in [Holders -> [Recorders -> Seq(Nat)]]  BY Types
<1>2. \A h \in Holders, r \in Recorders : PendingSet(h, r)' = PendingSet(h, r)
  BY DEF PendingSet
<1>3. QED  BY <1>1, <1>2 DEF Ran

\* Where the worker of a running command is put when it returns or raises.
LEMMA ReturnFields ==
  ASSUME DeliveryInv, NEW w \in Workers, NEW tracked \in SUBSET Recorders,
         NEW scope \in Seq(Nat), Return(w, tracked, scope)
  PROVE  /\ worker' \in [Workers -> WorkerState]
         /\ \A v \in Workers : v # w => worker'[v] = worker[v]
         /\ worker'[w].phase = "returned" /\ worker'[w].tracked = tracked
         /\ worker'[w].scope = scope
         /\ worker'[w].command = worker[w].command /\ worker'[w].target = worker[w].target
         /\ worker'[w].queue = worker[w].queue /\ worker'[w].failing = worker[w].failing
<1> DEFINE t == [worker[w] EXCEPT !.phase = "returned", !.tracked = tracked, !.scope = scope]
<1>1. worker \in [Workers -> WorkerState]  BY Types
<1>2. worker' = [worker EXCEPT ![w] = t]  BY <1>1 DEF Return
<1>3. worker[w] \in WorkerState  BY <1>1
<1>4. t \in WorkerState  BY <1>3 DEF WorkerState
<1>5. /\ t.phase = "returned" /\ t.tracked = tracked /\ t.scope = scope
      /\ t.command = worker[w].command /\ t.target = worker[w].target
      /\ t.queue = worker[w].queue /\ t.failing = worker[w].failing
  BY <1>3 DEF WorkerState
<1> HIDE DEF t
<1>6. worker'[w] = t /\ worker' \in [Workers -> WorkerState]  BY <1>1, <1>2, <1>4
<1>7. ASSUME NEW v \in Workers, v # w PROVE worker'[v] = worker[v]  BY <1>1, <1>2, <1>7
<1>8. QED  BY <1>5, <1>6, <1>7

LEMMA RaiseFields ==
  ASSUME DeliveryInv, NEW w \in Workers, NEW scope \in Seq(Nat), Raise(w, scope)
  PROVE  /\ worker' \in [Workers -> WorkerState]
         /\ \A v \in Workers : v # w => worker'[v] = worker[v]
         /\ worker'[w].phase = "raised" /\ worker'[w].tracked = worker[w].tracked
         /\ worker'[w].scope = scope /\ worker'[w].failing = TRUE
         /\ worker'[w].command = worker[w].command /\ worker'[w].target = worker[w].target
         /\ worker'[w].queue = worker[w].queue
<1> DEFINE t == [worker[w] EXCEPT !.phase = "raised", !.failing = TRUE, !.scope = scope]
<1>1. worker \in [Workers -> WorkerState]  BY Types
<1>2. worker' = [worker EXCEPT ![w] = t]  BY <1>1 DEF Raise
<1>3. worker[w] \in WorkerState  BY <1>1
<1>4. t \in WorkerState  BY <1>3 DEF WorkerState
<1>5. /\ t.phase = "raised" /\ t.tracked = worker[w].tracked /\ t.scope = scope
      /\ t.command = worker[w].command /\ t.target = worker[w].target
      /\ t.queue = worker[w].queue /\ t.failing = TRUE
  BY <1>3 DEF WorkerState
<1> HIDE DEF t
<1>6. worker'[w] = t /\ worker' \in [Workers -> WorkerState]  BY <1>1, <1>2, <1>4
<1>7. ASSUME NEW v \in Workers, v # w PROVE worker'[v] = worker[v]  BY <1>1, <1>2, <1>7
<1>8. QED  BY <1>5, <1>6, <1>7

LEMMA RunningFacts ==
  ASSUME DeliveryInv, NEW w \in Workers, NEW kind, Running(w, kind)
  PROVE  /\ IsBusy(w) /\ worker[w].phase = "running" /\ CommandOf(w).kind = kind
         /\ worker[w].command \in 1 .. Len(commands) /\ CommandOf(w).outcome = "running"
         /\ ~ worker[w].failing
         /\ worker[w].tracked \subseteq {Parcel, worker[w].target}
         /\ CommandOf(w).kind # "not permitted" => worker[w].target \in Recorders
         /\ \A e : Own(w, e) /\ e \notin swept =>
              RecordsOnTarget(w) /\ e \in ToSet(PendingOf(w, worker[w].target))
         /\ \A r \in Recorders : \A e : e \in PendingSet(Shared, r) /\ Own(w, e) =>
              RecordsOnTarget(w) /\ r = worker[w].target
<1>1. IsBusy(w) /\ worker[w].phase = "running" /\ CommandOf(w).kind = kind
  BY DEF Running, IsBusy, CommandOf
<1>2. BusyOK(w) /\ Assigned(w)  BY <1>1, BusyFacts
<1>3. ASSUME NEW e, Own(w, e), e \notin swept
      PROVE  RecordsOnTarget(w) /\ e \in ToSet(PendingOf(w, worker[w].target))
  BY <1>1, <1>2, <1>3 DEF BusyOK, Held, Own
<1>4. ASSUME NEW r \in Recorders, NEW e, e \in PendingSet(Shared, r), Own(w, e)
      PROVE  RecordsOnTarget(w) /\ r = worker[w].target
  BY <1>1, <1>2, <1>4 DEF BusyOK, Placed
<1>5. /\ worker[w].command \in 1 .. Len(commands) /\ CommandOf(w).outcome = "running"
      /\ worker[w].tracked \subseteq {Parcel, worker[w].target}
      /\ CommandOf(w).kind # "not permitted" => worker[w].target \in Recorders
  BY <1>1, <1>2 DEF Assigned
<1>6. ~ worker[w].failing  BY <1>1, <1>2 DEF Assigned
<1>7. QED  BY <1>1, <1>3, <1>4, <1>5, <1>6

LEMMA RanKeeps ==
  ASSUME DeliveryInv, NEW w \in Workers, IsBusy(w), Ran(w)
  PROVE  /\ \A e : Own(w, e) => OwnNext(w, e)
         /\ \A r \in Recorders : \A e : e \in ToSet(PendingOf(w, r)) => e \in ToSet(PendingOf(w, r))'
         /\ CommandOf(w)' = CommandOf(w)
<1>1. \A e : Own(w, e) => OwnNext(w, e)
  BY DEF Ran, EventsKept, Own, OwnNext
<1>2. ASSUME NEW r \in Recorders, NEW e, e \in ToSet(PendingOf(w, r))
      PROVE  e \in ToSet(PendingOf(w, r))'
  <2>1. Holder(w, r) \in Holders /\ Holder(w, r)' = Holder(w, r)
    BY DEF Holder, Holders, Ran
  <2>2. e \in PendingSet(Holder(w, r), r)  BY <1>2 DEF PendingOf, PendingSet
  <2>3. e \in ToSet(pending'[Holder(w, r)][r])  BY <2>1, <2>2 DEF Ran, PendingSet
  <2>4. QED  BY <2>1, <2>3 DEF PendingOf
<1>3. CommandOf(w)' = CommandOf(w)  BY DEF Ran, CommandOf
<1>4. QED  BY <1>1, <1>2, <1>3

LEMMA AssignedNext ==
  ASSUME DeliveryInv, NEW w \in Workers, IsBusy(w), Ran(w),
         worker'[w].target = worker[w].target,
         \/ worker'[w].phase \in {"running", "returned"} /\ worker'[w].failing = FALSE
         \/ worker'[w].phase = "raised" /\ worker'[w].failing = TRUE,
         worker'[w].tracked \subseteq {Parcel, worker[w].target}
  PROVE  Assigned(w)' /\ IsBusy(w)'
<1>1. Assigned(w)  BY BusyFacts
<1>2. CommandOf(w)' = CommandOf(w)  BY RanKeeps
<1>3. CommandOf(w)'.outcome = "running"  BY <1>1, <1>2 DEF Assigned
<1>4. worker'[w].command \in 1 .. Len(commands')  BY <1>1 DEF Ran, Assigned
<1>5. /\ worker'[w].phase \in {"running", "returned"} => ~ worker'[w].failing
      /\ worker'[w].phase = "raised" => worker'[w].failing
      /\ worker'[w].phase # "idle"
  OBVIOUS
<1>6. worker'[w].tracked \subseteq {Parcel, worker'[w].target}  OBVIOUS
<1>7. CommandOf(w)'.kind # "not permitted" => worker'[w].target \in Recorders
  BY <1>1, <1>2 DEF Assigned
<1>8. QED  BY <1>3, <1>4, <1>5, <1>6, <1>7 DEF Assigned, IsBusy

LEMMA AssignPackageStep ==
  ASSUME DeliveryInv, NEW w \in Workers, AssignPackage(w)
  PROVE  Guarantee(w)
<1>a. PICK r : r = worker[w].target  OBVIOUS
<1>1. Running(w, "assign packages") /\ RecordOn(w, r)  BY <1>a DEF AssignPackage
<1>2. /\ IsBusy(w) /\ worker[w].phase = "running" /\ CommandOf(w).kind = "assign packages"
      /\ ~ worker[w].failing /\ worker[w].tracked \subseteq {Parcel, r} /\ r \in Recorders
  <2>1. /\ IsBusy(w) /\ worker[w].phase = "running" /\ CommandOf(w).kind = "assign packages"
        /\ worker[w].tracked \subseteq {Parcel, r}
    BY <1>a, <1>1, RunningFacts
  <2>2. ~ worker[w].failing  BY <1>1, RunningFacts
  <2>3. CommandOf(w).kind # "not permitted" => worker[w].target \in Recorders
    BY <1>1, RunningFacts
  <2>4. QED  BY <1>a, <2>1, <2>2, <2>3
<1>b. ASSUME NEW e, Own(w, e), e \notin swept PROVE e \in ToSet(PendingOf(w, r))
  BY <1>a, <1>b, <1>1, RunningFacts
<1>c. ASSUME NEW q \in Recorders, NEW e, e \in PendingSet(Shared, q), Own(w, e) PROVE q = r
  BY <1>a, <1>c, <1>1, RunningFacts
<1>3. /\ worker' \in [Workers -> WorkerState]
      /\ \A v \in Workers : v # w => worker'[v] = worker[v]
      /\ worker'[w].phase = "running" /\ worker'[w].changes > 0
      /\ worker'[w].failing = worker[w].failing
      /\ worker'[w].tracked = worker[w].tracked /\ worker'[w].scope = worker[w].scope
      /\ worker'[w].command = worker[w].command /\ worker'[w].target = worker[w].target
      /\ worker'[w].queue = worker[w].queue
  <2>1. worker \in [Workers -> WorkerState] /\ worker[w] \in WorkerState  BY Types
  <2>a. PICK m : m = worker[w].changes + 1  OBVIOUS
  <2>b. m \in Nat /\ m > 0  BY <2>1, <2>a DEF WorkerState
  <2> DEFINE t == [worker[w] EXCEPT !.changes = m]
  <2>2. worker' = [worker EXCEPT ![w] = t]  BY <2>1, <2>a DEF AssignPackage
  <2>3. t \in WorkerState  BY <2>1, <2>b DEF WorkerState
  <2>4. /\ t.phase = worker[w].phase /\ t.changes > 0 /\ t.failing = worker[w].failing
        /\ t.tracked = worker[w].tracked /\ t.scope = worker[w].scope
        /\ t.command = worker[w].command /\ t.target = worker[w].target
        /\ t.queue = worker[w].queue
    BY <2>1, <2>b DEF WorkerState
  <2> HIDE DEF t
  <2>5. worker'[w] = t /\ worker' \in [Workers -> WorkerState]  BY <2>1, <2>2, <2>3
  <2>6. ASSUME NEW v \in Workers, v # w PROVE worker'[v] = worker[v]  BY <2>1, <2>2, <2>6
  <2>7. QED  BY <1>2, <2>4, <2>5, <2>6
<1>4. /\ Ran(w) /\ OwnNext(w, NewEvent) /\ NewEvent \in ToSet(pending'[Holder(w, r)][r])
      /\ \A q \in Recorders : \A e :
           e \in PendingSet(Shared, q)' => e \in PendingSet(Shared, q) \/ q = r
      /\ \A e : OwnNext(w, e) => Own(w, e) \/ e = NewEvent
  <2>1. backend' = backend /\ commands' = commands /\ audit' = audit /\ swept' = swept
    BY DEF AssignPackage
  <2>2. QED  BY <1>1, <1>2, <1>3, <2>1, RecordStep
<1>5. CommandOf(w)' = CommandOf(w)  BY <1>2, <1>4, RanKeeps
<1>d. ASSUME NEW e, Own(w, e) PROVE OwnNext(w, e)  BY <1>2, <1>4, <1>d, RanKeeps
<1>e. ASSUME NEW e, e \in ToSet(PendingOf(w, r)) PROVE e \in ToSet(PendingOf(w, r))'
  BY <1>2, <1>4, <1>e, RanKeeps
<1>6. Assigned(w)' /\ IsBusy(w)'
  BY <1>a, <1>2, <1>3, <1>4, AssignedNext DEF DeliveryInv, DeliveryTypeOK, WorkerState
<1>7. RecordsOnTarget(w)'
  BY <1>2, <1>3, <1>5 DEF RecordsOnTarget
<1>8. ASSUME NEW e, OwnNext(w, e), e \notin swept PROVE Held(w, e)'
  <2>1. e \in ToSet(PendingOf(w, worker[w].target))'
    <3>1. NewEvent \in ToSet(PendingOf(w, worker[w].target))'
      BY <1>a, <1>3, <1>4 DEF PendingOf, Holder, Ran
    <3>2. e # NewEvent => e \in ToSet(PendingOf(w, worker[w].target))'
      BY <1>a, <1>b, <1>e, <1>3, <1>4, <1>8 DEF PendingOf
    <3>3. QED  BY <3>1, <3>2
  <2>2. QED  BY <1>3, <1>7, <2>1 DEF Held
<1>9. ASSUME NEW q \in Recorders, NEW e, e \in PendingSet(Shared, q)', OwnNext(w, e)
      PROVE  Placed(w, q)'
  <2>1. q = r
    <3>1. NewEvent \notin DOMAIN commandOf
      BY Types, Beyond DEF NewEvent
    <3>2. e \in PendingSet(Shared, q) => e \in DOMAIN commandOf
      BY DEF DeliveryInv, SharedOK
    <3>3. QED  BY <1>c, <1>4, <1>9, <3>1, <3>2 DEF Own
  <2>2. QED  BY <1>a, <1>3, <1>7, <2>1 DEF Placed
<1>10. \A e : e \in ToSet(worker'[w].scope) => OwnNext(w, e)
  BY <1>2, <1>3, <1>d, BusyFacts DEF BusyOK
<1>11. QED  BY <1>2, <1>4, <1>6, <1>8, <1>9, <1>10, RunStep

LEMMA RaiseStep ==
  ASSUME DeliveryInv, NEW w \in Workers, worker[w].phase = "running", NEW scope \in Seq(Nat),
         Raise(w, scope), \A e : e \in ToSet(scope) => OwnNext(w, e),
         commandOf' \in Seq(Nat), EventsKept(w), backend' = backend, commands' = commands,
         audit' = audit, swept' = swept, pending' = pending
  PROVE  Guarantee(w)
<1>1. IsBusy(w) /\ Assigned(w)  BY BusyFacts DEF IsBusy
<1>2. /\ worker' \in [Workers -> WorkerState]
      /\ worker'[w].phase = "raised" /\ worker'[w].tracked = worker[w].tracked
      /\ worker'[w].scope = scope /\ worker'[w].failing = TRUE
      /\ worker'[w].command = worker[w].command /\ worker'[w].target = worker[w].target
      /\ worker'[w].queue = worker[w].queue
  BY RaiseFields
<1>a. ASSUME NEW v \in Workers, v # w PROVE worker'[v] = worker[v]  BY <1>a, RaiseFields
<1>3. Ran(w)  BY <1>2, <1>a, MoveStep
<1>4. worker'[w].tracked \subseteq {Parcel, worker[w].target}  BY <1>1, <1>2 DEF Assigned
<1>5. Assigned(w)' /\ IsBusy(w)'  BY <1>1, <1>2, <1>3, <1>4, AssignedNext
<1>6. ASSUME NEW e PROVE Held(w, e)'  BY <1>2 DEF Held
<1>7. ASSUME NEW r PROVE Placed(w, r)'  BY <1>2 DEF Placed
<1>8. \A e : e \in ToSet(worker'[w].scope) => OwnNext(w, e)  BY <1>2
<1>9. QED  BY <1>1, <1>3, <1>5, <1>6, <1>7, <1>8, RunStep

LEMMA ReturnStep ==
  ASSUME DeliveryInv, NEW w \in Workers, worker[w].phase = "running",
         NEW tracked \in SUBSET Recorders, NEW scope \in Seq(Nat), Return(w, tracked, scope),
         Ran(w), tracked \subseteq {Parcel, worker[w].target},
         \A e : e \in ToSet(scope) => OwnNext(w, e),
         \A e : OwnNext(w, e) /\ e \notin swept =>
           e \in ToSet(scope) \/ \E r \in tracked : e \in ToSet(PendingOf(w, r))',
         \A r \in Recorders : \A e : e \in PendingSet(Shared, r)' /\ OwnNext(w, e) => r \in tracked
  PROVE  Guarantee(w)
<1>1. IsBusy(w) /\ Assigned(w) /\ worker[w].failing = FALSE
  <2>1. IsBusy(w) /\ Assigned(w)  BY BusyFacts DEF IsBusy
  <2>2. worker[w].failing \in BOOLEAN  BY Types DEF WorkerState
  <2>3. ~ worker[w].failing  BY <2>1 DEF Assigned
  <2>4. QED  BY <2>1, <2>2, <2>3
<1>2. /\ worker'[w].phase = "returned" /\ worker'[w].tracked = tracked
      /\ worker'[w].scope = scope /\ worker'[w].failing = FALSE
      /\ worker'[w].target = worker[w].target
  BY <1>1, ReturnFields
<1>3. Assigned(w)' /\ IsBusy(w)'  BY <1>1, <1>2, AssignedNext
<1>4. ASSUME NEW e, OwnNext(w, e), e \notin swept PROVE Held(w, e)'
  <2>1. e \in ToSet(scope) \/ \E r \in tracked : e \in ToSet(PendingOf(w, r))'  BY <1>4
  <2>2. \/ e \in ToSet(worker'[w].scope)
        \/ \E r \in worker'[w].tracked : e \in ToSet(PendingOf(w, r))'
    BY <1>2, <2>1
  <2>3. QED  BY <1>2, <2>2 DEF Held
<1>5. ASSUME NEW r \in Recorders, NEW e, e \in PendingSet(Shared, r)', OwnNext(w, e)
      PROVE  Placed(w, r)'
  <2>1. r \in worker'[w].tracked  BY <1>2, <1>5
  <2>2. QED  BY <1>2, <2>1 DEF Placed
<1>6. \A e : e \in ToSet(worker'[w].scope) => OwnNext(w, e)  BY <1>2
<1>7. QED  BY <1>1, <1>3, <1>4, <1>5, <1>6, RunStep

LEMMA Unrecorded ==
  ASSUME commandOf' = commandOf, commandOf \in Seq(Nat)
  PROVE  /\ commandOf' \in Seq(Nat)
         /\ \A w : EventsKept(w) /\ \A e : OwnNext(w, e) => Own(w, e)
BY DEF EventsKept, OwnNext, Own

LEMMA RefuseStep ==
  ASSUME DeliveryInv, NEW w \in Workers, RefusePackage(w) \/ DatabaseError(w)
  PROVE  Guarantee(w)
<1>1. worker[w].phase = "running"  BY DEF RefusePackage, DatabaseError, Running
<1>2. Raise(w, <<>>)  BY DEF RefusePackage, DatabaseError
<1>3. /\ backend' = backend /\ commands' = commands /\ commandOf' = commandOf
      /\ pending' = pending /\ audit' = audit /\ swept' = swept
  BY DEF RefusePackage, DatabaseError
<1>4. commandOf' \in Seq(Nat) /\ EventsKept(w)  BY <1>3, Types, Unrecorded
<1>5. PICK z : z = <<>>  OBVIOUS
<1>6. z \in Seq(Nat) /\ \A e : e \in ToSet(z) => OwnNext(w, e)
  BY <1>5, EmptySeq, EmptySet
<1>7. QED  BY <1>1, <1>2, <1>3, <1>4, <1>5, <1>6, RaiseStep

LEMMA DenyStep ==
  ASSUME DeliveryInv, NEW w \in Workers, Deny(w)
  PROVE  Guarantee(w)
<1>1. worker[w].phase = "running" /\ IsBusy(w)  BY DEF Deny, Running, IsBusy
<1>2. commandOf' = Append(commandOf, worker[w].command) /\ Raise(w, <<NewEvent>>)
  BY DEF Deny
<1>3. /\ backend' = backend /\ commands' = commands
      /\ pending' = pending /\ audit' = audit /\ swept' = swept
  BY DEF Deny
<1>4. commandOf' \in Seq(Nat) /\ EventsKept(w) /\ OwnNext(w, NewEvent)
  BY <1>1, <1>2, EventAppended
<1>5. PICK z : z = <<NewEvent>>  OBVIOUS
<1>6. z \in Seq(Nat) /\ ToSet(z) = {NewEvent}
  BY <1>5, Types, SingletonSet DEF NewEvent
<1>7. Raise(w, z)  BY <1>2, <1>5
<1>8. QED  BY <1>1, <1>3, <1>4, <1>6, <1>7, RaiseStep

LEMMA AssignmentsDoneStep ==
  ASSUME DeliveryInv, NEW w \in Workers, AssignmentsDone(w)
  PROVE  Guarantee(w)
<1>a. PICK r : r = worker[w].target  OBVIOUS
<1>b. PICK z : z = <<>>  OBVIOUS
<1>c. PICK d : d = IF worker[w].changes > 0 THEN {r} ELSE {}  OBVIOUS
<1>1. Running(w, "assign packages") /\ Return(w, d, z)
  BY <1>a, <1>b, <1>c DEF AssignmentsDone
<1>2. /\ backend' = backend /\ commands' = commands /\ commandOf' = commandOf
      /\ pending' = pending /\ audit' = audit /\ swept' = swept
  BY DEF AssignmentsDone
<1>3. IsBusy(w) /\ worker[w].phase = "running" /\ CommandOf(w).kind = "assign packages"
  BY <1>1, RunningFacts
<1>4. r \in Recorders
  <2>1. CommandOf(w).kind # "not permitted" => worker[w].target \in Recorders
    BY <1>1, RunningFacts
  <2>2. QED  BY <1>a, <1>3, <2>1
<1>5. d \in SUBSET Recorders /\ d \subseteq {Parcel, worker[w].target}
  BY <1>a, <1>c, <1>4
<1>6. z \in Seq(Nat) /\ \A e : e \in ToSet(z) => OwnNext(w, e)
  BY <1>b, EmptySeq, EmptySet
<1>7. commandOf' \in Seq(Nat) /\ EventsKept(w)
  BY <1>2, Types, Unrecorded
<1>d. ASSUME NEW e, OwnNext(w, e) PROVE Own(w, e)
  BY <1>2, <1>d, Types, Unrecorded
<1>8. RecordsOnTarget(w) => r \in d
  BY <1>c, <1>3 DEF RecordsOnTarget
<1>9. Ran(w)
  <2>1. /\ worker' \in [Workers -> WorkerState]
        /\ worker'[w].command = worker[w].command /\ worker'[w].queue = worker[w].queue
    BY <1>1, <1>5, <1>6, ReturnFields
  <2>2. ASSUME NEW v \in Workers, v # w PROVE worker'[v] = worker[v]
    BY <1>1, <1>5, <1>6, <2>2, ReturnFields
  <2>3. QED  BY <1>2, <1>7, <2>1, <2>2, MoveStep
<1>10. ASSUME NEW e, OwnNext(w, e), e \notin swept
       PROVE  \E q \in d : e \in ToSet(PendingOf(w, q))'
  <2>1. RecordsOnTarget(w) /\ e \in ToSet(PendingOf(w, r))
    BY <1>a, <1>1, <1>d, <1>10, RunningFacts
  <2>2. e \in ToSet(PendingOf(w, r))'  BY <1>3, <1>4, <1>9, <2>1, RanKeeps
  <2>3. QED  BY <1>8, <2>1, <2>2
<1>11. ASSUME NEW q \in Recorders, NEW e, e \in PendingSet(Shared, q)', OwnNext(w, e)
       PROVE  q \in d
  <2>1. e \in PendingSet(Shared, q)  BY <1>2, <1>11 DEF PendingSet
  <2>2. RecordsOnTarget(w) /\ q = r
    BY <1>a, <1>1, <1>d, <1>11, <2>1, RunningFacts
  <2>3. QED  BY <1>8, <2>2
<1>12. QED  BY <1>1, <1>3, <1>5, <1>6, <1>9, <1>10, <1>11, ReturnStep

LEMMA CreateCustomerStep ==
  ASSUME DeliveryInv, NEW w \in Workers, CreateCustomer(w)
  PROVE  Guarantee(w)
<1>a. PICK r : r = worker[w].target  OBVIOUS
<1>1. Running(w, "create package") /\ RecordOn(w, r)  BY <1>a DEF CreateCustomer
<1>2. IsBusy(w) /\ worker[w].phase = "running" /\ CommandOf(w).kind = "create package"
  BY <1>1, RunningFacts
<1>3. r \in Recorders
  <2>1. CommandOf(w).kind # "not permitted" => worker[w].target \in Recorders
    BY <1>1, RunningFacts
  <2>2. QED  BY <1>a, <1>2, <2>1
<1>4. /\ backend' = backend /\ commands' = commands /\ audit' = audit /\ swept' = swept
      /\ worker' = worker /\ worker \in [Workers -> WorkerState]
  <2>1. worker' = worker  BY DEF CreateCustomer
  <2>2. QED  BY <2>1, Types DEF CreateCustomer
<1>5. /\ Ran(w) /\ NewEvent \in ToSet(pending'[Holder(w, r)][r])
  BY <1>1, <1>2, <1>3, <1>4, RecordStep
<1>6. ASSUME NEW e, OwnNext(w, e) PROVE Own(w, e) \/ e = NewEvent
  BY <1>1, <1>2, <1>3, <1>4, <1>6, RecordStep
<1>7. Assigned(w)' /\ IsBusy(w)'
  <2>1. Assigned(w) /\ worker[w].failing \in BOOLEAN
    BY <1>2, Types, BusyFacts DEF WorkerState
  <2>2. worker[w].failing = FALSE  BY <1>2, <2>1 DEF Assigned
  <2>3. worker'[w].tracked \subseteq {Parcel, worker[w].target}  BY <1>4, <2>1 DEF Assigned
  <2>4. QED  BY <1>2, <1>4, <1>5, <2>2, <2>3, AssignedNext
<1>8. RecordsOnTarget(w)'
  BY <1>2, <1>4 DEF RecordsOnTarget, CommandOf
<1>9. ASSUME NEW e, OwnNext(w, e), e \notin swept PROVE Held(w, e)'
  <2>1. Own(w, e) => e \in ToSet(PendingOf(w, r))  BY <1>a, <1>1, <1>9, RunningFacts
  <2>2. Own(w, e) => e \in ToSet(PendingOf(w, r))'
    BY <1>2, <1>3, <1>5, <2>1, RanKeeps
  <2>3. NewEvent \in ToSet(pending'[Holder(w, r)'][r])  BY <1>4, <1>5 DEF Holder
  <2>4. e \in ToSet(PendingOf(w, r))'  BY <1>6, <1>9, <2>2, <2>3 DEF PendingOf
  <2>5. e \in ToSet(PendingOf(w, worker[w].target))'  BY <1>a, <1>4, <2>4 DEF PendingOf
  <2>6. worker'[w].phase = "running"  BY <1>2, <1>4
  <2>7. QED  BY <1>8, <2>5, <2>6 DEF Held
<1>10. ASSUME NEW q \in Recorders, NEW e, e \in PendingSet(Shared, q)', OwnNext(w, e)
       PROVE  Placed(w, q)'
  <2>1. CASE q = r  BY <1>a, <1>2, <1>4, <1>8, <2>1 DEF Placed
  <2>2. CASE q # r
    <3>1. e \in PendingSet(Shared, q)
      BY <1>1, <1>2, <1>3, <1>4, <1>10, <2>2, RecordStep
    <3>2. NewEvent \notin DOMAIN commandOf  BY Types, Beyond DEF NewEvent
    <3>3. e \in DOMAIN commandOf  BY <3>1 DEF DeliveryInv, SharedOK
    <3>4. Own(w, e)  BY <1>6, <1>10, <3>2, <3>3
    <3>5. q = r  BY <1>a, <1>1, <1>10, <3>1, <3>4, RunningFacts
    <3>6. QED  BY <2>2, <3>5
  <2>3. QED  BY <2>1, <2>2
<1>11. \A e : e \in ToSet(worker'[w].scope) => OwnNext(w, e)
  <2>1. \A e : e \in ToSet(worker[w].scope) => Own(w, e)  BY <1>2, BusyFacts DEF BusyOK
  <2>2. QED  BY <1>2, <1>4, <1>5, <2>1, RanKeeps
<1>12. QED  BY <1>2, <1>5, <1>7, <1>9, <1>10, <1>11, RunStep

LEMMA CreatePackageStep ==
  ASSUME DeliveryInv, NEW w \in Workers, CreatePackage(w)
  PROVE  Guarantee(w)
<1>a. PICK r : r = worker[w].target  OBVIOUS
<1>b. PICK z : z = <<>>  OBVIOUS
<1>1. Running(w, "create package") /\ RecordOn(w, Parcel) /\ Return(w, {Parcel, r}, z)
  BY <1>a, <1>b DEF CreatePackage
<1>2. IsBusy(w) /\ worker[w].phase = "running" /\ CommandOf(w).kind = "create package"
  BY <1>1, RunningFacts
<1>3. r \in Recorders /\ Parcel \in Recorders
  <2>1. CommandOf(w).kind # "not permitted" => worker[w].target \in Recorders
    BY <1>1, RunningFacts
  <2>2. QED  BY <1>a, <1>2, <2>1 DEF Recorders
<1>4. backend' = backend /\ commands' = commands /\ audit' = audit /\ swept' = swept
  BY DEF CreatePackage
<1>5. z \in Seq(Nat) /\ \A e : e \in ToSet(z) => OwnNext(w, e)
  BY <1>b, EmptySeq, EmptySet
<1>6. /\ worker' \in [Workers -> WorkerState]
      /\ worker'[w].command = worker[w].command /\ worker'[w].queue = worker[w].queue
  BY <1>1, <1>3, <1>5, ReturnFields
<1>c. ASSUME NEW v \in Workers, v # w PROVE worker'[v] = worker[v]
  BY <1>1, <1>3, <1>5, <1>c, ReturnFields
<1>7. Ran(w) /\ NewEvent \in ToSet(pending'[Holder(w, Parcel)][Parcel])
  BY <1>1, <1>2, <1>3, <1>4, <1>6, <1>c, RecordStep
<1>8. ASSUME NEW e, OwnNext(w, e) PROVE Own(w, e) \/ e = NewEvent
  BY <1>1, <1>2, <1>3, <1>4, <1>6, <1>c, <1>8, RecordStep
<1>9. ASSUME NEW e, OwnNext(w, e), e \notin swept
      PROVE  \E q \in {Parcel, r} : e \in ToSet(PendingOf(w, q))'
  <2>1. CASE e = NewEvent
    <3>1. Holder(w, Parcel)' = Holder(w, Parcel)  BY <1>4 DEF Holder
    <3>2. e \in ToSet(PendingOf(w, Parcel))'  BY <1>7, <2>1, <3>1 DEF PendingOf
    <3>3. QED  BY <3>2
  <2>2. CASE Own(w, e)
    <3>1. e \in ToSet(PendingOf(w, r))  BY <1>a, <1>1, <1>9, <2>2, RunningFacts
    <3>2. e \in ToSet(PendingOf(w, r))'  BY <1>2, <1>3, <1>7, <3>1, RanKeeps
    <3>3. QED  BY <3>2
  <2>3. QED  BY <1>8, <1>9, <2>1, <2>2
<1>10. ASSUME NEW q \in Recorders, NEW e, e \in PendingSet(Shared, q)', OwnNext(w, e)
       PROVE  q \in {Parcel, r}
  <2>1. CASE q # Parcel
    <3>1. e \in PendingSet(Shared, q)
      BY <1>1, <1>2, <1>3, <1>4, <1>6, <1>c, <1>10, <2>1, RecordStep
    <3>2. NewEvent \notin DOMAIN commandOf  BY Types, Beyond DEF NewEvent
    <3>3. e \in DOMAIN commandOf  BY <3>1 DEF DeliveryInv, SharedOK
    <3>4. Own(w, e)  BY <1>8, <1>10, <3>2, <3>3
    <3>5. q = r  BY <1>a, <1>1, <1>10, <3>1, <3>4, RunningFacts
    <3>6. QED  BY <3>5
  <2>2. QED  BY <2>1
<1>11. {Parcel, r} \in SUBSET Recorders /\ {Parcel, r} \subseteq {Parcel, worker[w].target}
  BY <1>a, <1>3
<1>12. QED  BY <1>1, <1>2, <1>5, <1>7, <1>9, <1>10, <1>11, ReturnStep

LEMMA LastTwo ==
  ASSUME NEW n \in Nat
  PROVE  \A i \in 1 .. n + 2 : ~ (i <= n) => i - n = 1 \/ i - n = 2
OBVIOUS

LEMMA TwoMore ==
  ASSUME NEW s \in Seq(Nat), NEW x \in Nat
  PROVE  /\ s \o <<x, x>> \in Seq(Nat)
         /\ DOMAIN (s \o <<x, x>>) = 1 .. Len(s) + 2
         /\ \A i \in 1 .. Len(s) + 2 :
              (s \o <<x, x>>)[i] = IF i <= Len(s) THEN s[i] ELSE x
<1> DEFINE t == <<x, x>>
<1>1. t \in Seq(Nat) /\ Len(t) = 2 /\ t[1] = x /\ t[2] = x  OBVIOUS
<1> HIDE DEF t
<1>a. s \o t \in Seq(Nat) /\ Len(s \o t) = Len(s) + Len(t)
  BY <1>1, ConcatProperties
<1>2. s \o t \in Seq(Nat) /\ Len(s \o t) = Len(s) + 2 /\ Len(s) \in Nat
  BY <1>1, <1>a
<1>3. ASSUME NEW i \in 1 .. Len(s) + 2
      PROVE  (s \o t)[i] = IF i <= Len(s) THEN s[i] ELSE x
  <2>1. (s \o t)[i] = IF i <= Len(s) THEN s[i] ELSE t[i - Len(s)]
    BY <1>1, <1>2, ConcatProperties
  <2>2. ~ (i <= Len(s)) => i - Len(s) = 1 \/ i - Len(s) = 2  BY <1>2, LastTwo
  <2>3. QED  BY <1>1, <2>1, <2>2
<1>4. DOMAIN (s \o t) = 1 .. Len(s) + 2  BY <1>2
<1>5. QED  BY <1>2, <1>3, <1>4 DEF t

LEMMA TwoEvents ==
  ASSUME DeliveryInv, NEW w \in Workers, IsBusy(w),
         commandOf' = commandOf \o <<worker[w].command, worker[w].command>>
  PROVE  /\ commandOf' \in Seq(Nat) /\ EventsKept(w)
         /\ OwnNext(w, NewEvent) /\ OwnNext(w, NewEvent + 1)
         /\ \A e : OwnNext(w, e) => Own(w, e) \/ e = NewEvent \/ e = NewEvent + 1
<1>a. PICK c : c = worker[w].command  OBVIOUS
<1>b. PICK n : n = Len(commandOf)  OBVIOUS
<1>1. commandOf \in Seq(Nat) /\ c \in Nat /\ n \in Nat /\ DOMAIN commandOf = 1 .. n
  BY <1>a, <1>b, Types DEF WorkerState
<1>2. /\ commandOf' \in Seq(Nat) /\ DOMAIN commandOf' = 1 .. n + 2
      /\ \A i \in 1 .. n + 2 : commandOf'[i] = IF i <= n THEN commandOf[i] ELSE c
  BY <1>a, <1>b, <1>1, TwoMore
<1>3. /\ n + 1 \in 1 .. n + 2 /\ n + 2 \in 1 .. n + 2 /\ ~ (n + 1 <= n) /\ ~ (n + 2 <= n)
      /\ n + 1 + 1 = n + 2
      /\ \A k \in 1 .. n : k \in 1 .. n + 2 /\ k <= n
      /\ \A k \in 1 .. n + 2 : k \in 1 .. n \/ k = n + 1 \/ k = n + 2
  BY <1>1
<1>4. NewEvent = n + 1 /\ NewEvent + 1 = n + 2  BY <1>b, <1>1 DEF NewEvent
<1>5. EventsKept(w)
  <2>1. ASSUME NEW e \in DOMAIN commandOf
        PROVE  e \in DOMAIN commandOf' /\ commandOf'[e] = commandOf[e]
    BY <1>1, <1>2, <1>3
  <2>2. ASSUME NEW e \in DOMAIN commandOf', e \notin DOMAIN commandOf PROVE OwnNext(w, e)
    BY <1>a, <1>1, <1>2, <1>3, <2>2 DEF OwnNext
  <2>3. QED  BY <2>1, <2>2 DEF EventsKept
<1>6. OwnNext(w, n + 1) /\ OwnNext(w, n + 2)
  BY <1>a, <1>1, <1>2, <1>3 DEF OwnNext
<1>7. ASSUME NEW e, OwnNext(w, e) PROVE Own(w, e) \/ e = n + 1 \/ e = n + 2
  BY <1>a, <1>1, <1>2, <1>3, <1>7 DEF OwnNext, Own
<1>8. QED  BY <1>2, <1>4, <1>5, <1>6, <1>7

LEMMA AdvanceStep ==
  ASSUME DeliveryInv, NEW w \in Workers, Advance(w)
  PROVE  Guarantee(w)
<1>a. PICK r : r = worker[w].target  OBVIOUS
<1>b. PICK z : z = <<NewEvent + 1>>  OBVIOUS
<1>1. /\ Running(w, "heartbeat") /\ Return(w, {r}, z)
      /\ NewPending(w, r)
      /\ commandOf' = commandOf \o <<worker[w].command, worker[w].command>>
  BY <1>a, <1>b DEF Advance, NewPending
<1>2. IsBusy(w) /\ worker[w].phase = "running" /\ CommandOf(w).kind = "heartbeat"
  BY <1>1, RunningFacts
<1>3. r \in Recorders
  <2>1. CommandOf(w).kind # "not permitted" => worker[w].target \in Recorders
    BY <1>1, RunningFacts
  <2>2. QED  BY <1>a, <1>2, <2>1
<1>4. backend' = backend /\ commands' = commands /\ audit' = audit /\ swept' = swept
  BY DEF Advance
<1>5. /\ commandOf' \in Seq(Nat) /\ EventsKept(w)
      /\ OwnNext(w, NewEvent) /\ OwnNext(w, NewEvent + 1)
  BY <1>1, <1>2, TwoEvents
<1>c. ASSUME NEW e, OwnNext(w, e) PROVE Own(w, e) \/ e = NewEvent \/ e = NewEvent + 1
  BY <1>1, <1>2, <1>c, TwoEvents
<1>d. ~ RecordsOnTarget(w)  BY <1>2 DEF RecordsOnTarget
<1>e. ASSUME NEW e, Own(w, e) PROVE e \in swept
  BY <1>1, <1>d, <1>e, RunningFacts
<1>6. NewEvent \in Nat /\ pending' \in [Holders -> [Recorders -> Seq(Nat)]]
  BY <1>1, <1>3, PendingGrows
<1>f. ASSUME NEW v \in Workers, v # w PROVE pending'[v] = pending[v]
  BY <1>1, <1>3, <1>f, PendingGrows
<1>g. ASSUME NEW h \in Holders, NEW q \in Recorders
      PROVE  PendingSet(h, q)' = PendingSet(h, q) \cup
               (IF h = Holder(w, r) /\ q = r THEN {NewEvent} ELSE {})
  BY <1>1, <1>3, <1>g, PendingGrows
<1>7. z \in Seq(Nat) /\ ToSet(z) = {NewEvent + 1}
  BY <1>b, <1>6, SingletonSet
<1>8. /\ worker' \in [Workers -> WorkerState]
      /\ worker'[w].command = worker[w].command /\ worker'[w].queue = worker[w].queue
  BY <1>1, <1>3, <1>7, ReturnFields
<1>h. ASSUME NEW v \in Workers, v # w PROVE worker'[v] = worker[v]
  BY <1>1, <1>3, <1>7, <1>h, ReturnFields
<1>9. Ran(w)
  <2>1. ASSUME NEW h \in Holders, NEW q \in Recorders
        PROVE  /\ \A e \in PendingSet(h, q) : e \in PendingSet(h, q)'
               /\ \A e \in PendingSet(h, q)' :
                    e \in PendingSet(h, q) \/ (OwnNext(w, e) /\ h = Holder(w, q))
    BY <1>5, <1>g
  <2>2. QED  BY <1>4, <1>5, <1>6, <1>f, <1>8, <1>h, <2>1 DEF Ran
<1>10. ASSUME NEW e, OwnNext(w, e), e \notin swept
       PROVE  e \in ToSet(z) \/ \E q \in {r} : e \in ToSet(PendingOf(w, q))'
  <2>1. CASE e = NewEvent
    <3>1. Holder(w, r) \in Holders /\ Holder(w, r)' = Holder(w, r)
      BY <1>4 DEF Holder, Holders
    <3>2. e \in PendingSet(Holder(w, r), r)
            \/ e \in ToSet(pending'[Holder(w, r)][r])
      <4>1. ASSUME NEW h, h = Holder(w, r) PROVE e \in ToSet(pending'[h][r])
        BY <1>3, <1>g, <2>1, <3>1, <4>1 DEF PendingSet
      <4>2. QED  BY <4>1
    <3>3. e \in ToSet(pending'[Holder(w, r)][r])
      BY <1>3, <1>9, <3>1, <3>2 DEF Ran, PendingSet
    <3>4. e \in ToSet(PendingOf(w, r))'  BY <3>1, <3>3 DEF PendingOf
    <3>5. QED  BY <3>4
  <2>2. CASE e = NewEvent + 1  BY <1>7, <2>2
  <2>3. QED  BY <1>c, <1>e, <1>10, <2>1, <2>2
<1>11. ASSUME NEW q \in Recorders, NEW e, e \in PendingSet(Shared, q)', OwnNext(w, e)
       PROVE  q \in {r}
  <2>1. CASE q # r
    <3>1. e \in PendingSet(Shared, q)
      <4>1. Shared \in Holders  BY DEF Holders
      <4>2. QED  BY <1>g, <1>11, <2>1, <4>1
    <3>2. e \in DOMAIN commandOf  BY <3>1 DEF DeliveryInv, SharedOK
    <3>3. commandOf[e] = worker[w].command  BY <1>11, <1>5, <3>2 DEF OwnNext, EventsKept
    <3>4. RecordsOnTarget(w)  BY <1>1, <3>1, <3>2, <3>3, RunningFacts DEF Own
    <3>5. QED  BY <1>d, <3>4
  <2>2. QED  BY <2>1
<1>12. {r} \in SUBSET Recorders /\ {r} \subseteq {Parcel, worker[w].target}
  BY <1>a, <1>3
<1>13. QED
  <2>1. \A e : e \in ToSet(z) => OwnNext(w, e)  BY <1>5, <1>7
  <2>2. QED  BY <1>1, <1>2, <1>7, <1>9, <1>10, <1>11, <1>12, <2>1, ReturnStep

LEMMA RunningStep ==
  ASSUME DeliveryInv, NEW w \in Workers, Run(w)
  PROVE  Guarantee(w)
BY AssignPackageStep, AssignmentsDoneStep, CreateCustomerStep, RefuseStep, CreatePackageStep,
   DenyStep, AdvanceStep DEF Run

-----------------------------------------------------------------------------
(* Draining a command.                                                     *)

LEMMA DrainedSet ==
  ASSUME DeliveryInv, NEW w \in Workers, IsBusy(w)
  PROVE  /\ Drained(w) \in Seq(Nat)
         /\ \A x : x \in ToSet(Drained(w)) =>
              x \in ToSet(worker[w].scope) \/ \E r \in worker[w].tracked : x \in ToSet(PendingOf(w, r))
         /\ \A x : ~ worker[w].failing /\ x \in ToSet(worker[w].scope) => x \in ToSet(Drained(w))
         /\ \A x, r : ~ worker[w].failing /\ r \in worker[w].tracked /\ x \in ToSet(PendingOf(w, r))
              => x \in ToSet(Drained(w))
<1>a. PICK s : s = worker[w].scope  OBVIOUS
<1>b. PICK p : p = TrackedEvents(w, Parcel)  OBVIOUS
<1>c. PICK q : q = TrackedEvents(w, worker[w].target)  OBVIOUS
<1>d. PICK d : d = DomainEvents(w)  OBVIOUS
<1>1. s \in Seq(Nat) /\ worker[w].tracked \subseteq Recorders
  BY <1>a, Types DEF WorkerState
<1>2. worker[w].tracked \subseteq {Parcel, worker[w].target}
  BY BusyFacts DEF Assigned
<1>3. ASSUME NEW r PROVE TrackedEvents(w, r) \in Seq(Nat)
  <2>1. CASE r \in worker[w].tracked
    <3>1. r \in Recorders /\ Holder(w, r) \in Holders  BY <1>1, <2>1 DEF Holder, Holders
    <3>2. pending[Holder(w, r)][r] \in Seq(Nat)  BY <3>1, Types
    <3>3. QED  BY <2>1, <3>2 DEF TrackedEvents, PendingOf
  <2>2. CASE r \notin worker[w].tracked
    <3>1. TrackedEvents(w, r) = <<>>  BY <2>2 DEF TrackedEvents
    <3>2. QED  BY <3>1, EmptySeq
  <2>3. QED  BY <2>1, <2>2
<1>4. ASSUME NEW r, NEW x
      PROVE  x \in ToSet(TrackedEvents(w, r)) <=>
               r \in worker[w].tracked /\ x \in ToSet(PendingOf(w, r))
  BY EmptySet DEF TrackedEvents
<1>5. d \in Seq(Nat) /\ ToSet(d) = ToSet(p) \cup ToSet(q)
  <2>1. p \in Seq(Nat) /\ q \in Seq(Nat) /\ d = p \o q
    BY <1>b, <1>c, <1>d, <1>3 DEF DomainEvents
  <2>2. QED  BY <2>1, ConcatSet
<1>6. ASSUME NEW x
      PROVE  x \in ToSet(d) <=> \E r \in worker[w].tracked : x \in ToSet(PendingOf(w, r))
  BY <1>b, <1>c, <1>2, <1>4, <1>5
<1>7. Drained(w) \in {s \o d, s, d \o s} /\ (~ worker[w].failing => Drained(w) \in {s \o d, d \o s})
  BY <1>a, <1>d DEF Drained
<1>8. /\ s \o d \in Seq(Nat) /\ ToSet(s \o d) = ToSet(s) \cup ToSet(d)
      /\ d \o s \in Seq(Nat) /\ ToSet(d \o s) = ToSet(d) \cup ToSet(s)
  BY <1>1, <1>5, ConcatSet
<1>9. /\ Drained(w) \in Seq(Nat) /\ ToSet(Drained(w)) \subseteq ToSet(s) \cup ToSet(d)
      /\ ~ worker[w].failing => ToSet(Drained(w)) = ToSet(s) \cup ToSet(d)
  BY <1>1, <1>7, <1>8
<1>10. QED  BY <1>a, <1>6, <1>9

\* What a worker reaches through its recorders: its own events and shared ones.
LEMMA ReachedEvents ==
  ASSUME DeliveryInv, NEW w \in Workers, IsBusy(w), NEW r \in Recorders, NEW e,
         e \in ToSet(PendingOf(w, r))
  PROVE  e \in DOMAIN commandOf /\ (Own(w, e) \/ e \in PendingSet(Shared, r))
<1>1. CASE Holder(w, r) = w
  <2>1. e \in PendingSet(w, r)  BY <1>1 DEF PendingOf, PendingSet
  <2>2. Own(w, e)  BY <2>1 DEF DeliveryInv, WorkerOK, CopiesOK
  <2>3. QED  BY <2>2 DEF Own
<1>2. CASE Holder(w, r) = Shared
  <2>1. e \in PendingSet(Shared, r)  BY <1>2 DEF PendingOf, PendingSet
  <2>2. QED  BY <2>1 DEF DeliveryInv, SharedOK
<1>3. QED  BY <1>1, <1>2 DEF Holder

LEMMA CaptureStep ==
  ASSUME DeliveryInv, NEW w \in Workers, Capture(w)
  PROVE  Guarantee(w)
<1>a. PICK g : g = {r \in worker[w].tracked : PendingOf(w, r) # <<>>}  OBVIOUS
<1>b. PICK q : q = Drained(w)  OBVIOUS
<1>1. IsBusy(w) /\ worker[w].phase \in {"returned", "raised"}  BY DEF Capture, IsBusy
<1>2. /\ backend' = backend /\ commands' = commands /\ commandOf' = commandOf
      /\ pending' = pending /\ audit' = audit
      /\ swept' = swept \cup Foreign(w, ToSet(q))
      /\ worker' = [worker EXCEPT ![w].phase = "publishing", ![w].queue = q, ![w].captured = g]
  BY <1>a, <1>b DEF Capture
<1>3. worker \in [Workers -> WorkerState] /\ worker[w] \in WorkerState  BY Types
<1>4. q \in Seq(Nat) /\ g \in SUBSET Recorders
  <2>1. worker[w].tracked \subseteq Recorders  BY <1>3 DEF WorkerState
  <2>2. QED  BY <1>a, <1>b, <1>1, <2>1, DrainedSet
<1>5. /\ worker' \in [Workers -> WorkerState] /\ worker'[w].phase = "publishing"
      /\ worker'[w].queue = q /\ worker'[w].captured = g
      /\ worker'[w].scope = worker[w].scope /\ worker'[w].tracked = worker[w].tracked
      /\ worker'[w].command = worker[w].command /\ worker'[w].target = worker[w].target
      /\ worker'[w].failing = worker[w].failing
  <2> DEFINE t == [worker[w] EXCEPT !.phase = "publishing", !.queue = q, !.captured = g]
  <2>1. worker' = [worker EXCEPT ![w] = t]  BY <1>2, <1>3
  <2>2. t \in WorkerState  BY <1>3, <1>4 DEF WorkerState
  <2>3. /\ t.phase = "publishing" /\ t.queue = q /\ t.captured = g
        /\ t.scope = worker[w].scope /\ t.tracked = worker[w].tracked
        /\ t.command = worker[w].command /\ t.target = worker[w].target
        /\ t.failing = worker[w].failing
    BY <1>3 DEF WorkerState
  <2> HIDE DEF t
  <2>4. worker'[w] = t /\ worker' \in [Workers -> WorkerState]  BY <1>3, <2>1, <2>2
  <2>5. QED  BY <2>3, <2>4
<1>c. ASSUME NEW v \in Workers, v # w PROVE worker'[v] = worker[v]  BY <1>2, <1>3, <1>c
<1>6. DeliveryTypeOK'  BY <1>2, <1>5 DEF DeliveryInv, DeliveryTypeOK
<1>7. ASSUME NEW e PROVE (Own(w, e)' <=> Own(w, e)) /\ (OwnNext(w, e) <=> Own(w, e))
  BY <1>1, <1>2, <1>5 DEF Own, OwnNext
<1>8. BusyOK(w) /\ Assigned(w)  BY <1>1, BusyFacts
<1>9. worker[w].tracked \subseteq Recorders  BY <1>3 DEF WorkerState
<1>d. ASSUME NEW e, e \in ToSet(q)
      PROVE  /\ e \in DOMAIN commandOf
             /\ Own(w, e) \/ \E r \in Recorders : e \in PendingSet(Shared, r)
  <2>1. \/ e \in ToSet(worker[w].scope)
        \/ \E r \in worker[w].tracked : e \in ToSet(PendingOf(w, r))
    BY <1>b, <1>d, <1>1, DrainedSet
  <2>2. CASE e \in ToSet(worker[w].scope)  BY <1>8, <2>2 DEF BusyOK, Own
  <2>3. ASSUME NEW r \in worker[w].tracked, e \in ToSet(PendingOf(w, r))
        PROVE  e \in DOMAIN commandOf /\ (Own(w, e) \/ e \in PendingSet(Shared, r))
    BY <1>1, <1>9, <2>3, ReachedEvents
  <2>4. QED  BY <1>9, <2>1, <2>2, <2>3
<1>10. Assigned(w)'
  <2>1. CommandOf(w)' = CommandOf(w)  BY <1>2, <1>5 DEF CommandOf
  <2>2. worker'[w].command \in 1 .. Len(commands')  BY <1>2, <1>5, <1>8 DEF Assigned
  <2>3. CommandOf(w)'.outcome = "running"  BY <1>8, <2>1 DEF Assigned
  <2>4. worker'[w].tracked \subseteq {Parcel, worker'[w].target}  BY <1>5, <1>8 DEF Assigned
  <2>5. CommandOf(w)'.kind # "not permitted" => worker'[w].target \in Recorders
    BY <1>5, <1>8, <2>1 DEF Assigned
  <2>6. worker'[w].phase \notin {"running", "returned"} /\ worker'[w].phase # "raised"
    BY <1>5
  <2>7. QED  BY <2>2, <2>3, <2>4, <2>5, <2>6 DEF Assigned
<1>e. ASSUME ~ worker'[w].failing PROVE ~ worker[w].failing /\ worker[w].phase = "returned"
  BY <1>1, <1>5, <1>8, <1>e DEF Assigned
<1>11. ASSUME NEW e, Own(w, e), e \notin swept' PROVE Held(w, e)'
  <2>1. ASSUME ~ worker'[w].failing PROVE e \in ToSet(worker'[w].queue)
    <3>1. e \notin swept  BY <1>2, <1>11
    <3>2. \/ e \in ToSet(worker[w].scope)
          \/ \E r \in worker[w].tracked : e \in ToSet(PendingOf(w, r))
      BY <1>8, <1>11, <1>e, <2>1, <3>1 DEF BusyOK, Held, Own
    <3>3. e \in ToSet(Drained(w))  BY <1>1, <1>e, <2>1, <3>2, DrainedSet
    <3>4. QED  BY <1>b, <1>5, <3>3
  <2>2. QED  BY <1>5, <2>1 DEF Held
<1>12. ASSUME NEW r \in Recorders, NEW e, e \in PendingSet(Shared, r), Own(w, e)
       PROVE  Placed(w, r)'
  <2>1. ASSUME ~ worker'[w].failing PROVE r \in worker'[w].captured
    <3>1. r \in worker[w].tracked  BY <1>8, <1>12, <1>e, <2>1 DEF BusyOK, Placed
    <3>2. Holder(w, r) = Shared  BY <1>12 DEF DeliveryInv, SharedOK, Holder
    <3>3. PendingOf(w, r) # <<>>  BY <1>12, <3>2, EmptySet DEF PendingOf, PendingSet
    <3>4. QED  BY <1>a, <1>5, <3>1, <3>3
  <2>2. QED  BY <1>5, <2>1 DEF Placed
<1>13. ASSUME NEW e, e \in ToSet(q)
       PROVE  e \in DOMAIN commandOf /\ (Own(w, e) \/ e \in swept')
  BY <1>2, <1>d, <1>13 DEF Foreign, Own
<1>14. WorkerOK(w)'
  <2>1. \A e \in DOMAIN commandOf' : Own(w, e)' /\ e \notin swept' => Held(w, e)'
    BY <1>7, <1>11
  <2>2. \A r \in Recorders : \A e \in PendingSet(Shared, r)' : Own(w, e)' => Placed(w, r)'
    BY <1>2, <1>7, <1>12 DEF PendingSet
  <2>3. \A e \in ToSet(worker'[w].queue) :
          e \in DOMAIN commandOf' /\ (Own(w, e)' \/ e \in swept')
    BY <1>2, <1>5, <1>7, <1>13
  <2>4. \A e \in ToSet(worker'[w].scope) : Own(w, e)'
    BY <1>5, <1>7, <1>8 DEF BusyOK
  <2>5. BusyOK(w)'  BY <1>10, <2>1, <2>2, <2>3, <2>4 DEF BusyOK
  <2>6. CopiesOK(w)'
    <3> SUFFICES ASSUME NEW r \in Recorders, NEW e \in PendingSet(w, r)'
                 PROVE  IsBusy(w)' /\ Own(w, e)'
      BY DEF CopiesOK
    <3>1. e \in PendingSet(w, r)  BY <1>2 DEF PendingSet
    <3>2. Own(w, e)  BY <3>1 DEF DeliveryInv, WorkerOK, CopiesOK
    <3>3. QED  BY <1>5, <1>7, <3>2 DEF IsBusy
  <2>7. QED  BY <2>5, <2>6 DEF WorkerOK
<1>15. Effect(w)
  <2>1. CommandsKept(w)  BY <1>2 DEF CommandsKept
  <2>2. EventsKept(w)  BY <1>2 DEF EventsKept
  <2>3. SharedKept(w)  BY <1>2 DEF SharedKept, PendingSet
  <2>4. SweptKept(w)
    <3>1. ASSUME NEW e \in swept', e \notin swept
          PROVE  ~ Own(w, e) /\ \E r \in Recorders : e \in PendingSet(Shared, r)
      <4>1. e \in ToSet(q) /\ ~ Own(w, e)  BY <1>2, <3>1 DEF Foreign, Own
      <4>2. QED  BY <1>d, <4>1
    <3>2. QED  BY <1>1, <1>2, <3>1 DEF SweptKept
  <2>5. AuditKept(w)  BY <1>2 DEF AuditKept, Audited
  <2>6. QED  BY <1>2, <1>c, <2>1, <2>2, <2>3, <2>4, <2>5 DEF Effect
<1>16. KeepsCommand(w)  BY <1>1, <1>5 DEF KeepsCommand
<1>17. Ends(w)
  <2>1. commands'[worker[w].command].outcome = "running"  BY <1>2, <1>8 DEF Assigned, CommandOf
  <2>2. IsBusy(w)'  BY <1>5 DEF IsBusy
  <2>3. QED  BY <2>1, <2>2 DEF Ends
<1>18. AuditedOnce'  BY <1>2 DEF DeliveryInv, AuditedOnce
<1>19. QED  BY <1>6, <1>14, <1>15, <1>16, <1>17, <1>18 DEF Guarantee

AuditRecord == [event : Nat, actor : Actors \cup {None}]

LEMMA RecordIsItsFields ==
  ASSUME NEW x \in AuditRecord
  PROVE  x = [event |-> x.event, actor |-> x.actor]
BY DEF AuditRecord

LEMMA RecordAdded ==
  ASSUME DeliveryInv, NEW e \in Nat, NEW a \in Actors \cup {None}, audit' = AddRecord(e, a)
  PROVE  /\ audit' \in Seq(AuditRecord) /\ AuditedOnce'
         /\ \A i \in DOMAIN audit : i \in DOMAIN audit' /\ audit'[i] = audit[i]
         /\ \A i \in DOMAIN audit' :
              i \in DOMAIN audit \/ (audit'[i].event = e /\ audit'[i].actor = a)
         /\ \/ \E i \in DOMAIN audit : audit[i].event = e
            \/ \E i \in DOMAIN audit' : audit'[i] = [event |-> e, actor |-> a]
<1>1. audit \in Seq(AuditRecord)  BY Types DEF AuditRecord
<1>2. CASE \E i \in DOMAIN audit : audit[i].event = e
  <2>1. audit' = audit  BY <1>2 DEF AddRecord
  <2>2. AuditedOnce'  BY <2>1 DEF DeliveryInv, AuditedOnce
  <2>3. QED  BY <1>1, <1>2, <2>1, <2>2
<1>3. CASE ~ \E i \in DOMAIN audit : audit[i].event = e
  <2>a. PICK x : x = [event |-> e, actor |-> a]  OBVIOUS
  <2>b. PICK n : n = Len(audit) + 1  OBVIOUS
  <2>1. x \in AuditRecord /\ x.event = e /\ x.actor = a  BY <2>a DEF AuditRecord
  <2>2. audit' = Append(audit, x)  BY <1>3, <2>a DEF AddRecord
  <2>3. /\ audit' \in Seq(AuditRecord)
        /\ n \in DOMAIN audit' /\ n \notin DOMAIN audit /\ audit'[n] = x
    BY <1>1, <2>b, <2>1, <2>2, Extended
  <2>4. ASSUME NEW k \in DOMAIN audit PROVE k \in DOMAIN audit' /\ audit'[k] = audit[k]
    BY <1>1, <2>1, <2>2, Extended
  <2>5. ASSUME NEW k \in DOMAIN audit', k \notin DOMAIN audit PROVE k = n
    BY <1>1, <2>b, <2>1, <2>2, <2>5, Extended
  <2>6. AuditedOnce'
    <3> SUFFICES ASSUME NEW i \in DOMAIN audit', NEW j \in DOMAIN audit',
                        audit'[i].event = audit'[j].event
                 PROVE  i = j
      BY DEF AuditedOnce
    <3>1. CASE i \in DOMAIN audit /\ j \in DOMAIN audit
      BY <2>4, <3>1 DEF DeliveryInv, AuditedOnce
    <3>2. CASE i \notin DOMAIN audit /\ j \notin DOMAIN audit  BY <2>5, <3>2
    <3>3. CASE i \in DOMAIN audit /\ j \notin DOMAIN audit
      BY <1>3, <2>1, <2>3, <2>4, <2>5, <3>3
    <3>4. CASE i \notin DOMAIN audit /\ j \in DOMAIN audit
      BY <1>3, <2>1, <2>3, <2>4, <2>5, <3>4
    <3>5. QED  BY <3>1, <3>2, <3>3, <3>4
  <2>7. ASSUME NEW i \in DOMAIN audit', i \notin DOMAIN audit
        PROVE  audit'[i].event = e /\ audit'[i].actor = a
    BY <2>1, <2>3, <2>5, <2>7
  <2>8. \E i \in DOMAIN audit' : audit'[i] = [event |-> e, actor |-> a]
    BY <2>a, <2>3
  <2>9. QED  BY <2>3, <2>4, <2>6, <2>7, <2>8
<1>4. QED  BY <1>2, <1>3

LEMMA PublishStep ==
  ASSUME DeliveryInv, NEW w \in Workers, Publish(w)
  PROVE  Guarantee(w)
<1>a. PICK q : q = worker[w].queue  OBVIOUS
<1>b. PICK x : x = Head(q)  OBVIOUS
<1>c. PICK a : a = CommandOf(w).actor  OBVIOUS
<1>d. PICK t : t = Tail(q)  OBVIOUS
<1>1. IsBusy(w) /\ worker[w].phase = "publishing" /\ q # <<>>  BY <1>a DEF Publish, IsBusy
<1>2. /\ backend' = backend /\ commands' = commands /\ commandOf' = commandOf
      /\ pending' = pending /\ swept' = swept /\ audit' = AddRecord(x, a)
      /\ worker' = [worker EXCEPT ![w].queue = t]
  BY <1>a, <1>b, <1>c, <1>d DEF Publish
<1>3. worker \in [Workers -> WorkerState] /\ worker[w] \in WorkerState  BY Types
<1>4. BusyOK(w) /\ Assigned(w) /\ worker[w].command \in DOMAIN commands
  BY <1>1, BusyFacts
<1>5. q \in Seq(Nat) /\ x \in Nat /\ t \in Seq(Nat) /\ ToSet(q) = {x} \cup ToSet(t)
  <2>1. q \in Seq(Nat)  BY <1>a, <1>3 DEF WorkerState
  <2>2. QED  BY <1>b, <1>d, <1>1, <2>1, TailSet
<1>6. a \in Actors \cup {None}
  <2>1. commands[worker[w].command] \in Command  BY <1>4, Types
  <2>2. QED  BY <1>c, <2>1 DEF Command, CommandOf
<1>7. /\ worker' \in [Workers -> WorkerState] /\ worker'[w].phase = "publishing"
      /\ worker'[w].queue = t /\ worker'[w].captured = worker[w].captured
      /\ worker'[w].scope = worker[w].scope /\ worker'[w].tracked = worker[w].tracked
      /\ worker'[w].command = worker[w].command /\ worker'[w].target = worker[w].target
      /\ worker'[w].failing = worker[w].failing
  <2> DEFINE u == [worker[w] EXCEPT !.queue = t]
  <2>1. worker' = [worker EXCEPT ![w] = u]  BY <1>2, <1>3
  <2>2. u \in WorkerState  BY <1>3, <1>5 DEF WorkerState
  <2>3. /\ u.phase = worker[w].phase /\ u.queue = t /\ u.captured = worker[w].captured
        /\ u.scope = worker[w].scope /\ u.tracked = worker[w].tracked
        /\ u.command = worker[w].command /\ u.target = worker[w].target
        /\ u.failing = worker[w].failing
    BY <1>3 DEF WorkerState
  <2> HIDE DEF u
  <2>4. worker'[w] = u /\ worker' \in [Workers -> WorkerState]  BY <1>3, <2>1, <2>2
  <2>5. QED  BY <1>1, <2>3, <2>4
<1>e. ASSUME NEW v \in Workers, v # w PROVE worker'[v] = worker[v]  BY <1>2, <1>3, <1>e
<1>8. audit' \in Seq(AuditRecord) /\ AuditedOnce'  BY <1>2, <1>5, <1>6, RecordAdded
<1>f. ASSUME NEW i \in DOMAIN audit PROVE i \in DOMAIN audit' /\ audit'[i] = audit[i]
  BY <1>2, <1>5, <1>6, RecordAdded
<1>g. ASSUME NEW i \in DOMAIN audit', i \notin DOMAIN audit
      PROVE  audit'[i].event = x /\ audit'[i].actor = a
  BY <1>2, <1>5, <1>6, <1>g, RecordAdded
<1>9. DeliveryTypeOK'  BY <1>2, <1>7, <1>8 DEF DeliveryInv, DeliveryTypeOK, AuditRecord
<1>10. x \in DOMAIN commandOf /\ (Own(w, x) \/ x \in swept)
  BY <1>a, <1>4, <1>5 DEF BusyOK
<1>11. ASSUME NEW e PROVE (Own(w, e)' <=> Own(w, e)) /\ (OwnNext(w, e) <=> Own(w, e))
  BY <1>1, <1>2, <1>7 DEF Own, OwnNext
<1>12. CommandOf(w)' = CommandOf(w)  BY <1>2, <1>7 DEF CommandOf
<1>13. \A e, b : Audited(e, b) => Audited(e, b)'
  BY <1>f DEF Audited
<1>14. x \notin swept => Audited(x, a)'
  <2> SUFFICES ASSUME x \notin swept PROVE Audited(x, a)'  OBVIOUS
  <2>1. CASE \E i \in DOMAIN audit : audit[i].event = x
    <3>1. PICK i \in DOMAIN audit : audit[i].event = x  BY <2>1
    <3>2. audit[i].actor = a
      <4>1. audit[i].actor = commands[commandOf[x]].actor  BY <3>1 DEF DeliveryInv, AuditOK
      <4>2. QED  BY <1>c, <1>10, <4>1 DEF Own, CommandOf
    <3>a. audit \in Seq(AuditRecord)  BY Types DEF AuditRecord
    <3>3. audit[i] \in AuditRecord  BY <3>a, <3>1
    <3>4. audit[i] = [event |-> x, actor |-> a]  BY <3>1, <3>2, <3>3, RecordIsItsFields
    <3>5. Audited(x, a)  BY <3>4 DEF Audited
    <3>6. QED  BY <1>13, <3>5
  <2>2. CASE ~ \E i \in DOMAIN audit : audit[i].event = x
    <3>1. \E i \in DOMAIN audit' : audit'[i] = [event |-> x, actor |-> a]
      BY <1>2, <1>5, <1>6, <2>2, RecordAdded
    <3>2. QED  BY <3>1 DEF Audited
  <2>3. QED  BY <2>1, <2>2
<1>15. ASSUME NEW e, Own(w, e), e \notin swept' PROVE Held(w, e)'
  <2>1. ASSUME ~ worker'[w].failing
        PROVE  e \in ToSet(worker'[w].queue) \/ Audited(e, CommandOf(w).actor)'
    <3>1. e \in ToSet(q) \/ Audited(e, a)
      BY <1>a, <1>c, <1>1, <1>2, <1>4, <1>7, <1>15, <2>1 DEF BusyOK, Held, Own
    <3>2. e \in ToSet(t) \/ Audited(e, a)'  BY <1>2, <1>5, <1>13, <1>14, <1>15, <3>1
    <3>3. CommandOf(w)'.actor = a  BY <1>c, <1>12
    <3>4. QED  BY <1>7, <3>2, <3>3
  <2>2. QED  BY <1>7, <2>1 DEF Held
<1>16. ASSUME NEW r \in Recorders, NEW e, e \in PendingSet(Shared, r), Own(w, e)
       PROVE  Placed(w, r)'
  <2>1. Placed(w, r)  BY <1>4, <1>16 DEF BusyOK
  <2>2. ~ worker'[w].failing => r \in worker'[w].captured  BY <1>1, <1>7, <2>1 DEF Placed
  <2>3. QED  BY <1>7, <2>2 DEF Placed
<1>17. Assigned(w)'
  <2>1. worker'[w].command \in 1 .. Len(commands')  BY <1>2, <1>4, <1>7 DEF Assigned
  <2>2. CommandOf(w)'.outcome = "running"  BY <1>4, <1>12 DEF Assigned
  <2>3. worker'[w].tracked \subseteq {Parcel, worker'[w].target}  BY <1>4, <1>7 DEF Assigned
  <2>4. CommandOf(w)'.kind # "not permitted" => worker'[w].target \in Recorders
    BY <1>4, <1>7, <1>12 DEF Assigned
  <2>5. worker'[w].phase \notin {"running", "returned"} /\ worker'[w].phase # "raised"
    BY <1>7
  <2>6. QED  BY <2>1, <2>2, <2>3, <2>4, <2>5 DEF Assigned
<1>18. WorkerOK(w)'
  <2>1. \A e \in DOMAIN commandOf' : Own(w, e)' /\ e \notin swept' => Held(w, e)'
    BY <1>11, <1>15
  <2>2. \A r \in Recorders : \A e \in PendingSet(Shared, r)' : Own(w, e)' => Placed(w, r)'
    BY <1>2, <1>11, <1>16 DEF PendingSet
  <2>3. \A e \in ToSet(worker'[w].queue) :
          e \in DOMAIN commandOf' /\ (Own(w, e)' \/ e \in swept')
    BY <1>a, <1>2, <1>4, <1>5, <1>7, <1>11 DEF BusyOK
  <2>4. \A e \in ToSet(worker'[w].scope) : Own(w, e)'
    BY <1>4, <1>7, <1>11 DEF BusyOK
  <2>5. BusyOK(w)'  BY <1>17, <2>1, <2>2, <2>3, <2>4 DEF BusyOK
  <2>6. CopiesOK(w)'
    <3> SUFFICES ASSUME NEW r \in Recorders, NEW e \in PendingSet(w, r)'
                 PROVE  IsBusy(w)' /\ Own(w, e)'
      BY DEF CopiesOK
    <3>1. e \in PendingSet(w, r)  BY <1>2 DEF PendingSet
    <3>2. Own(w, e)  BY <3>1 DEF DeliveryInv, WorkerOK, CopiesOK
    <3>3. QED  BY <1>7, <1>11, <3>2 DEF IsBusy
  <2>7. QED  BY <2>5, <2>6 DEF WorkerOK
<1>19. Effect(w)
  <2>1. CommandsKept(w)  BY <1>2 DEF CommandsKept
  <2>2. EventsKept(w)  BY <1>2 DEF EventsKept
  <2>3. SharedKept(w)  BY <1>2 DEF SharedKept, PendingSet
  <2>4. SweptKept(w)  BY <1>2 DEF SweptKept
  <2>5. AuditKept(w)
    <3>1. ASSUME NEW i \in DOMAIN audit', i \notin DOMAIN audit
          PROVE  /\ IsBusy(w) /\ audit'[i].event \in DOMAIN commandOf
                 /\ audit'[i].actor = CommandOf(w).actor
                 /\ Own(w, audit'[i].event) \/ audit'[i].event \in swept
      BY <1>c, <1>1, <1>10, <1>g, <3>1
    <3>2. QED  BY <1>13, <1>f, <3>1 DEF AuditKept
  <2>6. QED  BY <1>2, <1>e, <2>1, <2>2, <2>3, <2>4, <2>5 DEF Effect
<1>20. KeepsCommand(w)  BY <1>1, <1>7 DEF KeepsCommand
<1>21. Ends(w)
  <2>1. commands'[worker[w].command].outcome = "running"  BY <1>2, <1>4 DEF Assigned, CommandOf
  <2>2. IsBusy(w)'  BY <1>7 DEF IsBusy
  <2>3. QED  BY <2>1, <2>2 DEF Ends
<1>22. QED  BY <1>8, <1>9, <1>18, <1>19, <1>20, <1>21 DEF Guarantee


\* What a worker's last step owes: what it takes off the shared recorders, and
\* what it answers for its own events.
Settled(w, outcome, cleared) ==
  /\ outcome \in {"returned", "raised"} /\ cleared \subseteq Recorders
  /\ \A r \in cleared : \A e \in PendingSet(Shared, r) : e \in swept' \/ Own(w, e)
  /\ outcome = "returned" =>
       \A e \in DOMAIN commandOf : Own(w, e) => Audited(e, CommandOf(w).actor) \/ e \in swept'
  /\ outcome = "raised" \/
       \A r \in Recorders : \A e \in PendingSet(Shared, r) : Own(w, e) => r \in cleared

LEMMA FinishStep ==
  ASSUME DeliveryInv, NEW w \in Workers, IsBusy(w), NEW outcome, NEW cleared,
         Finish(w, outcome, cleared), Settled(w, outcome, cleared), SweptKept(w),
         backend' = backend, commandOf' = commandOf, audit' = audit
  PROVE  Guarantee(w)
<1>a. PICK c : c = worker[w].command  OBVIOUS
<1>b. PICK z : z = <<>>  OBVIOUS
<1>c. PICK i : i = Idle  OBVIOUS
<1>d. outcome \in {"returned", "raised"} /\ cleared \subseteq Recorders  BY DEF Settled
<1>1. /\ commands' = [commands EXCEPT ![c].outcome = outcome]
      /\ worker' = [worker EXCEPT ![w] = i]
      /\ pending' = [h \in DOMAIN pending |-> [r \in Recorders |->
           IF h = w \/ (h = Shared /\ r \in cleared) THEN z ELSE pending[h][r]]]
  BY <1>a, <1>b, <1>c DEF Finish
<1>2. /\ commands \in Seq(Command) /\ worker \in [Workers -> WorkerState]
      /\ pending \in [Holders -> [Recorders -> Seq(Nat)]]
      /\ DOMAIN commands = 1 .. Len(commands)
  BY Types
<1>3. c \in DOMAIN commands /\ CommandOf(w) = commands[c]  BY <1>a, BusyFacts DEF CommandOf
<1>4. i \in WorkerState /\ i.phase = "idle"  BY <1>c, EmptySeq DEF Idle, WorkerState
<1>5. worker' \in [Workers -> WorkerState] /\ ~ IsBusy(w)'
  BY <1>1, <1>2, <1>4 DEF IsBusy
<1>e. ASSUME NEW v \in Workers, v # w PROVE worker'[v] = worker[v]  BY <1>1, <1>2, <1>e
<1>6. /\ commands' \in Seq(Command) /\ DOMAIN commands' = DOMAIN commands
      /\ commands'[c].kind = commands[c].kind /\ commands'[c].actor = commands[c].actor
      /\ commands'[c].outcome = outcome
      /\ \A d \in DOMAIN commands : d # c => commands'[d] = commands[d]
  <2>1. commands[c] \in Command  BY <1>2, <1>3
  <2> DEFINE t == [commands[c] EXCEPT !.outcome = outcome]
  <2>2. commands' = [commands EXCEPT ![c] = t]  BY <1>1, <1>2, <1>3
  <2>3. t \in Command  BY <1>d, <2>1 DEF Command
  <2>4. t.kind = commands[c].kind /\ t.actor = commands[c].actor /\ t.outcome = outcome
    BY <2>1 DEF Command
  <2> HIDE DEF t
  <2>5. commands' \in Seq(Command) /\ Len(commands') = Len(commands)
    BY <1>2, <1>3, <2>2, <2>3, ExceptSeq
  <2>6. DOMAIN commands' = DOMAIN commands /\ commands'[c] = t
    BY <1>2, <1>3, <2>2, <2>3, <2>5
  <2>7. ASSUME NEW d \in DOMAIN commands, d # c PROVE commands'[d] = commands[d]
    BY <1>2, <2>2, <2>7
  <2>8. QED  BY <2>4, <2>5, <2>6, <2>7
<1>f. z \in Seq(Nat) /\ ToSet(z) = {}  BY <1>b, EmptySeq, EmptySet
<1>g. w \in Holders /\ Shared \in Holders /\ w # Shared
  BY EventDeliveryAssumption DEF Holders
<1>7. pending' \in [Holders -> [Recorders -> Seq(Nat)]]
  BY <1>1, <1>2, <1>f
<1>h. ASSUME NEW v \in Workers, v # w PROVE pending'[v] = pending[v]
  <2>1. v \in Holders /\ v # Shared  BY EventDeliveryAssumption DEF Holders
  <2>2. pending[v] \in [Recorders -> Seq(Nat)]  BY <1>2, <2>1
  <2>3. pending'[v] = [r \in Recorders |-> pending[v][r]]  BY <1>1, <1>2, <1>h, <2>1
  <2>4. QED  BY <2>2, <2>3
<1>8. ASSUME NEW r \in Recorders PROVE PendingSet(w, r)' = {}
  BY <1>1, <1>2, <1>f, <1>g DEF PendingSet
<1>9. ASSUME NEW r \in Recorders
      PROVE  PendingSet(Shared, r)' = IF r \in cleared THEN {} ELSE PendingSet(Shared, r)
  BY <1>1, <1>2, <1>f, <1>g DEF PendingSet
<1>10. DeliveryTypeOK'  BY <1>5, <1>6, <1>7 DEF DeliveryInv, DeliveryTypeOK
<1>11. ASSUME NEW e PROVE OwnNext(w, e) <=> Own(w, e)  BY DEF OwnNext, Own
<1>12. WorkerOK(w)'  BY <1>5, <1>8 DEF WorkerOK, CopiesOK
<1>13. Effect(w)
  <2>1. CommandsKept(w)  BY <1>a, <1>3, <1>6 DEF CommandsKept
  <2>2. EventsKept(w)  BY DEF EventsKept
  <2>3. SharedKept(w)
    <3>1. ASSUME NEW r \in Recorders, NEW e \in PendingSet(Shared, r)
          PROVE  e \in PendingSet(Shared, r)' \/ e \in swept' \/ OwnNext(w, e)
      BY <1>9, <1>11 DEF Settled
    <3>2. ASSUME NEW r \in Recorders, NEW e \in PendingSet(Shared, r)'
          PROVE  e \in PendingSet(Shared, r)
      BY <1>9
    <3>3. QED  BY <3>1, <3>2 DEF SharedKept
  <2>4. AuditKept(w)  BY DEF AuditKept, Audited
  <2>5. QED  BY <1>e, <1>h, <2>1, <2>2, <2>3, <2>4 DEF Effect
<1>14. KeepsCommand(w)  BY <1>5 DEF KeepsCommand
<1>15. Ends(w)
  <2>1. ASSUME commands'[c].outcome = "returned",
               NEW e \in DOMAIN commandOf', commandOf'[e] = worker[w].command
        PROVE  \/ \E j \in DOMAIN audit' : audit'[j] = [event |-> e, actor |-> CommandOf(w).actor]
               \/ e \in swept'
    <3>1. Audited(e, CommandOf(w).actor) \/ e \in swept'
      BY <1>6, <2>1 DEF Settled, Own
    <3>2. QED  BY <3>1 DEF Audited
  <2>2. ASSUME NEW r \in Recorders, NEW e \in PendingSet(Shared, r)', OwnNext(w, e)
        PROVE  commands'[c].outcome = "raised"
    <3>1. e \in PendingSet(Shared, r) /\ r \notin cleared  BY <1>9, <2>2
    <3>2. Own(w, e)  BY <1>11, <2>2
    <3>3. outcome = "raised"  BY <3>1, <3>2 DEF Settled
    <3>4. QED  BY <1>6, <3>3
  <2>3. QED  BY <1>a, <2>1, <2>2 DEF Ends
<1>16. AuditedOnce'  BY DEF DeliveryInv, AuditedOnce
<1>17. QED  BY <1>10, <1>12, <1>13, <1>14, <1>15, <1>16 DEF Guarantee

LEMMA PublishFailsStep ==
  ASSUME DeliveryInv, NEW w \in Workers, PublishFails(w)
  PROVE  Guarantee(w)
<1>1. /\ IsBusy(w) /\ backend = "database" /\ Finish(w, "raised", {})
      /\ backend' = backend /\ commandOf' = commandOf /\ audit' = audit /\ swept' = swept
  BY DEF PublishFails, IsBusy
<1>2. SweptKept(w)  BY <1>1 DEF SweptKept
<1>3. Settled(w, "raised", {})  BY DEF Settled
<1>4. QED  BY <1>1, <1>2, <1>3, FinishStep

LEMMA ClearStep ==
  ASSUME DeliveryInv, NEW w \in Workers, Clear(w)
  PROVE  Guarantee(w)
<1>a. PICK g : g = worker[w].captured  OBVIOUS
<1>b. PICK o : o = IF worker[w].failing THEN "raised" ELSE "returned"  OBVIOUS
<1>1. /\ IsBusy(w) /\ worker[w].phase = "publishing" /\ worker[w].queue = <<>>
      /\ Finish(w, o, g)
      /\ swept' = swept \cup Foreign(w, UNION {ToSet(PendingOf(w, r)) : r \in g})
      /\ backend' = backend /\ commandOf' = commandOf /\ audit' = audit
  BY <1>a, <1>b DEF Clear, IsBusy
<1>2. BusyOK(w)  BY <1>1, BusyFacts
<1>3. g \subseteq Recorders
  <2>1. worker[w] \in WorkerState  BY Types
  <2>2. QED  BY <1>a, <2>1 DEF WorkerState
<1>4. SweptKept(w)
  <2>1. ASSUME NEW e \in swept', e \notin swept
        PROVE  ~ Own(w, e) /\ \E r \in Recorders : e \in PendingSet(Shared, r)
    <3>1. ~ Own(w, e)  BY <1>1, <2>1 DEF Foreign, Own
    <3>2. PICK r \in g : e \in ToSet(PendingOf(w, r))  BY <1>1, <2>1 DEF Foreign
    <3>3. e \in PendingSet(Shared, r)  BY <1>1, <1>3, <3>1, <3>2, ReachedEvents
    <3>4. QED  BY <1>3, <3>1, <3>3
  <2>2. QED  BY <1>1, <2>1 DEF SweptKept
<1>5. ASSUME NEW r \in Recorders, NEW e \in PendingSet(Shared, r)
      PROVE  e \in ToSet(PendingOf(w, r)) /\ e \in DOMAIN commandOf
  <2>1. Holder(w, r) = Shared  BY DEF DeliveryInv, SharedOK, Holder
  <2>2. QED  BY <2>1 DEF PendingOf, PendingSet, DeliveryInv, SharedOK
<1>6. ASSUME NEW r \in g, NEW e \in PendingSet(Shared, r), ~ Own(w, e)
      PROVE  e \in swept'
  <2>1. e \in ToSet(PendingOf(w, r)) /\ e \in DOMAIN commandOf  BY <1>3, <1>5, <1>6
  <2>2. commandOf[e] # worker[w].command  BY <1>6, <2>1 DEF Own
  <2>3. e \in UNION {ToSet(PendingOf(w, q)) : q \in g}  BY <1>6, <2>1
  <2>4. QED  BY <1>1, <2>2, <2>3 DEF Foreign
<1>7. ASSUME ~ worker[w].failing, NEW e \in DOMAIN commandOf, Own(w, e), e \notin swept'
      PROVE  Audited(e, CommandOf(w).actor)
  <2>1. e \notin swept  BY <1>1, <1>7
  <2>2. Held(w, e)  BY <1>2, <1>7, <2>1 DEF BusyOK
  <2>3. e \notin ToSet(worker[w].queue)  BY <1>1, EmptySet
  <2>4. QED  BY <1>1, <1>7, <2>2, <2>3 DEF Held
<1>8. ASSUME ~ worker[w].failing, NEW r \in Recorders, NEW e \in PendingSet(Shared, r), Own(w, e)
      PROVE  r \in g
  <2>1. Placed(w, r)  BY <1>2, <1>8 DEF BusyOK
  <2>2. QED  BY <1>a, <1>1, <1>8, <2>1 DEF Placed
<1>9. Settled(w, o, g)
  <2>1. \A r \in g : \A e \in PendingSet(Shared, r) : e \in swept' \/ Own(w, e)  BY <1>6
  <2>2. CASE worker[w].failing
    <3>1. o = "raised"  BY <1>b, <2>2
    <3>2. QED  BY <1>3, <2>1, <3>1 DEF Settled
  <2>3. CASE ~ worker[w].failing
    <3>1. o = "returned"  BY <1>b, <2>3
    <3>2. \A e \in DOMAIN commandOf : Own(w, e) => Audited(e, CommandOf(w).actor) \/ e \in swept'
      BY <1>7, <2>3
    <3>3. \A r \in Recorders : \A e \in PendingSet(Shared, r) : Own(w, e) => r \in g
      BY <1>8, <2>3
    <3>4. QED  BY <1>3, <2>1, <3>1, <3>2, <3>3 DEF Settled
  <2>4. QED  BY <2>2, <2>3
<1>10. QED  BY <1>1, <1>4, <1>9, FinishStep

LEMMA DrainStep ==
  ASSUME DeliveryInv, NEW w \in Workers, Drain(w)
  PROVE  Guarantee(w)
BY CaptureStep, PublishStep, PublishFailsStep, ClearStep DEF Drain


-----------------------------------------------------------------------------
(* Every step, and the theorems.                                           *)

LEMMA Died ==
  ASSUME NEW x \in Command, NEW y,
         y = IF x.outcome = "running" THEN [x EXCEPT !.outcome = "died"] ELSE x
  PROVE  /\ y \in Command /\ y.actor = x.actor
         /\ x.outcome = "raised" => y.outcome = "raised"
         /\ y.outcome = "returned" => x.outcome = "returned"
BY DEF Command

LEMMA CrashStep ==
  ASSUME DeliveryInv, Crash
  PROVE  DeliveryInv'
<1>a. PICK z : z = <<>>  OBVIOUS
<1>b. PICK i : i = Idle  OBVIOUS
<1>1. /\ backend = "database" /\ backend' = backend /\ commandOf' = commandOf
      /\ audit' = audit /\ swept' = swept
      /\ worker' = [w \in Workers |-> i]
      /\ pending' = [h \in DOMAIN pending |-> [r \in Recorders |-> z]]
  BY <1>a, <1>b DEF Crash
<1>2. commands' = [c \in DOMAIN commands |->
        IF commands[c].outcome = "running" THEN [commands[c] EXCEPT !.outcome = "died"]
        ELSE commands[c]]
  BY DEF Crash
<1>3. /\ commands \in Seq(Command) /\ DOMAIN commands = 1 .. Len(commands)
      /\ Len(commands) \in Nat /\ pending \in [Holders -> [Recorders -> Seq(Nat)]]
  BY Types
<1>4. DOMAIN commands' = DOMAIN commands  BY <1>2
<1>5. ASSUME NEW c \in DOMAIN commands
      PROVE  /\ commands'[c] \in Command /\ commands'[c].actor = commands[c].actor
             /\ commands[c].outcome = "raised" => commands'[c].outcome = "raised"
             /\ commands'[c].outcome = "returned" => commands[c].outcome = "returned"
  <2>1. commands[c] \in Command  BY <1>3
  <2>2. commands'[c] = IF commands[c].outcome = "running"
                       THEN [commands[c] EXCEPT !.outcome = "died"] ELSE commands[c]
    BY <1>2
  <2>3. QED  BY <2>1, <2>2, Died
<1>6. commands' \in Seq(Command) /\ Len(commands') = Len(commands)
  <2>1. commands' = [c \in DOMAIN commands |-> commands'[c]]  BY <1>2
  <2>2. commands' \in [1 .. Len(commands) -> Command]  BY <1>2, <1>3, <1>4, <1>5, <2>1
  <2>3. commands' \in Seq(Command)  BY <1>3, <2>2, SeqDef
  <2>4. QED  BY <1>3, <1>4, <2>3
<1>7. i \in WorkerState /\ i.phase = "idle"  BY <1>b, EmptySeq DEF Idle, WorkerState
<1>8. z \in Seq(Nat) /\ ToSet(z) = {}  BY <1>a, EmptySeq, EmptySet
<1>9. DeliveryTypeOK'
  <2>1. worker' \in [Workers -> WorkerState]  BY <1>1, <1>7
  <2>2. pending' \in [Holders -> [Recorders -> Seq(Nat)]]  BY <1>1, <1>3, <1>8
  <2>3. QED  BY <1>1, <1>6, <2>1, <2>2 DEF DeliveryInv, DeliveryTypeOK
<1>10. ASSUME NEW w \in Workers PROVE ~ IsBusy(w)'  BY <1>1, <1>7 DEF IsBusy
<1>11. ASSUME NEW h \in Holders, NEW r \in Recorders PROVE PendingSet(h, r)' = {}
  BY <1>1, <1>3, <1>8 DEF PendingSet
<1>12. Shared \in Holders /\ Workers \subseteq Holders  BY DEF Holders
<1>13. \A w \in Workers : WorkerOK(w)'  BY <1>10, <1>11, <1>12 DEF WorkerOK, CopiesOK
<1>14. OneWorkerEach'  BY <1>10 DEF OneWorkerEach
<1>15. SharedOK'  BY <1>11, <1>12 DEF SharedOK
<1>16. EventsOK'  BY <1>1, <1>6 DEF DeliveryInv, EventsOK
<1>c. ASSUME NEW e \in DOMAIN commandOf PROVE commandOf[e] \in DOMAIN commands
  BY <1>3 DEF DeliveryInv, EventsOK
<1>17. AuditOK'
  <2> SUFFICES ASSUME NEW j \in DOMAIN audit
               PROVE  /\ audit[j].event \in DOMAIN commandOf
                      /\ \/ audit[j].actor = commands'[commandOf[audit[j].event]].actor
                         \/ audit[j].event \in swept
    BY <1>1 DEF AuditOK
  <2>1. /\ audit[j].event \in DOMAIN commandOf
        /\ \/ audit[j].actor = commands[commandOf[audit[j].event]].actor
           \/ audit[j].event \in swept
    BY DEF DeliveryInv, AuditOK
  <2>2. QED  BY <1>5, <1>c, <2>1
<1>18. AcknowledgedIsAudited'
  <2> SUFFICES ASSUME NEW e \in DOMAIN commandOf, commands'[commandOf[e]].outcome = "returned"
               PROVE  Audited(e, commands[commandOf[e]].actor)' \/ e \in swept
    BY <1>1 DEF AcknowledgedIsAudited
  <2>1. commands[commandOf[e]].outcome = "returned"  BY <1>5, <1>c
  <2>2. Audited(e, commands[commandOf[e]].actor) \/ e \in swept
    BY <2>1 DEF DeliveryInv, AcknowledgedIsAudited
  <2>3. commands'[commandOf[e]].actor = commands[commandOf[e]].actor  BY <1>5, <1>c
  <2>4. QED  BY <1>1, <2>2, <2>3 DEF Audited
<1>19. OnlyThreadsSweep'
  <2> SUFFICES ASSUME NEW e \in swept PROVE commands'[commandOf[e]].outcome = "raised"
    BY <1>1 DEF OnlyThreadsSweep
  <2>1. e \in DOMAIN commandOf /\ commands[commandOf[e]].outcome = "raised"
    BY <1>1 DEF DeliveryInv, EventsOK, OnlyThreadsSweep
  <2>2. QED  BY <1>5, <1>c, <2>1
<1>20. AuditedOnce'  BY <1>1 DEF DeliveryInv, AuditedOnce
<1>21. QED  BY <1>9, <1>13, <1>14, <1>15, <1>16, <1>17, <1>18, <1>19, <1>20 DEF DeliveryInv

LEMMA StutteringStep ==
  ASSUME DeliveryInv, UNCHANGED vars
  PROVE  DeliveryInv'
<1>1. /\ backend' = backend /\ commands' = commands /\ commandOf' = commandOf
      /\ pending' = pending /\ worker' = worker /\ audit' = audit /\ swept' = swept
  BY DEF vars
<1>2. DeliveryTypeOK'  BY <1>1 DEF DeliveryInv, DeliveryTypeOK
<1>3. ASSUME NEW w \in Workers PROVE WorkerOK(w)'
  <2>1. WorkerOK(w)  BY DEF DeliveryInv
  <2>2. ASSUME NEW e PROVE Held(w, e)' <=> Held(w, e)
    BY <1>1 DEF Held, RecordsOnTarget, CommandOf, PendingOf, Holder, Audited
  <2>3. ASSUME NEW r PROVE Placed(w, r)' <=> Placed(w, r)
    BY <1>1 DEF Placed, RecordsOnTarget, CommandOf
  <2>4. Assigned(w)' <=> Assigned(w)  BY <1>1 DEF Assigned, CommandOf
  <2>5. BusyOK(w)' <=> BusyOK(w)
    BY <1>1, <2>2, <2>3, <2>4 DEF BusyOK, Own, PendingSet
  <2>6. CopiesOK(w)' <=> CopiesOK(w)  BY <1>1 DEF CopiesOK, IsBusy, Own, PendingSet
  <2>7. QED  BY <1>1, <2>1, <2>5, <2>6 DEF WorkerOK, IsBusy
<1>4. OneWorkerEach'  BY <1>1 DEF DeliveryInv, OneWorkerEach, IsBusy
<1>5. SharedOK'  BY <1>1 DEF DeliveryInv, SharedOK, PendingSet, IsBusy, Own
<1>6. EventsOK' /\ AuditOK'  BY <1>1 DEF DeliveryInv, EventsOK, AuditOK
<1>7. AcknowledgedIsAudited'
  BY <1>1 DEF DeliveryInv, AcknowledgedIsAudited, Audited
<1>8. OnlyThreadsSweep' /\ AuditedOnce'
  BY <1>1 DEF DeliveryInv, OnlyThreadsSweep, AuditedOnce
<1>9. QED  BY <1>2, <1>3, <1>4, <1>5, <1>6, <1>7, <1>8 DEF DeliveryInv

LEMMA NextDelivery == DeliveryInv /\ [Next]_vars => DeliveryInv'
<1> SUFFICES ASSUME DeliveryInv, [Next]_vars PROVE DeliveryInv'  OBVIOUS
<1>1. CASE Crash  BY <1>1, CrashStep
<1>2. ASSUME NEW w \in Workers, Start(w) \/ Run(w) \/ Drain(w) PROVE DeliveryInv'
  BY <1>2, StartStep, RunningStep, DrainStep, StepInv
<1>3. CASE UNCHANGED vars  BY <1>3, StutteringStep
<1>4. QED  BY <1>1, <1>2, <1>3 DEF Next

\* The invariant the others follow from: every event of a running command that
\* no other command has taken is on a recorder the command will drain, in the
\* batch it publishes, or in the log (collector.py, event_draining.py).
THEOREM DeliveryInvHolds == Spec => []DeliveryInv
<1>1. QED  BY InitDelivery, NextDelivery, PTL DEF Spec

\* Whatever the interleaving of commands, refused audit inserts and crashes,
\* the events of a command that has returned are audited under its own actor,
\* or another command took them from an object both share (event_draining.py).
THEOREM ReturnedIsAudited == Spec => []AcknowledgedIsAudited
<1>1. DeliveryInv => AcknowledgedIsAudited  BY DEF DeliveryInv
<1>2. QED  BY <1>1, DeliveryInvHolds, PTL

\* With objects of its own (PostgreSQL) or one command at a time (the command
\* line), only events of commands that raised are taken by another: an answered
\* command never loses one (recorder_scope.py, database/unit_of_work.py).
THEOREM NoLossWithoutThreads == Spec => []OnlyThreadsSweep
<1>1. DeliveryInv => OnlyThreadsSweep  BY DEF DeliveryInv
<1>2. QED  BY <1>1, DeliveryInvHolds, PTL

\* However often an event is published again, the log has one record of it
\* (audit_repository.py: add is idempotent by event id).
THEOREM OneRecordEach == Spec => []AuditedOnce
<1>1. DeliveryInv => AuditedOnce  BY DEF DeliveryInv
<1>2. QED  BY <1>1, DeliveryInvHolds, PTL

-----------------------------------------------------------------------------
(* A heartbeat's summary in the log.                                       *)

\* f sums up e, which the same heartbeat recorded before and no other command
\* has taken.
Precedes(e, f) ==
  /\ e \in DOMAIN commandOf /\ f \in DOMAIN commandOf
  /\ commandOf[e] = commandOf[f] /\ e < f
  /\ commands[commandOf[f]].kind = "heartbeat"
  /\ e \notin swept

InLog(e) == \E i \in DOMAIN audit : audit[i].event = e

\* No summary is pending on an entity.
PendingComesFirst ==
  \A h \in Holders, r \in Recorders : \A f \in PendingSet(h, r) : \A e : ~ Precedes(e, f)

\* A heartbeat has one event in its scope, and none after it failed.
ScopeIsSummary(w) ==
  IsBusy(w) /\ CommandOf(w).kind = "heartbeat" =>
    /\ \A e, f \in ToSet(worker[w].scope) : e = f
    /\ worker[w].phase = "raised" => ToSet(worker[w].scope) = {}

QueueInOrder(w) ==
  worker[w].phase = "publishing" =>
    \A j \in DOMAIN worker[w].queue : \A e : Precedes(e, worker[w].queue[j]) =>
      InLog(e) \/ \E i \in DOMAIN worker[w].queue : i < j /\ worker[w].queue[i] = e

LogInOrder ==
  \A j \in DOMAIN audit : \A e : Precedes(e, audit[j].event) =>
    \E i \in DOMAIN audit : i < j /\ audit[i].event = e

OrderInv ==
  /\ PendingComesFirst
  /\ \A w \in Workers : ScopeIsSummary(w) /\ QueueInOrder(w)
  /\ LogInOrder

\* Nothing that is recorded later comes before an event.
LEMMA PrecedesKept ==
  ASSUME DeliveryInv, commandOf' \in Seq(Nat), swept \subseteq swept',
         \A c \in DOMAIN commands : commands'[c].kind = commands[c].kind,
         \A d \in DOMAIN commandOf : d \in DOMAIN commandOf' /\ commandOf'[d] = commandOf[d],
         NEW e, NEW f \in DOMAIN commandOf, Precedes(e, f)'
  PROVE  Precedes(e, f)
<1>1. /\ DOMAIN commandOf = 1 .. Len(commandOf) /\ Len(commandOf) \in Nat
      /\ DOMAIN commands = 1 .. Len(commands)
  BY Types
<1>2. Len(commandOf') \in Nat /\ DOMAIN commandOf' = 1 .. Len(commandOf')  OBVIOUS
<1>3. /\ e \in DOMAIN commandOf' /\ f \in DOMAIN commandOf' /\ commandOf'[e] = commandOf'[f]
      /\ e < f /\ commands'[commandOf'[f]].kind = "heartbeat" /\ e \notin swept'
  BY DEF Precedes
<1>4. e \in DOMAIN commandOf  BY <1>1, <1>2, <1>3
<1>5. commandOf'[e] = commandOf[e] /\ commandOf'[f] = commandOf[f]  BY <1>4
<1>6. commandOf[f] \in DOMAIN commands  BY <1>1 DEF DeliveryInv, EventsOK
<1>7. commands[commandOf[f]].kind = "heartbeat"  BY <1>3, <1>5, <1>6
<1>8. QED  BY <1>3, <1>4, <1>5, <1>7 DEF Precedes

LEMMA OrderKept ==
  ASSUME DeliveryInv, NEW w \in Workers, Guarantee(w)
  PROVE  /\ \A f \in DOMAIN commandOf : \A e : Precedes(e, f)' => Precedes(e, f)
         /\ \A e : InLog(e) => InLog(e)'
<1>1. CommandsKept(w) /\ EventsKept(w) /\ SweptKept(w) /\ AuditKept(w) /\ DeliveryTypeOK'
  BY DEF Guarantee, Effect
<1>2. /\ commandOf' \in Seq(Nat) /\ swept \subseteq swept'
      /\ \A c \in DOMAIN commands : commands'[c].kind = commands[c].kind
      /\ \A d \in DOMAIN commandOf : d \in DOMAIN commandOf' /\ commandOf'[d] = commandOf[d]
  BY <1>1 DEF CommandsKept, EventsKept, SweptKept, DeliveryTypeOK
<1>3. ASSUME NEW f \in DOMAIN commandOf, NEW e, Precedes(e, f)' PROVE Precedes(e, f)
  BY <1>2, <1>3, PrecedesKept
<1>4. ASSUME NEW e, InLog(e) PROVE InLog(e)'
  <2>1. PICK i \in DOMAIN audit : audit[i].event = e  BY <1>4 DEF InLog
  <2>2. audit \in Seq(AuditRecord)  BY Types DEF AuditRecord
  <2>3. audit[i] \in AuditRecord  BY <2>2
  <2>4. PICK a : a = audit[i].actor  OBVIOUS
  <2>5. audit[i] = [event |-> e, actor |-> a]  BY <2>1, <2>3, <2>4, RecordIsItsFields
  <2>6. Audited(e, a)'  BY <1>1, <2>5 DEF AuditKept, Audited
  <2>7. QED  BY <2>6 DEF Audited, InLog
<1>5. QED  BY <1>3, <1>4

\* What is pending after a step was pending before or is the worker's own.
LEMMA PendingOrigin ==
  ASSUME DeliveryInv, NEW w \in Workers, Guarantee(w),
         NEW h \in Holders, NEW r \in Recorders, NEW f \in PendingSet(h, r)'
  PROVE  f \in PendingSet(h, r) \/ OwnNext(w, f)
<1>1. /\ EventsKept(w) /\ SharedKept(w) /\ KeepsCommand(w) /\ WorkerOK(w)'
      /\ \A v \in Workers : v # w => pending'[v] = pending[v]
  BY DEF Guarantee, Effect
<1>2. CASE h = Shared  BY <1>1, <1>2 DEF SharedKept
<1>3. CASE h \in Workers /\ h # w  BY <1>1, <1>3 DEF PendingSet
<1>4. CASE h = w
  <2>1. IsBusy(w)' /\ Own(w, f)'  BY <1>1, <1>4 DEF WorkerOK, CopiesOK
  <2>2. f \in DOMAIN commandOf' /\ commandOf'[f] = worker'[w].command  BY <2>1 DEF Own
  <2>3. CASE f \in DOMAIN commandOf
    <3>1. commandOf'[f] \in DOMAIN commands
      <4>1. commandOf'[f] = commandOf[f]  BY <1>1, <2>3 DEF EventsKept
      <4>2. QED  BY <2>3, <4>1, Types DEF DeliveryInv, EventsOK
    <3>2. IsBusy(w) /\ worker'[w].command = worker[w].command
      BY <1>1, <2>1, <2>2, <3>1 DEF KeepsCommand
    <3>3. QED  BY <2>2, <3>2 DEF OwnNext
  <2>4. CASE f \notin DOMAIN commandOf  BY <1>1, <2>2, <2>4 DEF EventsKept
  <2>5. QED  BY <2>3, <2>4
<1>5. QED  BY <1>2, <1>3, <1>4 DEF Holders

\* The part of a step that does not depend on what the worker does.
LEMMA OrderStep ==
  ASSUME DeliveryInv, OrderInv, NEW w \in Workers, Guarantee(w),
         IsBusy(w) /\ CommandOf(w).kind = "heartbeat" =>
           \A h \in Holders, r \in Recorders : \A f \in PendingSet(h, r)' :
             f \in PendingSet(h, r) \/ \A e : ~ Precedes(e, f)',
         ScopeIsSummary(w)', QueueInOrder(w)', LogInOrder'
  PROVE  OrderInv'
<1>1. /\ CommandsKept(w) /\ EventsKept(w) /\ DeliveryTypeOK'
      /\ \A v \in Workers : v # w => worker'[v] = worker[v]
  BY DEF Guarantee, Effect
<1>2. PendingComesFirst'
  <2> SUFFICES ASSUME NEW h \in Holders, NEW r \in Recorders, NEW f \in PendingSet(h, r)',
                      NEW e, Precedes(e, f)'
               PROVE  FALSE
    BY DEF PendingComesFirst
  <2>1. CASE f \in PendingSet(h, r)
    <3>1. f \in DOMAIN commandOf
      <4>1. h \in Workers => Own(h, f)  BY <2>1 DEF DeliveryInv, WorkerOK, CopiesOK
      <4>2. h = Shared => f \in DOMAIN commandOf  BY <2>1 DEF DeliveryInv, SharedOK
      <4>3. QED  BY <4>1, <4>2 DEF Holders, Own
    <3>2. Precedes(e, f)  BY <3>1, OrderKept
    <3>3. QED  BY <2>1, <3>2 DEF OrderInv, PendingComesFirst
  <2>2. CASE f \notin PendingSet(h, r)
    <3>1. OwnNext(w, f)  BY <2>2, PendingOrigin
    <3>2. commandOf'[f] = worker[w].command /\ IsBusy(w)  BY <3>1 DEF OwnNext
    <3>3. worker[w].command \in DOMAIN commands  BY <3>2, BusyFacts
    <3>4. commands'[commandOf'[f]].kind = CommandOf(w).kind
      BY <1>1, <3>2, <3>3 DEF CommandsKept, CommandOf
    <3>5. CommandOf(w).kind = "heartbeat"  BY <3>4 DEF Precedes
    <3>6. QED  BY <2>2, <3>2, <3>5
  <2>3. QED  BY <2>1, <2>2
<1>3. ASSUME NEW v \in Workers, v # w PROVE ScopeIsSummary(v)' /\ QueueInOrder(v)'
  <2>1. worker'[v] = worker[v] /\ ScopeIsSummary(v) /\ QueueInOrder(v)
    BY <1>1, <1>3 DEF OrderInv
  <2>2. IsBusy(v)' <=> IsBusy(v)  BY <2>1 DEF IsBusy
  <2>3. IsBusy(v) => CommandOf(v)'.kind = CommandOf(v).kind
    <3>1. IsBusy(v) => worker[v].command \in DOMAIN commands  BY BusyFacts
    <3>2. QED  BY <1>1, <2>1, <3>1 DEF CommandsKept, CommandOf
  <2>4. ScopeIsSummary(v)'  BY <2>1, <2>2, <2>3 DEF ScopeIsSummary
  <2>5. ASSUME worker'[v].phase = "publishing",
               NEW j \in DOMAIN worker[v].queue, NEW e, Precedes(e, worker[v].queue[j])'
        PROVE  InLog(e)' \/ \E i \in DOMAIN worker[v].queue : i < j /\ worker[v].queue[i] = e
    <3>1. IsBusy(v) /\ worker[v].phase = "publishing"  BY <2>1, <2>5 DEF IsBusy
    <3>2. worker[v].queue[j] \in ToSet(worker[v].queue)  BY DEF ToSet
    <3>3. worker[v].queue[j] \in DOMAIN commandOf  BY <3>1, <3>2, BusyFacts DEF BusyOK
    <3>a. PICK f : f = worker[v].queue[j]  OBVIOUS
    <3>4. Precedes(e, f)'  BY <2>1, <2>5, <3>a DEF Precedes
    <3>5. Precedes(e, f)  BY <3>3, <3>4, <3>a, OrderKept
    <3>6. InLog(e) \/ \E i \in DOMAIN worker[v].queue : i < j /\ worker[v].queue[i] = e
      BY <2>1, <3>1, <3>5, <3>a DEF QueueInOrder
    <3>7. QED  BY <3>6, OrderKept
  <2>6. QueueInOrder(v)'  BY <2>1, <2>4, <2>5 DEF QueueInOrder
  <2>7. QED  BY <2>4, <2>6
<1>4. QED  BY <1>2, <1>3 DEF OrderInv

LEMMA LogStays ==
  ASSUME DeliveryInv, OrderInv, NEW w \in Workers, Guarantee(w), audit' = audit
  PROVE  LogInOrder'
<1> SUFFICES ASSUME NEW j \in DOMAIN audit, NEW f, f = audit[j].event, NEW e, Precedes(e, f)'
             PROVE  \E i \in DOMAIN audit : i < j /\ audit[i].event = e
  BY DEF LogInOrder
<1>1. f \in DOMAIN commandOf  BY DEF DeliveryInv, AuditOK
<1>2. Precedes(e, f)  BY <1>1, OrderKept
<1>3. QED  BY <1>2 DEF OrderInv, LogInOrder

LEMMA KindStays ==
  ASSUME DeliveryInv, NEW w \in Workers, Guarantee(w), IsBusy(w), IsBusy(w)'
  PROVE  CommandOf(w)'.kind = CommandOf(w).kind
<1>1. CommandsKept(w) /\ KeepsCommand(w)  BY DEF Guarantee, Effect
<1>2. worker'[w].command = worker[w].command  BY <1>1 DEF KeepsCommand
<1>3. worker[w].command \in DOMAIN commands  BY BusyFacts
<1>4. QED  BY <1>1, <1>2, <1>3 DEF CommandsKept, CommandOf

\* A running command that is no heartbeat says nothing about summaries.
LEMMA PlainStep ==
  ASSUME DeliveryInv, OrderInv, NEW w \in Workers, Guarantee(w), IsBusy(w),
         CommandOf(w).kind # "heartbeat", worker'[w].phase # "publishing", audit' = audit
  PROVE  OrderInv'
<1>1. ScopeIsSummary(w)'  BY KindStays DEF ScopeIsSummary
<1>2. QueueInOrder(w)'  BY DEF QueueInOrder
<1>3. LogInOrder'  BY LogStays
<1>4. QED  BY <1>1, <1>2, <1>3, OrderStep

LEMMA StartOrder ==
  ASSUME DeliveryInv, OrderInv, NEW w \in Workers, Start(w)
  PROVE  OrderInv'
<1>1. Guarantee(w)  BY StartStep
<1>2. PICK kind, actor, target : Begin(w, kind, actor, target)  BY DEF Start
<1>3. PICK n : n = Len(commands) + 1  OBVIOUS
<1>4. /\ ~ IsBusy(w) /\ audit' = audit
      /\ worker' = [worker EXCEPT ![w] = [Idle EXCEPT !.phase = "running", !.target = target,
                                                      !.command = n]]
  BY <1>2, <1>3 DEF Begin, IsBusy
<1>5. PICK s : s = [Idle EXCEPT !.phase = "running", !.target = target, !.command = n]
  OBVIOUS
<1>6. s = [phase |-> "running", command |-> n, target |-> target, changes |-> 0,
           scope |-> <<>>, tracked |-> {}, failing |-> FALSE, queue |-> <<>>, captured |-> {}]
  BY <1>5, Begun
<1>7. worker'[w] = s  BY <1>4, <1>5, Types
<1>8. worker'[w].phase = "running" /\ worker'[w].scope = <<>>  BY <1>6, <1>7
<1>9. ScopeIsSummary(w)'  BY <1>8, EmptySet DEF ScopeIsSummary
<1>10. QueueInOrder(w)'  BY <1>8 DEF QueueInOrder
<1>11. LogInOrder'  BY <1>1, <1>4, LogStays
<1>12. QED  BY <1>1, <1>4, <1>9, <1>10, <1>11, OrderStep

LEMMA MovedPhase ==
  ASSUME DeliveryInv, NEW w \in Workers
  PROVE  /\ \A tracked, scope : Return(w, tracked, scope) => worker'[w].phase = "returned"
         /\ \A scope : Raise(w, scope) => worker'[w].phase = "raised"
         /\ worker' = [worker EXCEPT ![w].changes = @ + 1] => worker'[w].phase = worker[w].phase
<1>1. worker \in [Workers -> WorkerState] /\ worker[w] \in WorkerState  BY Types
<1>2. ASSUME NEW tracked, NEW scope, Return(w, tracked, scope)
      PROVE  worker'[w].phase = "returned"
  BY <1>1, <1>2 DEF Return, WorkerState
<1>3. ASSUME NEW scope, Raise(w, scope) PROVE worker'[w].phase = "raised"
  BY <1>1, <1>3 DEF Raise, WorkerState
<1>4. ASSUME worker' = [worker EXCEPT ![w].changes = @ + 1]
      PROVE  worker'[w].phase = worker[w].phase
  BY <1>1, <1>4 DEF WorkerState
<1>5. QED  BY <1>2, <1>3, <1>4

LEMMA RunPlainOrder ==
  ASSUME DeliveryInv, OrderInv, NEW w \in Workers,
         \/ AssignPackage(w) \/ AssignmentsDone(w)
         \/ CreateCustomer(w) \/ RefusePackage(w) \/ CreatePackage(w) \/ Deny(w)
  PROVE  OrderInv'
<1>1. Guarantee(w)  BY RunningStep DEF Run
<1>a. \/ Running(w, "assign packages") \/ Running(w, "create package")
      \/ Running(w, "not permitted")
  BY DEF AssignPackage, AssignmentsDone, CreateCustomer, RefusePackage, CreatePackage, Deny
<1>2. PICK kind \in {"assign packages", "create package", "not permitted"} : Running(w, kind)
  BY <1>a
<1>3. IsBusy(w) /\ worker[w].phase = "running" /\ CommandOf(w).kind # "heartbeat"
  BY <1>2, RunningFacts
<1>4. audit' = audit
  BY DEF AssignPackage, AssignmentsDone, CreateCustomer, RefusePackage, CreatePackage, Deny
<1>5. \/ \E tracked, scope : Return(w, tracked, scope)
      \/ \E scope : Raise(w, scope)
      \/ worker' = [worker EXCEPT ![w].changes = @ + 1]
      \/ worker' = worker
  BY DEF AssignPackage, AssignmentsDone, CreateCustomer, RefusePackage, CreatePackage, Deny
<1>6. worker'[w].phase # "publishing"  BY <1>3, <1>5, MovedPhase
<1>7. QED  BY <1>1, <1>3, <1>4, <1>6, PlainStep

LEMMA DatabaseErrorOrder ==
  ASSUME DeliveryInv, OrderInv, NEW w \in Workers, DatabaseError(w)
  PROVE  OrderInv'
<1>1. Guarantee(w)  BY RunningStep DEF Run
<1>2. PICK z : z = <<>>  OBVIOUS
<1>3. Raise(w, z) /\ pending' = pending /\ audit' = audit  BY <1>2 DEF DatabaseError
<1>4. z \in Seq(Nat) /\ ToSet(z) = {}  BY <1>2, EmptySeq, EmptySet
<1>5. worker'[w].phase = "raised" /\ worker'[w].scope = z  BY <1>3, <1>4, RaiseFields
<1>6. ScopeIsSummary(w)'  BY <1>4, <1>5 DEF ScopeIsSummary
<1>7. QueueInOrder(w)'  BY <1>5 DEF QueueInOrder
<1>8. LogInOrder'  BY <1>1, <1>3, LogStays
<1>9. \A h \in Holders, r \in Recorders : PendingSet(h, r)' = PendingSet(h, r)
  BY <1>3 DEF PendingSet
<1>10. QED  BY <1>1, <1>6, <1>7, <1>8, <1>9, OrderStep

\* The change is recorded before the summary, and the heartbeat has no other
\* event that would have to come first.
LEMMA AdvanceOrder ==
  ASSUME DeliveryInv, OrderInv, NEW w \in Workers, Advance(w)
  PROVE  OrderInv'
<1>1. Guarantee(w)  BY RunningStep DEF Run
<1>a. PICK r : r = worker[w].target  OBVIOUS
<1>b. PICK z : z = <<NewEvent + 1>>  OBVIOUS
<1>c. PICK n : n = NewEvent  OBVIOUS
<1>2. /\ Running(w, "heartbeat") /\ Return(w, {r}, z) /\ NewPending(w, r)
      /\ commandOf' = commandOf \o <<worker[w].command, worker[w].command>>
      /\ audit' = audit /\ swept' = swept /\ commands' = commands
  BY <1>a, <1>b DEF Advance, NewPending
<1>3. IsBusy(w) /\ CommandOf(w).kind = "heartbeat"  BY <1>2, RunningFacts
<1>4. r \in Recorders
  <2>1. CommandOf(w).kind # "not permitted" => worker[w].target \in Recorders
    BY <1>2, RunningFacts
  <2>2. QED  BY <1>a, <1>3, <2>1
<1>5. ASSUME NEW e, Own(w, e) PROVE e \in swept
  <2>1. ~ RecordsOnTarget(w)  BY <1>3 DEF RecordsOnTarget
  <2>2. QED  BY <1>2, <1>5, <2>1, RunningFacts
<1>6. OwnNext(w, n) /\ n = Len(commandOf) + 1
      /\ \A e : OwnNext(w, e) => Own(w, e) \/ e = n \/ e = n + 1
  BY <1>c, <1>2, <1>3, TwoEvents DEF NewEvent
<1>7. ASSUME NEW e, Precedes(e, n)' PROVE FALSE
  <2>1. /\ e \in DOMAIN commandOf' /\ commandOf'[e] = commandOf'[n] /\ e < n
        /\ e \notin swept
    BY <1>2, <1>7 DEF Precedes
  <2>2. OwnNext(w, e)  BY <1>6, <2>1 DEF OwnNext
  <2>3. n \in Nat  BY <1>6, Types
  <2>4. Own(w, e)  BY <1>6, <2>1, <2>2, <2>3
  <2>5. QED  BY <1>5, <2>1, <2>4
<1>8. ASSUME NEW h \in Holders, NEW q \in Recorders, NEW f \in PendingSet(h, q)'
      PROVE  f \in PendingSet(h, q) \/ f = n
  BY <1>c, <1>2, <1>4, PendingGrows
<1>9. z \in Seq(Nat) /\ ToSet(z) = {NewEvent + 1}
  <2>1. NewEvent + 1 \in Nat  BY Types DEF NewEvent
  <2>2. QED  BY <1>b, <2>1, SingletonSet
<1>10. worker'[w].phase = "returned" /\ worker'[w].scope = z
  <2>1. {r} \in SUBSET Recorders  BY <1>4
  <2>2. QED  BY <1>2, <1>9, <2>1, ReturnFields
<1>11. ScopeIsSummary(w)'  BY <1>9, <1>10 DEF ScopeIsSummary
<1>12. QueueInOrder(w)'  BY <1>10 DEF QueueInOrder
<1>13. LogInOrder'  BY <1>1, <1>2, LogStays
<1>14. \A h \in Holders, q \in Recorders : \A f \in PendingSet(h, q)' :
         f \in PendingSet(h, q) \/ \A e : ~ Precedes(e, f)'
  <2> SUFFICES ASSUME NEW h \in Holders, NEW q \in Recorders, NEW f \in PendingSet(h, q)',
                      f \notin PendingSet(h, q), NEW e, Precedes(e, f)'
               PROVE  FALSE
    OBVIOUS
  <2>1. f = n  BY <1>8
  <2>2. Precedes(e, n)'  BY <2>1
  <2>3. QED  BY <1>7, <2>2
<1>15. QED  BY <1>1, <1>11, <1>12, <1>13, <1>14, OrderStep

-----------------------------------------------------------------------------
(* Draining keeps the order.                                               *)

\* A heartbeat's queue is what its recorders hold and then its scope.
LEMMA HeartbeatDrains ==
  ASSUME DeliveryInv, NEW w \in Workers, IsBusy(w), ~ worker[w].failing,
         CommandOf(w).kind = "heartbeat"
  PROVE  \E d \in Seq(Nat), s \in Seq(Nat) :
           /\ Drained(w) = d \o s /\ s = worker[w].scope
           /\ \A x : x \in ToSet(d) <=> \E r \in worker[w].tracked : x \in ToSet(PendingOf(w, r))
<1>a. PICK s : s = worker[w].scope  OBVIOUS
<1>b. PICK p : p = TrackedEvents(w, Parcel)  OBVIOUS
<1>c. PICK q : q = TrackedEvents(w, worker[w].target)  OBVIOUS
<1>1. s \in Seq(Nat) /\ worker[w].tracked \subseteq Recorders
  BY <1>a, Types DEF WorkerState
<1>2. worker[w].tracked \subseteq {Parcel, worker[w].target}
  BY BusyFacts DEF Assigned
<1>3. ASSUME NEW r PROVE TrackedEvents(w, r) \in Seq(Nat)
  <2>1. CASE r \in worker[w].tracked
    <3>1. r \in Recorders /\ Holder(w, r) \in Holders  BY <1>1, <2>1 DEF Holder, Holders
    <3>2. pending[Holder(w, r)][r] \in Seq(Nat)  BY <3>1, Types
    <3>3. QED  BY <2>1, <3>2 DEF TrackedEvents, PendingOf
  <2>2. CASE r \notin worker[w].tracked
    <3>1. TrackedEvents(w, r) = <<>>  BY <2>2 DEF TrackedEvents
    <3>2. QED  BY <3>1, EmptySeq
  <2>3. QED  BY <2>1, <2>2
<1>4. ASSUME NEW r, NEW x
      PROVE  x \in ToSet(TrackedEvents(w, r)) <=>
               r \in worker[w].tracked /\ x \in ToSet(PendingOf(w, r))
  BY EmptySet DEF TrackedEvents
<1>5. p \o q \in Seq(Nat) /\ ToSet(p \o q) = ToSet(p) \cup ToSet(q)
  BY <1>b, <1>c, <1>3, ConcatSet
<1>6. ASSUME NEW x
      PROVE  x \in ToSet(p \o q) <=> \E r \in worker[w].tracked : x \in ToSet(PendingOf(w, r))
  BY <1>b, <1>c, <1>2, <1>4, <1>5
<1>7. Drained(w) = (p \o q) \o s
  BY <1>a, <1>b, <1>c DEF Drained, DomainEvents
<1>8. QED  BY <1>a, <1>1, <1>5, <1>6, <1>7

LEMMA CaptureFields ==
  ASSUME DeliveryInv, NEW w \in Workers, Capture(w)
  PROVE  /\ IsBusy(w) /\ worker[w].phase \in {"returned", "raised"}
         /\ pending' = pending /\ audit' = audit
         /\ worker'[w].phase = "publishing" /\ worker'[w].queue = Drained(w)
         /\ worker'[w].scope = worker[w].scope
<1>1. worker \in [Workers -> WorkerState] /\ worker[w] \in WorkerState  BY Types
<1>2. PICK q, g : worker' = [worker EXCEPT ![w].phase = "publishing", ![w].queue = q,
                                           ![w].captured = g] /\ q = Drained(w)
  BY DEF Capture
<1>3. PICK t : t = [worker[w] EXCEPT !.phase = "publishing", !.queue = q, !.captured = g]
  OBVIOUS
<1>4. worker'[w] = t  BY <1>1, <1>2, <1>3
<1>5. t.phase = "publishing" /\ t.queue = q /\ t.scope = worker[w].scope
  BY <1>1, <1>3 DEF WorkerState
<1>6. QED  BY <1>2, <1>4, <1>5 DEF Capture, IsBusy

LEMMA CapturedQueue ==
  ASSUME DeliveryInv, OrderInv, NEW w \in Workers, IsBusy(w),
         worker[w].phase \in {"returned", "raised"},
         NEW q, q = Drained(w), NEW j \in DOMAIN q, NEW e, NEW f, f = q[j], Precedes(e, f)
  PROVE  \E i \in DOMAIN q : i < j /\ q[i] = e
<1>1. BusyOK(w) /\ Assigned(w)  BY BusyFacts
<1>2. worker[w].tracked \subseteq Recorders  BY Types DEF WorkerState
<1>3. f \in ToSet(Drained(w))  BY DEF ToSet
<1>4. ASSUME NEW r \in worker[w].tracked, f \in ToSet(PendingOf(w, r)) PROVE FALSE
  <2>1. r \in Recorders /\ Holder(w, r) \in Holders  BY <1>2 DEF Holder, Holders
  <2>2. f \in PendingSet(Holder(w, r), r)  BY <1>4 DEF PendingOf, PendingSet
  <2>3. QED  BY <2>1, <2>2 DEF OrderInv, PendingComesFirst
<1>5. f \in ToSet(worker[w].scope)  BY <1>3, <1>4, DrainedSet
<1>6. Own(w, f) /\ Own(w, e)
  <2>1. Own(w, f)  BY <1>1, <1>5 DEF BusyOK
  <2>2. QED  BY <2>1 DEF Precedes, Own
<1>7. CommandOf(w).kind = "heartbeat"  BY <1>6 DEF Precedes, Own, CommandOf
<1>8. ScopeIsSummary(w)  BY DEF OrderInv
<1>9. worker[w].phase = "returned"  BY <1>5, <1>7, <1>8 DEF ScopeIsSummary
<1>10. ~ worker[w].failing  BY <1>1, <1>9 DEF Assigned
<1>11. PICK d \in Seq(Nat), s \in Seq(Nat) :
         /\ q = d \o s /\ s = worker[w].scope
         /\ \A x : x \in ToSet(d) <=> \E r \in worker[w].tracked : x \in ToSet(PendingOf(w, r))
  BY <1>7, <1>10, HeartbeatDrains
<1>12. e \in ToSet(d)
  <2>1. Held(w, e)  BY <1>1, <1>6 DEF BusyOK, Precedes
  <2>2. e # f
    <3>1. f \in Nat /\ e < f  BY Types DEF Precedes
    <3>2. QED  BY <3>1
  <2>3. e \notin ToSet(worker[w].scope)
    BY <1>5, <1>7, <1>8, <2>2 DEF ScopeIsSummary
  <2>4. \E r \in worker[w].tracked : e \in ToSet(PendingOf(w, r))
    BY <1>9, <2>1, <2>3 DEF Held
  <2>5. QED  BY <1>11, <2>4
<1>13. /\ Len(d) \in Nat /\ Len(s) \in Nat /\ DOMAIN d = 1 .. Len(d)
       /\ DOMAIN q = 1 .. Len(d) + Len(s)
       /\ \A i \in 1 .. Len(d) + Len(s) : q[i] = IF i <= Len(d) THEN d[i] ELSE s[i - Len(d)]
  <2>1. q \in Seq(Nat) /\ Len(q) = Len(d) + Len(s)  BY <1>11, ConcatProperties
  <2>2. \A i \in 1 .. Len(d) + Len(s) : q[i] = IF i <= Len(d) THEN d[i] ELSE s[i - Len(d)]
    BY <1>11, ConcatProperties
  <2>3. Len(d) \in Nat /\ Len(s) \in Nat /\ DOMAIN d = 1 .. Len(d)  OBVIOUS
  <2>4. DOMAIN q = 1 .. Len(q)  BY <2>1
  <2>5. QED  BY <2>1, <2>2, <2>3, <2>4
<1>14. ~ (j <= Len(d))
  <2> SUFFICES ASSUME j <= Len(d) PROVE FALSE  OBVIOUS
  <2>1. j \in DOMAIN d /\ f = d[j]  BY <1>13
  <2>2. f \in ToSet(d)  BY <2>1 DEF ToSet
  <2>3. QED  BY <1>4, <1>11, <2>2
<1>15. PICK i \in DOMAIN d : d[i] = e  BY <1>12 DEF ToSet
<1>16. i \in DOMAIN q /\ i < j /\ i <= Len(d)  BY <1>13, <1>14, <1>15
<1>17. q[i] = e  BY <1>13, <1>15, <1>16
<1>18. QED  BY <1>16, <1>17

LEMMA CaptureOrder ==
  ASSUME DeliveryInv, OrderInv, NEW w \in Workers, Capture(w)
  PROVE  OrderInv'
<1>1. Guarantee(w)  BY CaptureStep
<1>a. PICK q : q = Drained(w)  OBVIOUS
<1>2. /\ IsBusy(w) /\ worker[w].phase \in {"returned", "raised"}
      /\ pending' = pending /\ audit' = audit
      /\ worker'[w].phase = "publishing" /\ worker'[w].queue = q
      /\ worker'[w].scope = worker[w].scope
  BY <1>a, CaptureFields
<1>3. ScopeIsSummary(w)'
  <2>1. CommandOf(w)'.kind = CommandOf(w).kind  BY <1>1, <1>2, KindStays DEF IsBusy
  <2>2. ScopeIsSummary(w)  BY DEF OrderInv
  <2>3. QED  BY <1>2, <2>1, <2>2 DEF ScopeIsSummary
<1>4. QueueInOrder(w)'
  <2> SUFFICES ASSUME NEW j \in DOMAIN q, NEW f, f = q[j], NEW e, Precedes(e, f)'
               PROVE  \E i \in DOMAIN q : i < j /\ q[i] = e
    BY <1>2 DEF QueueInOrder
  <2>1. f \in DOMAIN commandOf
    <3>2. f \in ToSet(q)  BY DEF ToSet
    <3>3. \/ f \in ToSet(worker[w].scope)
          \/ \E r \in worker[w].tracked : f \in ToSet(PendingOf(w, r))
      BY <1>a, <1>2, <3>2, DrainedSet
    <3>4. worker[w].tracked \subseteq Recorders  BY Types DEF WorkerState
    <3>5. CASE f \in ToSet(worker[w].scope)
      BY <1>2, <3>5, BusyFacts DEF BusyOK, Own
    <3>6. CASE \E r \in worker[w].tracked : f \in ToSet(PendingOf(w, r))
      BY <1>2, <3>4, <3>6, ReachedEvents
    <3>7. QED  BY <3>3, <3>5, <3>6
  <2>2. Precedes(e, f)  BY <1>1, <2>1, OrderKept
  <2>3. QED  BY <1>a, <1>2, <2>2, CapturedQueue
<1>5. LogInOrder'  BY <1>1, <1>2, LogStays
<1>6. \A h \in Holders, r \in Recorders : PendingSet(h, r)' = PendingSet(h, r)
  BY <1>2 DEF PendingSet
<1>7. QED  BY <1>1, <1>3, <1>4, <1>5, <1>6, OrderStep

LEMMA PublishFields ==
  ASSUME DeliveryInv, NEW w \in Workers, Publish(w)
  PROVE  /\ IsBusy(w) /\ worker[w].phase = "publishing" /\ worker[w].queue # <<>>
         /\ pending' = pending
         /\ audit' = AddRecord(Head(worker[w].queue), CommandOf(w).actor)
         /\ worker'[w].phase = "publishing" /\ worker'[w].queue = Tail(worker[w].queue)
         /\ worker'[w].scope = worker[w].scope
<1>1. worker \in [Workers -> WorkerState] /\ worker[w] \in WorkerState  BY Types
<1>2. PICK q : worker' = [worker EXCEPT ![w].queue = q] /\ q = Tail(worker[w].queue)
  BY DEF Publish
<1>3. PICK t : t = [worker[w] EXCEPT !.queue = q]  OBVIOUS
<1>4. worker'[w] = t  BY <1>1, <1>2, <1>3
<1>5. t.phase = worker[w].phase /\ t.queue = q /\ t.scope = worker[w].scope
  BY <1>1, <1>3 DEF WorkerState
<1>6. QED  BY <1>2, <1>4, <1>5 DEF Publish, IsBusy

\* The record of an event is written after those it sums up, and the rest of
\* the batch stays in order.
LEMMA PublishOrder ==
  ASSUME DeliveryInv, OrderInv, NEW w \in Workers, Publish(w)
  PROVE  OrderInv'
<1>1. Guarantee(w)  BY PublishStep
<1>a. PICK q : q = worker[w].queue  OBVIOUS
<1>b. PICK x : x = Head(q)  OBVIOUS
<1>c. PICK a : a = CommandOf(w).actor  OBVIOUS
<1>d. PICK t : t = Tail(q)  OBVIOUS
<1>2. /\ IsBusy(w) /\ worker[w].phase = "publishing" /\ q # <<>>
      /\ pending' = pending /\ audit' = AddRecord(x, a)
      /\ worker'[w].phase = "publishing" /\ worker'[w].queue = t
      /\ worker'[w].scope = worker[w].scope
  BY <1>a, <1>b, <1>c, <1>d, PublishFields
<1>3. q \in Seq(Nat)  BY <1>a, Types DEF WorkerState
<1>4. /\ Len(q) \in Nat /\ DOMAIN q = 1 .. Len(q) /\ 1 \in DOMAIN q /\ x = q[1] /\ x \in Nat
      /\ DOMAIN t = 1 .. Len(q) - 1
      /\ \A i \in 1 .. Len(q) - 1 : t[i] = q[i + 1]
  <2>1. Len(q) \in Nat /\ Len(q) # 0 /\ DOMAIN q = 1 .. Len(q)  BY <1>2, <1>3, EmptySeq
  <2>2. x = q[1] /\ 1 \in DOMAIN q  BY <1>b, <1>3, <2>1, HeadTailProperties
  <2>3. /\ t \in Seq(Nat) /\ Len(t) = Len(q) - 1
        /\ \A i \in 1 .. Len(t) : t[i] = q[i + 1]
    BY <1>d, <1>2, <1>3, HeadTailProperties
  <2>4. DOMAIN t = 1 .. Len(q) - 1  BY <2>3
  <2>5. QED  BY <1>3, <2>1, <2>2, <2>3, <2>4
<1>5. a \in Actors \cup {None}
  <2>1. worker[w].command \in DOMAIN commands  BY <1>2, BusyFacts
  <2>2. commands[worker[w].command] \in Command  BY <2>1, Types
  <2>3. QED  BY <1>c, <2>2 DEF Command, CommandOf
<1>6. ASSUME NEW j \in DOMAIN q, NEW f, f = q[j], NEW e, Precedes(e, f)'
      PROVE  InLog(e) \/ \E i \in DOMAIN q : i < j /\ q[i] = e
  <2>1. f \in ToSet(q)  BY <1>6 DEF ToSet
  <2>2. f \in DOMAIN commandOf  BY <1>a, <1>2, <2>1, BusyFacts DEF BusyOK
  <2>3. Precedes(e, f)  BY <1>1, <1>6, <2>2, OrderKept
  <2>4. QueueInOrder(w)  BY DEF OrderInv
  <2>5. QED  BY <1>a, <1>2, <1>6, <2>3, <2>4 DEF QueueInOrder
<1>7. ScopeIsSummary(w)'
  <2>1. CommandOf(w)'.kind = CommandOf(w).kind  BY <1>1, <1>2, KindStays DEF IsBusy
  <2>2. ScopeIsSummary(w)  BY DEF OrderInv
  <2>3. QED  BY <1>2, <2>1, <2>2 DEF ScopeIsSummary
<1>8. InLog(x)'
  <2>1. CASE \E i \in DOMAIN audit : audit[i].event = x
    <3>1. InLog(x)  BY <2>1 DEF InLog
    <3>2. QED  BY <1>1, <3>1, OrderKept
  <2>2. CASE \E i \in DOMAIN audit' : audit'[i] = [event |-> x, actor |-> a]
    BY <2>2 DEF InLog
  <2>3. QED  BY <1>2, <1>4, <1>5, <2>1, <2>2, RecordAdded
<1>9. QueueInOrder(w)'
  <2> SUFFICES ASSUME NEW j \in DOMAIN t, NEW f, f = t[j], NEW e, Precedes(e, f)', ~ InLog(e)'
               PROVE  \E i \in DOMAIN t : i < j /\ t[i] = e
    BY <1>2 DEF QueueInOrder
  <2>1. j + 1 \in DOMAIN q /\ f = q[j + 1]  BY <1>4
  <2>2. ~ InLog(e)  BY <1>1, OrderKept
  <2>3. PICK i \in DOMAIN q : i < j + 1 /\ q[i] = e  BY <1>6, <2>1, <2>2
  <2>4. i # 1  BY <1>4, <1>8, <2>3
  <2>5. i - 1 \in DOMAIN t /\ i - 1 < j /\ i - 1 + 1 = i  BY <1>4, <2>3, <2>4
  <2>6. t[i - 1] = e  BY <1>4, <2>3, <2>5
  <2>7. QED  BY <2>5, <2>6
<1>10. LogInOrder'
  <2>1. CASE \E i \in DOMAIN audit : audit[i].event = x
    <3>1. audit' = audit  BY <1>2, <2>1 DEF AddRecord
    <3>2. QED  BY <1>1, <3>1, LogStays
  <2>2. CASE ~ \E i \in DOMAIN audit : audit[i].event = x
    <3>a. PICK n : n = Len(audit) + 1  OBVIOUS
    <3>b. PICK u : u = [event |-> x, actor |-> a]  OBVIOUS
    <3>1. audit \in Seq(AuditRecord) /\ u \in AuditRecord /\ u.event = x
      BY <1>4, <1>5, <3>b, Types DEF AuditRecord
    <3>2. audit' = Append(audit, u)  BY <1>2, <2>2, <3>b DEF AddRecord
    <3>3. /\ audit'[n] = u /\ Len(audit) \in Nat /\ DOMAIN audit = 1 .. Len(audit)
          /\ \A k \in DOMAIN audit : k \in DOMAIN audit' /\ audit'[k] = audit[k]
          /\ \A k \in DOMAIN audit' : k \in DOMAIN audit \/ k = n
      BY <3>a, <3>1, <3>2, Extended
    <3>4. ASSUME NEW j \in DOMAIN audit, NEW f, f = audit[j].event, NEW e, Precedes(e, f)'
          PROVE  \E i \in DOMAIN audit : i < j /\ audit[i].event = e
      <4>1. f \in DOMAIN commandOf  BY <3>4 DEF DeliveryInv, AuditOK
      <4>2. Precedes(e, f)  BY <1>1, <3>4, <4>1, OrderKept
      <4>3. QED  BY <3>4, <4>2 DEF OrderInv, LogInOrder
    <3>5. ASSUME NEW e, Precedes(e, x)' PROVE \E i \in DOMAIN audit : i < n /\ audit[i].event = e
      <4>1. \A i \in DOMAIN q : ~ (i < 1)  BY <1>4
      <4>2. InLog(e)  BY <1>4, <1>6, <3>5, <4>1
      <4>3. QED  BY <3>a, <3>3, <4>2 DEF InLog
    <3>6. ASSUME NEW j \in DOMAIN audit', NEW f, f = audit'[j].event, NEW e, Precedes(e, f)'
          PROVE  \E i \in DOMAIN audit' : i < j /\ audit'[i].event = e
      <4>1. CASE j \in DOMAIN audit  BY <3>3, <3>4, <3>6, <4>1
      <4>2. CASE j = n
        <5>1. f = x  BY <3>1, <3>3, <3>6, <4>2
        <5>2. Precedes(e, x)'  BY <3>6, <5>1
        <5>3. QED  BY <3>3, <3>5, <4>2, <5>2
      <4>3. QED  BY <3>3, <4>1, <4>2
    <3>7. QED  BY <3>6 DEF LogInOrder
  <2>3. QED  BY <2>1, <2>2
<1>11. \A h \in Holders, r \in Recorders : PendingSet(h, r)' = PendingSet(h, r)
  BY <1>2 DEF PendingSet
<1>12. QED  BY <1>1, <1>7, <1>9, <1>10, <1>11, OrderStep

LEMMA FinishOrder ==
  ASSUME DeliveryInv, OrderInv, NEW w \in Workers, PublishFails(w) \/ Clear(w)
  PROVE  OrderInv'
<1>1. Guarantee(w)  BY PublishFailsStep, ClearStep
<1>2. PICK outcome, cleared : Finish(w, outcome, cleared)  BY DEF PublishFails, Clear
<1>3. audit' = audit  BY DEF PublishFails, Clear
<1>4. PICK z : z = <<>>  OBVIOUS
<1>5. PICK i : i = Idle  OBVIOUS
<1>6. worker' = [worker EXCEPT ![w] = i]
      /\ pending' = [h \in DOMAIN pending |-> [r \in Recorders |->
           IF h = w \/ (h = Shared /\ r \in cleared) THEN z ELSE pending[h][r]]]
  BY <1>2, <1>4, <1>5 DEF Finish
<1>7. i.phase = "idle" /\ worker'[w] = i
  <2>1. worker'[w] = i  BY <1>6, Types
  <2>2. QED  BY <1>5, <2>1 DEF Idle
<1>8. ScopeIsSummary(w)' /\ QueueInOrder(w)'
  BY <1>7 DEF ScopeIsSummary, QueueInOrder, IsBusy
<1>9. ASSUME NEW h \in Holders, NEW r \in Recorders, NEW f \in PendingSet(h, r)'
      PROVE  f \in PendingSet(h, r)
  <2>1. DOMAIN pending = Holders  BY Types
  <2>2. pending'[h][r] = z \/ pending'[h][r] = pending[h][r]  BY <1>6, <2>1
  <2>3. ToSet(z) = {}  BY <1>4, EmptySet
  <2>4. QED  BY <2>2, <2>3 DEF PendingSet
<1>10. LogInOrder'  BY <1>1, <1>3, LogStays
<1>11. QED  BY <1>1, <1>8, <1>9, <1>10, OrderStep

LEMMA CrashOrder ==
  ASSUME DeliveryInv, OrderInv, Crash
  PROVE  OrderInv'
<1>a. PICK z : z = <<>>  OBVIOUS
<1>b. PICK i : i = Idle  OBVIOUS
<1>1. /\ commandOf' = commandOf /\ audit' = audit /\ swept' = swept
      /\ worker' = [w \in Workers |-> i]
      /\ pending' = [h \in DOMAIN pending |-> [r \in Recorders |-> z]]
  BY <1>a, <1>b DEF Crash
<1>2. ASSUME NEW c \in DOMAIN commands PROVE commands'[c].kind = commands[c].kind
  <2>1. commands[c] \in Command  BY Types
  <2>2. commands'[c] = IF commands[c].outcome = "running"
                       THEN [commands[c] EXCEPT !.outcome = "died"] ELSE commands[c]
    BY DEF Crash
  <2>3. QED  BY <2>1, <2>2 DEF Command
<1>3. ASSUME NEW f \in DOMAIN commandOf, NEW e, Precedes(e, f)' PROVE Precedes(e, f)
  <2>1. commandOf' \in Seq(Nat)  BY <1>1, Types
  <2>2. QED  BY <1>1, <1>2, <1>3, <2>1, PrecedesKept
<1>4. PendingComesFirst'
  <2>1. ASSUME NEW h \in Holders, NEW r \in Recorders PROVE PendingSet(h, r)' = {}
    <3>1. DOMAIN pending = Holders  BY Types
    <3>2. pending'[h][r] = z  BY <1>1, <3>1
    <3>3. QED  BY <1>a, <3>2, EmptySet DEF PendingSet
  <2>2. QED  BY <2>1 DEF PendingComesFirst
<1>5. i.phase = "idle"  BY <1>b DEF Idle
<1>6. \A w \in Workers : ScopeIsSummary(w)' /\ QueueInOrder(w)'
  BY <1>1, <1>5 DEF ScopeIsSummary, QueueInOrder, IsBusy
<1>7. LogInOrder'
  <2> SUFFICES ASSUME NEW j \in DOMAIN audit, NEW f, f = audit[j].event, NEW e, Precedes(e, f)'
               PROVE  \E k \in DOMAIN audit : k < j /\ audit[k].event = e
    BY <1>1 DEF LogInOrder
  <2>1. f \in DOMAIN commandOf  BY DEF DeliveryInv, AuditOK
  <2>2. Precedes(e, f)  BY <1>3, <2>1
  <2>3. QED  BY <2>2 DEF OrderInv, LogInOrder
<1>8. QED  BY <1>4, <1>6, <1>7 DEF OrderInv

LEMMA StutteringOrder ==
  ASSUME OrderInv, UNCHANGED vars
  PROVE  OrderInv'
<1>1. /\ commands' = commands /\ commandOf' = commandOf /\ pending' = pending
      /\ worker' = worker /\ audit' = audit /\ swept' = swept
  BY DEF vars
<1>2. ASSUME NEW e, NEW f PROVE Precedes(e, f)' <=> Precedes(e, f)  BY <1>1 DEF Precedes
<1>3. PendingComesFirst'  BY <1>1, <1>2 DEF OrderInv, PendingComesFirst, PendingSet
<1>4. ASSUME NEW w \in Workers PROVE ScopeIsSummary(w)' /\ QueueInOrder(w)'
  <2>1. ScopeIsSummary(w) /\ QueueInOrder(w)  BY DEF OrderInv
  <2>2. ScopeIsSummary(w)'  BY <1>1, <2>1 DEF ScopeIsSummary, IsBusy, CommandOf
  <2>3. QueueInOrder(w)'  BY <1>1, <1>2, <2>1 DEF QueueInOrder, InLog, Precedes
  <2>4. QED  BY <2>2, <2>3
<1>5. LogInOrder'  BY <1>1, <1>2 DEF OrderInv, LogInOrder, Precedes
<1>6. QED  BY <1>3, <1>4, <1>5 DEF OrderInv

LEMMA InitOrder == Init => OrderInv
<1> SUFFICES ASSUME Init PROVE OrderInv  OBVIOUS
<1>a. PICK z : z = <<>>  OBVIOUS
<1>1. /\ commandOf = z /\ audit = z /\ worker = [w \in Workers |-> Idle]
  BY <1>a DEF Init
<1>2. DOMAIN z = {}  BY <1>a
<1>3. PendingComesFirst  BY <1>1, <1>2 DEF PendingComesFirst, Precedes
<1>4. ASSUME NEW w \in Workers PROVE ScopeIsSummary(w) /\ QueueInOrder(w)
  BY <1>1 DEF ScopeIsSummary, QueueInOrder, IsBusy, Idle
<1>5. LogInOrder  BY <1>1, <1>2 DEF LogInOrder
<1>6. QED  BY <1>3, <1>4, <1>5 DEF OrderInv

LEMMA NextOrder == DeliveryInv /\ OrderInv /\ [Next]_vars => OrderInv'
<1> SUFFICES ASSUME DeliveryInv, OrderInv, [Next]_vars PROVE OrderInv'  OBVIOUS
<1>1. CASE Crash  BY <1>1, CrashOrder
<1>2. ASSUME NEW w \in Workers, Start(w) PROVE OrderInv'  BY <1>2, StartOrder
<1>3. ASSUME NEW w \in Workers, Run(w) PROVE OrderInv'
  BY <1>3, RunPlainOrder, DatabaseErrorOrder, AdvanceOrder DEF Run
<1>4. ASSUME NEW w \in Workers, Drain(w) PROVE OrderInv'
  BY <1>4, CaptureOrder, PublishOrder, FinishOrder DEF Drain
<1>5. CASE UNCHANGED vars  BY <1>5, StutteringOrder
<1>6. QED  BY <1>1, <1>2, <1>3, <1>4, <1>5 DEF Next

\* In the log a heartbeat's summary comes after the changes it sums up, unless
\* another command has taken them: the executor drains the entities before the
\* scope, whatever fails or runs beside it (README:
\* domain-event-before-summary ordering).
THEOREM SummaryFollows == Spec => []SummaryComesLast
<1>1. DeliveryInv /\ OrderInv => SummaryComesLast
  <2> SUFFICES ASSUME DeliveryInv, OrderInv, NEW i \in DOMAIN audit, NEW j \in DOMAIN audit,
                      NEW e, e = audit[i].event, NEW f, f = audit[j].event,
                      commandOf[e] = commandOf[f], e < f,
                      commands[commandOf[e]].kind = "heartbeat", e \notin swept
               PROVE  i < j
    BY DEF SummaryComesLast
  <2>1. e \in DOMAIN commandOf /\ f \in DOMAIN commandOf  BY DEF DeliveryInv, AuditOK
  <2>2. Precedes(e, f)  BY <2>1 DEF Precedes
  <2>3. PICK k \in DOMAIN audit : k < j /\ audit[k].event = e
    BY <2>2 DEF OrderInv, LogInOrder
  <2>4. k = i  BY <2>3 DEF DeliveryInv, AuditedOnce
  <2>5. QED  BY <2>3, <2>4
<1>2. DeliveryInv /\ OrderInv /\ [Next]_vars => DeliveryInv' /\ OrderInv'
  BY NextDelivery, NextOrder
<1>3. Init => DeliveryInv /\ OrderInv  BY InitDelivery, InitOrder
<1>4. QED  BY <1>1, <1>2, <1>3, PTL DEF Spec

=============================================================================
