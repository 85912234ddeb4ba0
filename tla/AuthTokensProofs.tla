--------------------------- MODULE AuthTokensProofs ---------------------------
(***************************************************************************)
(* Revocation, sessions and passwords of AuthTokens, for every set of      *)
(* accounts and threads and any number of requests and restarts.           *)
(*                                                                         *)
(* The inductive invariant counts: as long as the JSON store has not been  *)
(* disturbed, an account's version is one more than the updates written,   *)
(* and a token's is one more than those it was read after, or two when it  *)
(* was read between the two assignments of the JSON store.                 *)
(***************************************************************************)
EXTENDS AuthTokens, SequenceTheorems, TLAPS

Record == [version : Nat, password : Passwords]
Token == [account : Accounts, version : Nat, updates : Nat]

Phases ==
  {"resting", "issue", "check", "read", "write", "write by id", "image", "replace", "return"}

Handler ==
  [phase : Phases, account : Accounts \cup {SamePassword},
   password : Passwords \cup {SamePassword}, copy : Record \cup {SamePassword},
   image : [Accounts -> Record] \cup {SamePassword}, before : Nat, updates : Nat]

HandlerOK(h) ==
  /\ handler[h].phase # "resting" =>
       handler[h].account \in Accounts /\ handler[h].copy \in Record
  /\ handler[h].phase = "replace" => handler[h].image \in [Accounts -> Record]
  /\ handler[h].before <= Len(tokens)
  /\ store = "postgres" => ~Unsaved(h)

AuthTypeOK ==
  /\ store \in {"json", "postgres"}
  /\ byName \in [Accounts -> Record]
  /\ byId \in [Accounts -> Record]
  /\ file \in [Accounts -> Record]
  /\ handler \in [Threads -> Handler]
  /\ tokens \in Seq(Token)
  /\ requests \in Nat
  /\ written \in [Accounts -> [count : Nat, password : Passwords]]
  /\ revoked \subseteq 1 .. Len(tokens)
  /\ disturbed \in BOOLEAN
  /\ \A h \in Threads : HandlerOK(h)

WritingById(h, u) == handler[h].phase = "write by id" /\ handler[h].account = u

\* One update of the JSON store at a time.
Serial ==
  store = "json" => \A g, h \in Threads : Updating(g) /\ Updating(h) => g = h

\* The dictionary by id holds what has been written.
Counted ==
  \A u \in Accounts :
    byId[u].version = written[u].count + 1 /\ byId[u].password = written[u].password

\* The one by name is ahead of it between the two assignments only.
Mirrored ==
  \A u \in Accounts : byName[u] = byId[u] \/ \E h \in Threads : WritingById(h, u)

Prepared ==
  \A h \in Threads :
    /\ handler[h].phase = "write" /\ store = "json" =>
         handler[h].copy = byId[handler[h].account]
    /\ handler[h].phase = "write by id" =>
         /\ handler[h].copy = byName[handler[h].account]
         /\ handler[h].copy.version = byId[handler[h].account].version + 1
         /\ handler[h].copy.password = Changed(byId[handler[h].account], handler[h].password).password
    /\ handler[h].phase = "replace" => handler[h].image = byName

Saved == (\A h \in Threads : ~Unsaved(h)) /\ store = "json" => file = byName

\* What was read of account u: its version and the updates written by then.
ReadAt(u, version, updates) ==
  /\ updates <= written[u].count
  /\ \/ version = updates + 1
     \/ /\ version = updates + 2
        /\ updates = written[u].count => \E h \in Threads : WritingById(h, u)

Dated ==
  /\ \A i \in 1 .. Len(tokens) :
       ReadAt(tokens[i].account, tokens[i].version, tokens[i].updates)
  /\ \A h \in Threads : handler[h].phase = "issue" =>
       ReadAt(handler[h].account, handler[h].copy.version, handler[h].updates)

\* The tokens an update revokes are older than what it has written ...
Overtaken ==
  \A h \in Threads : \A i \in 1 .. handler[h].before :
    tokens[i].account = handler[h].account =>
      /\ handler[h].phase = "write by id" =>
           tokens[i].version <= written[handler[h].account].count + 1
      /\ handler[h].phase \in {"image", "replace", "return"} =>
           tokens[i].version <= written[handler[h].account].count

\* ... and stay so.
Outdated == \A i \in revoked : tokens[i].version <= written[tokens[i].account].count

Undisturbed ==
  Serial /\ Counted /\ Mirrored /\ Prepared /\ Saved /\ Dated /\ Overtaken /\ Outdated

AuthInv == AuthTypeOK /\ (~disturbed => Undisturbed)

-----------------------------------------------------------------------------
(* What the type invariant says of one thread, account or token.           *)

LEMMA RestingIsOK == Resting \in Handler
  BY DEF Resting, Handler, Phases

LEMMA ChangedType ==
  ASSUME NEW record \in Record, NEW password \in Passwords \cup {SamePassword}
  PROVE  Changed(record, password) \in Record
  BY DEF Changed, Record

LEMMA ThreadType ==
  ASSUME AuthTypeOK, NEW h \in Threads
  PROVE  /\ handler[h] \in Handler
         /\ handler[h].phase \in Phases
         /\ handler[h].password \in Passwords \cup {SamePassword}
         /\ handler[h].before \in Nat /\ handler[h].before <= Len(tokens)
         /\ handler[h].updates \in Nat
         /\ handler[h].phase # "resting" =>
              handler[h].account \in Accounts /\ handler[h].copy \in Record
         /\ handler[h].phase = "replace" => handler[h].image \in [Accounts -> Record]
         /\ store = "postgres" => ~Unsaved(h)
  BY DEF AuthTypeOK, Handler, HandlerOK

LEMMA AccountType ==
  ASSUME AuthTypeOK, NEW u \in Accounts
  PROVE  /\ byName[u] \in Record /\ byId[u] \in Record /\ file[u] \in Record
         /\ byName[u].version \in Nat /\ byId[u].version \in Nat
         /\ written[u].count \in Nat /\ written[u].password \in Passwords
  BY DEF AuthTypeOK, Record

LEMMA TokenType ==
  ASSUME AuthTypeOK, NEW i \in 1 .. Len(tokens)
  PROVE  /\ tokens[i].account \in Accounts
         /\ tokens[i].version \in Nat
         /\ tokens[i].updates \in Nat
<1>1. tokens[i] \in Token
  BY DEF AuthTypeOK
<1> QED BY <1>1 DEF Token

LEMMA LengthType == AuthTypeOK => Len(tokens) \in Nat
  BY DEF AuthTypeOK

LEMMA Appended ==
  ASSUME AuthTypeOK, NEW token \in Token
  PROVE  /\ Append(tokens, token) \in Seq(Token)
         /\ Len(Append(tokens, token)) = Len(tokens) + 1
         /\ \A i \in 1 .. Len(tokens) : Append(tokens, token)[i] = tokens[i]
         /\ Append(tokens, token)[Len(tokens) + 1] = token
<1>1. tokens \in Seq(Token)
  BY DEF AuthTypeOK
<1> QED BY <1>1, AppendProperties

LEMMA Earlier ==
  ASSUME NEW m \in Nat, NEW n \in Nat, m <= n, NEW i \in 1 .. m
  PROVE  i \in 1 .. n
  OBVIOUS

LEMMA LastOne ==
  ASSUME NEW n \in Nat, NEW i \in 1 .. n + 1, i \notin 1 .. n
  PROVE  i = n + 1
  OBVIOUS

\* A step that changes one thread only, and neither records nor tokens.
LEMMA ThreadTypeStep ==
  ASSUME AuthTypeOK, NEW h \in Threads, NEW new \in Handler,
         handler' = [handler EXCEPT ![h] = new],
         UNCHANGED <<store, byName, byId, written, tokens>>,
         file' \in [Accounts -> Record], requests' \in Nat, disturbed' \in BOOLEAN,
         revoked' \subseteq 1 .. Len(tokens),
         new.phase # "resting" => new.account \in Accounts /\ new.copy \in Record,
         new.phase = "replace" => new.image \in [Accounts -> Record],
         new.before <= Len(tokens),
         store = "postgres" => new.phase \notin {"write by id", "image", "replace"}
  PROVE  AuthTypeOK'
<1>1. handler' \in [Threads -> Handler]
  BY DEF AuthTypeOK
<1>2. HandlerOK(h)'
  <2>1. handler'[h] = new
    BY DEF AuthTypeOK
  <2> QED BY <2>1 DEF HandlerOK, Unsaved
<1>3. ASSUME NEW g \in Threads, g # h PROVE HandlerOK(g)'
  <2>1. handler'[g] = handler[g] /\ HandlerOK(g)
    BY <1>3 DEF AuthTypeOK
  <2> QED BY <2>1 DEF HandlerOK, Unsaved
<1> QED BY <1>1, <1>2, <1>3 DEF AuthTypeOK

-----------------------------------------------------------------------------
(* The initial states.                                                     *)

LEMMA InitInv == AuthInit => AuthInv
<1> SUFFICES ASSUME AuthInit PROVE AuthInv
  OBVIOUS
<1>1. /\ byName \in [Accounts -> Record] /\ byId = byName /\ file = byName
      /\ \A u \in Accounts : byName[u].version = 1 /\ byName[u].password \in Passwords
  BY DEF AuthInit, Record
<1>2. /\ written \in [Accounts -> [count : Nat, password : Passwords]]
      /\ \A u \in Accounts : written[u].count = 0 /\ written[u].password = byName[u].password
  BY <1>1 DEF AuthInit
<1>3. tokens = <<>> /\ tokens \in Seq(Token) /\ Len(tokens) = 0 /\ revoked = {}
  BY DEF AuthInit
<1>4. \A h \in Threads : handler[h] = Resting
  BY DEF AuthInit
<1>5. ASSUME NEW g \in Threads
      PROVE  ~Updating(g) /\ ~Unsaved(g) /\ handler[g].phase = "resting" /\ handler[g].before = 0
  <2>1. handler[g] = Resting
    BY <1>4
  <2>2. handler[g].phase = "resting" /\ handler[g].before = 0
    BY <2>1 DEF Resting
  <2> QED BY <2>2 DEF Updating, Unsaved
<1>6. AuthTypeOK
  <2>1. handler \in [Threads -> Handler]
    BY RestingIsOK DEF AuthInit
  <2>2. ASSUME NEW h \in Threads PROVE HandlerOK(h)
    BY <1>3, <1>5 DEF HandlerOK
  <2>3. store \in {"json", "postgres"} /\ requests \in Nat /\ disturbed \in BOOLEAN
    BY AuthTokensAssumption DEF AuthInit
  <2>4. revoked \subseteq 1 .. Len(tokens)
    BY <1>3
  <2> QED BY <1>1, <1>2, <1>3, <2>1, <2>2, <2>3, <2>4 DEF AuthTypeOK
<1>7. Serial /\ Mirrored /\ Prepared /\ Saved
  BY <1>1, <1>5 DEF Serial, Mirrored, Prepared, Saved
<1>8. Counted
  <2> SUFFICES ASSUME NEW v \in Accounts
               PROVE  byId[v].version = written[v].count + 1 /\ byId[v].password = written[v].password
    BY DEF Counted
  <2> QED BY <1>1, <1>2
<1>9. Dated
  BY <1>3, <1>5 DEF Dated
<1>10. Overtaken /\ Outdated
  BY <1>3, <1>5 DEF Overtaken, Outdated
<1> QED BY <1>6, <1>7, <1>8, <1>9, <1>10 DEF AuthInv, Undisturbed

-----------------------------------------------------------------------------
(* Steps of one thread that write no record.                               *)

LEMMA ThreadStep ==
  ASSUME AuthTypeOK, Undisturbed, NEW h \in Threads, NEW new \in Handler,
         handler' = [handler EXCEPT ![h] = new],
         UNCHANGED <<store, byName, byId, written>>,
         \/ tokens' = tokens
         \/ \E token \in Token :
              /\ tokens' = Append(tokens, token)
              /\ ReadAt(token.account, token.version, token.updates),
         Saved', Outdated',
         store = "json" /\ new.phase \in {"write", "write by id", "image", "replace"} =>
           \A g \in Threads \ {h} : ~Updating(g),
         new.phase # "write by id", handler[h].phase # "write by id",
         new.phase = "write" /\ store = "json" => new.copy = byId[new.account],
         new.phase = "replace" => new.image = byName,
         new.phase = "issue" =>
           new.account \in Accounts /\ ReadAt(new.account, new.copy.version, new.updates),
         new.phase \in {"image", "replace", "return"} =>
           /\ handler[h].phase \in {"image", "replace", "return"}
           /\ new.before = handler[h].before /\ new.account = handler[h].account
  PROVE  Undisturbed'
<1>1. handler'[h] = new /\ \A g \in Threads \ {h} : handler'[g] = handler[g]
  BY DEF AuthTypeOK
<1>9. /\ \A i \in 1 .. Len(tokens) : tokens'[i] = tokens[i]
      /\ \A k \in 1 .. Len(tokens') : k \notin 1 .. Len(tokens) =>
           /\ tokens'[k].account \in Accounts
           /\ ReadAt(tokens'[k].account, tokens'[k].version, tokens'[k].updates)
  <2>1. CASE tokens' = tokens
    BY <2>1
  <2>2. CASE tokens' # tokens
    <3>1. PICK token \in Token :
            /\ tokens' = Append(tokens, token)
            /\ ReadAt(token.account, token.version, token.updates)
      BY <2>2
    <3>2. token.account \in Accounts
      BY DEF Token
    <3>3. /\ Len(tokens) \in Nat /\ Len(tokens') = Len(tokens) + 1
          /\ \A i \in 1 .. Len(tokens) : tokens'[i] = tokens[i]
          /\ tokens'[Len(tokens) + 1] = token
      BY <3>1, Appended, LengthType
    <3>4. ASSUME NEW j \in 1 .. Len(tokens'), j \notin 1 .. Len(tokens) PROVE j = Len(tokens) + 1
      BY <3>3, <3>4, LastOne
    <3> QED BY <3>1, <3>2, <3>3, <3>4
  <2> QED BY <2>1, <2>2
<1>2. ASSUME NEW u \in Accounts, NEW g \in Threads PROVE WritingById(g, u)' <=> WritingById(g, u)
  BY <1>1 DEF WritingById
<1>3. Serial'
  <2> SUFFICES ASSUME store = "json", NEW f \in Threads, NEW g \in Threads,
                      Updating(f)', Updating(g)'
               PROVE  f = g
    BY DEF Serial
  <2> QED BY <1>1 DEF Serial, Updating, Undisturbed
<1>4. Counted' /\ Mirrored'
  <2>1. Counted'
    BY DEF Counted, Undisturbed
  <2>2. ASSUME NEW v \in Accounts
        PROVE  byName'[v] = byId'[v] \/ \E g \in Threads : WritingById(g, v)'
    BY <1>2 DEF Mirrored, Undisturbed
  <2> QED BY <2>1, <2>2 DEF Mirrored
<1>5. Prepared'
  <2> SUFFICES ASSUME NEW g \in Threads
               PROVE  /\ handler'[g].phase = "write" /\ store' = "json" =>
                           handler'[g].copy = byId'[handler'[g].account]
                      /\ handler'[g].phase = "write by id" =>
                           /\ handler'[g].copy = byName'[handler'[g].account]
                           /\ handler'[g].copy.version = byId'[handler'[g].account].version + 1
                           /\ handler'[g].copy.password =
                                Changed(byId'[handler'[g].account], handler'[g].password).password
                      /\ handler'[g].phase = "replace" => handler'[g].image = byName'
    BY DEF Prepared, Changed
  <2>1. CASE g = h
    BY <1>1, <2>1
  <2>2. CASE g # h
    BY <1>1, <2>2 DEF Prepared, Undisturbed
  <2> QED BY <2>1, <2>2
<1>6. ASSUME NEW u, NEW version, NEW updates, ReadAt(u, version, updates), u \in Accounts
      PROVE  ReadAt(u, version, updates)'
  BY <1>2, <1>6 DEF ReadAt
<1>7. Dated'
  <2>1. ASSUME NEW j \in 1 .. Len(tokens')
        PROVE  ReadAt(tokens[j].account, tokens[j].version, tokens[j].updates)'
    <3>1. CASE j \in 1 .. Len(tokens)
      BY <1>6, <1>9, <3>1, TokenType DEF Dated, Undisturbed
    <3>2. CASE j \notin 1 .. Len(tokens)
      BY <1>6, <1>9, <3>2
    <3> QED BY <3>1, <3>2
  <2>2. ASSUME NEW g \in Threads, handler'[g].phase = "issue"
        PROVE  ReadAt(handler[g].account, handler[g].copy.version, handler[g].updates)'
    <3>1. CASE g = h
      <4>1. new.account \in Accounts
        BY <1>1, <2>2, <3>1 
      <4> QED BY <1>1, <1>6, <2>2, <3>1, <4>1
    <3>2. CASE g # h
      BY <1>1, <1>6, <2>2, <3>2, ThreadType DEF Dated, Undisturbed
    <3> QED BY <3>1, <3>2
  <2> QED BY <2>1, <2>2 DEF Dated
<1>8. Overtaken'
  <2> SUFFICES ASSUME NEW g \in Threads, NEW i \in 1 .. handler'[g].before,
                      tokens'[i].account = handler'[g].account
               PROVE  /\ handler'[g].phase = "write by id" =>
                           tokens'[i].version <= written'[handler'[g].account].count + 1
                      /\ handler'[g].phase \in {"image", "replace", "return"} =>
                           tokens'[i].version <= written'[handler'[g].account].count
    BY DEF Overtaken
  <2>3. ASSUME NEW k \in 1 .. handler[g].before PROVE tokens'[k] = tokens[k]
    <3>1. /\ handler[g].before \in Nat /\ Len(tokens) \in Nat
          /\ handler[g].before <= Len(tokens)
      BY ThreadType, LengthType
    <3>2. k \in 1 .. Len(tokens)
      BY <3>1, Earlier
    <3> QED BY <1>9, <3>2
  <2>1. CASE g = h
    <3>1. handler'[g] = new /\ new.phase # "write by id"
      BY <1>1, <2>1
    <3>2. ASSUME new.phase \in {"image", "replace", "return"}
          PROVE  tokens'[i].version <= written[handler[h].account].count
      BY <2>1, <2>3, <3>1, <3>2 DEF Overtaken, Undisturbed
    <3> QED BY <3>1, <3>2
  <2>2. CASE g # h
    BY <1>1, <2>2, <2>3 DEF Overtaken, Undisturbed
  <2> QED BY <2>1, <2>2
<1> QED BY <1>3, <1>4, <1>5, <1>7, <1>8 DEF Undisturbed

\* Nor does it save or return: what remains to be shown of the thread's new state.
LEMMA QuietStep ==
  ASSUME AuthInv, NEW h \in Threads, NEW new \in Handler,
         handler' = [handler EXCEPT ![h] = new],
         UNCHANGED <<store, byName, byId, file, written, tokens, revoked>>,
         requests' \in Nat, disturbed' \in BOOLEAN, disturbed => disturbed',
         new.phase \in {"resting", "issue", "check", "read", "write", "replace"},
         new.phase # "resting" => new.account \in Accounts /\ new.copy \in Record,
         new.before <= Len(tokens),
         new.phase = "replace" =>
           /\ store = "json" /\ new.image = byName /\ handler[h].phase = "image"
           /\ new.before = handler[h].before /\ new.account = handler[h].account,
         ~disturbed' =>
           /\ handler[h].phase # "write by id"
           /\ Unsaved(h) => new.phase = "replace"
           /\ store = "json" /\ new.phase \in {"write", "replace"} =>
                \A g \in Threads \ {h} : ~Updating(g)
           /\ new.phase = "write" /\ store = "json" => new.copy = byId[new.account]
           /\ new.phase = "issue" => ReadAt(new.account, new.copy.version, new.updates)
  PROVE  AuthInv'
<1>1. AuthTypeOK'
  BY ThreadTypeStep DEF AuthInv, AuthTypeOK
<1>2. ASSUME ~disturbed' PROVE Undisturbed'
  <2>1. AuthTypeOK /\ Undisturbed
    BY <1>2 DEF AuthInv
  <2>2. Saved'
    <3> SUFFICES ASSUME \A g \in Threads : ~Unsaved(g)', store = "json" PROVE file = byName
      BY DEF Saved
    <3>1. ASSUME NEW f \in Threads PROVE ~Unsaved(f)
      <4>1. CASE f = h
        <5>1. handler'[h] = new
          BY DEF AuthInv, AuthTypeOK
        <5> QED BY <1>2, <4>1, <5>1 DEF Unsaved
      <4>2. CASE f # h
        <5>1. handler'[f] = handler[f]
          BY <4>2 DEF AuthInv, AuthTypeOK
        <5> QED BY <5>1 DEF Unsaved
      <4> QED BY <4>1, <4>2
    <3> QED BY <2>1, <3>1 DEF Saved, Undisturbed
  <2>3. Outdated'
    BY <2>1 DEF Outdated, Undisturbed
  <2> QED BY <1>2, <2>1, <2>2, <2>3, ThreadStep
<1> QED BY <1>1, <1>2 DEF AuthInv

\* The record a login or a refresh reads.
LEMMA WhatIsRead ==
  ASSUME AuthTypeOK, Undisturbed, NEW u \in Accounts
  PROVE  /\ ReadAt(u, byId[u].version, written[u].count)
         /\ ReadAt(u, byName[u].version, written[u].count)
<1>1. byId[u].version = written[u].count + 1 /\ written[u].count \in Nat
  BY AccountType DEF Undisturbed, Counted
<1>2. CASE byName[u] = byId[u]
  BY <1>1, <1>2 DEF ReadAt
<1>3. CASE \E h \in Threads : WritingById(h, u)
  <2>1. PICK h \in Threads : WritingById(h, u)
    BY <1>3
  <2>2. handler[h].phase = "write by id" /\ handler[h].account = u
    BY <2>1 DEF WritingById
  <2>3. handler[h].copy = byName[u] /\ handler[h].copy.version = byId[u].version + 1
    BY <2>2 DEF Undisturbed, Prepared
  <2>4. byName[u].version = written[u].count + 2
    BY <1>1, <2>3
  <2> QED BY <1>1, <1>3, <2>4 DEF ReadAt
<1> QED BY <1>2, <1>3 DEF Undisturbed, Mirrored

\* Without an update of the account under way the two dictionaries agree on it.
LEMMA QuietAccount ==
  ASSUME AuthTypeOK, Undisturbed, NEW u \in Accounts, \A h \in Threads : ~WritingById(h, u)
  PROVE  byName[u] = byId[u]
  BY DEF Undisturbed, Mirrored

LEMMA IssuingStep ==
  ASSUME AuthInv, NEW h \in Threads, NEW u \in Accounts, NEW record \in Record,
         Receive(h, Issuing(u, record)),
         Undisturbed => ReadAt(u, record.version, written[u].count)
  PROVE  AuthInv'
<1> DEFINE new == Issuing(u, record)
<1>1. /\ new \in Handler /\ new.phase = "issue" /\ new.account = u /\ new.copy = record
      /\ new.before = 0 /\ new.updates = written[u].count
  BY AccountType DEF Issuing, Resting, Handler, Phases, AuthInv
<1>2. handler[h].phase = "resting" /\ ~Unsaved(h)
  BY DEF Receive, Unsaved
<1>3. requests' \in Nat /\ Len(tokens) \in Nat
  BY DEF Receive, AuthInv, AuthTypeOK
<1> HIDE DEF new
<1>4. handler' = [handler EXCEPT ![h] = new]
  BY DEF Receive, new
<1>5. disturbed' \in BOOLEAN /\ (disturbed => disturbed') /\ (~disturbed' => ~disturbed)
  BY DEF Receive, AuthInv, AuthTypeOK
<1>6. UNCHANGED <<store, byName, byId, file, written, tokens, revoked>>
  BY DEF Receive
<1>7. ~disturbed' => ReadAt(new.account, new.copy.version, new.updates)
  BY <1>1, <1>5 DEF AuthInv
<1>8. /\ new.before <= Len(tokens) /\ handler[h].phase # "write by id"
      /\ new.phase \notin {"write", "replace"}
      /\ new.phase \in {"resting", "issue", "check", "read", "write", "replace"}
  BY <1>1, <1>2, <1>3
<1> QED BY <1>1, <1>2, <1>3, <1>4, <1>5, <1>6, <1>7, <1>8, QuietStep

LEMMA LoginStep ==
  ASSUME AuthInv, NEW h \in Threads, Login(h)
  PROVE  AuthInv'
<1>1. PICK u \in Accounts : Receive(h, Issuing(u, byName[u]))
  BY DEF Login
<1>2. byName[u] \in Record
  BY AccountType DEF AuthInv
<1>3. Undisturbed => ReadAt(u, byName[u].version, written[u].count)
  BY WhatIsRead DEF AuthInv
<1> QED BY <1>1, <1>2, <1>3, IssuingStep

LEMMA RefreshStep ==
  ASSUME AuthInv, NEW h \in Threads, Refresh(h)
  PROVE  AuthInv'
<1>1. PICK i \in 1 .. Len(tokens) :
        Receive(h, Issuing(tokens[i].account, byId[tokens[i].account]))
  BY DEF Refresh, AuthInv, AuthTypeOK
<1>2. tokens[i].account \in Accounts
  BY TokenType DEF AuthInv
<1>3. byId[tokens[i].account] \in Record
  BY <1>2, AccountType DEF AuthInv
<1>4. Undisturbed =>
        ReadAt(tokens[i].account, byId[tokens[i].account].version,
               written[tokens[i].account].count)
  BY <1>2, WhatIsRead DEF AuthInv
<1> QED BY <1>1, <1>2, <1>3, <1>4, IssuingStep

LEMMA UpdateStep ==
  ASSUME AuthInv, NEW h \in Threads, NEW u \in Accounts, NEW v \in Accounts,
         NEW phase \in {"write", "read", "check"}, phase = "write" => store = "postgres",
         NEW p \in Passwords \cup {SamePassword}, Receive(h, Update(phase, u, v, p))
  PROVE  AuthInv'
<1> DEFINE new == Update(phase, u, v, p)
<1>1. Len(tokens) \in Nat /\ byId[u] \in Record
  BY AccountType DEF AuthInv, AuthTypeOK
<1>2. /\ new \in Handler /\ new.phase = phase /\ new.account = v /\ new.copy = byId[u]
      /\ new.before = Len(tokens)
  BY <1>1 DEF Update, Resting, Handler, Phases
<1>3. handler[h].phase = "resting" /\ ~Unsaved(h)
  BY DEF Receive, Unsaved
<1> HIDE DEF new
<1>4. handler' = [handler EXCEPT ![h] = new]
  BY DEF Receive, new
<1>5. disturbed' \in BOOLEAN /\ (disturbed => disturbed') /\ (~disturbed' => ~disturbed)
  BY DEF Receive, AuthInv, AuthTypeOK
<1>6. UNCHANGED <<store, byName, byId, file, written, tokens, revoked>> /\ requests' \in Nat
  BY DEF Receive, AuthInv, AuthTypeOK
<1>7. /\ new.before <= Len(tokens) /\ handler[h].phase # "write by id"
      /\ new.phase \notin {"issue", "replace"}
      /\ ~(store = "json" /\ new.phase = "write")
      /\ new.phase \in {"resting", "issue", "check", "read", "write", "replace"}
  BY <1>1, <1>2, <1>3
<1> QED BY <1>1, <1>2, <1>3, <1>4, <1>5, <1>6, <1>7, QuietStep

LEMMA RequestUpdateStep ==
  ASSUME AuthInv, NEW h \in Threads, RequestUpdate(h)
  PROVE  AuthInv'
<1>1. PICK i \in 1 .. Len(tokens) :
        LET u == tokens[i].account IN
          \/ Receive(h, Update(LogoutStarts, u, u, SamePassword))
          \/ \E p \in Passwords : Receive(h, Update("check", u, u, p))
          \/ \E v \in Accounts, p \in Passwords : Receive(h, Update("read", u, v, p))
  BY DEF RequestUpdate, AuthInv, AuthTypeOK
<1> DEFINE u == tokens[i].account
<1>2. u \in Accounts
  BY TokenType DEF AuthInv
<1>3. /\ LogoutStarts \in {"write", "read", "check"}
      /\ LogoutStarts = "write" => store = "postgres"
  BY DEF LogoutStarts, AuthInv, AuthTypeOK
<1> HIDE DEF u
<1>4. CASE Receive(h, Update(LogoutStarts, u, u, SamePassword))
  BY <1>2, <1>3, <1>4, UpdateStep
<1>5. CASE \E p \in Passwords : Receive(h, Update("check", u, u, p))
  BY <1>2, <1>5, UpdateStep
<1>6. CASE \E v \in Accounts, p \in Passwords : Receive(h, Update("read", u, v, p))
  BY <1>2, <1>6, UpdateStep
<1> QED BY <1>1, <1>4, <1>5, <1>6 DEF u

LEMMA CheckStep ==
  ASSUME AuthInv, NEW h \in Threads, Check(h)
  PROVE  AuthInv'
<1> DEFINE new == [handler[h] EXCEPT !.phase = "read"]
<1>1. /\ handler[h].phase = "check" /\ ~Unsaved(h)
      /\ handler[h] \in Handler /\ handler[h].before <= Len(tokens)
      /\ handler[h].account \in Accounts /\ handler[h].copy \in Record
  BY ThreadType DEF Check, Unsaved, AuthInv
<1>2. UNCHANGED <<store, byName, byId, file, written, tokens, revoked>> /\ requests' \in Nat
  BY DEF Check, AuthInv, AuthTypeOK
<1>3. disturbed' \in BOOLEAN /\ (disturbed => disturbed') /\ (~disturbed' => ~disturbed)
  BY DEF Check, AuthInv, AuthTypeOK
<1>4. CASE handler' = [handler EXCEPT ![h] = new]
  <2>1. /\ new \in Handler /\ new.phase = "read" /\ new.account = handler[h].account
        /\ new.copy = handler[h].copy /\ new.before = handler[h].before
    BY <1>1 DEF Handler, Phases
  <2> HIDE DEF new
  <2> QED BY <1>1, <1>2, <1>3, <1>4, <2>1, QuietStep
<1>5. CASE handler' = [handler EXCEPT ![h] = Resting]
  <2>1. Resting.phase = "resting" /\ Resting.before = 0 /\ Len(tokens) \in Nat
    BY DEF Resting, AuthInv, AuthTypeOK
  <2>2. Resting.before <= Len(tokens)
    BY <2>1
  <2> QED BY <1>1, <1>2, <1>3, <1>5, <2>1, <2>2, RestingIsOK, QuietStep
<1>6. handler' = [handler EXCEPT ![h] = new] \/ handler' = [handler EXCEPT ![h] = Resting]
  BY DEF Check, Goto, Rest
<1> QED BY <1>4, <1>5, <1>6

LEMMA ReadStep ==
  ASSUME AuthInv, NEW h \in Threads, Read(h)
  PROVE  AuthInv'
<1> DEFINE u == handler[h].account
           record == IF handler[h].password = SamePassword THEN byId[u] ELSE byName[u]
           new == [handler[h] EXCEPT !.copy = record, !.phase = "write"]
<1>1. /\ handler[h].phase = "read" /\ ~Unsaved(h) /\ ~Updating(h)
      /\ handler[h] \in Handler /\ handler[h].before <= Len(tokens) /\ u \in Accounts
  BY ThreadType DEF Read, Unsaved, Updating, AuthInv
<1>2. UNCHANGED <<store, byName, byId, file, written, tokens, revoked>> /\ requests' \in Nat
  BY DEF Read, AuthInv, AuthTypeOK
<1>3. /\ disturbed' \in BOOLEAN /\ (disturbed => disturbed') /\ (~disturbed' => ~disturbed)
      /\ ~disturbed' /\ store = "json" => \A g \in Threads \ {h} : ~Updating(g)
  BY DEF Read, AuthInv, AuthTypeOK
<1>4. record \in Record
  BY <1>1, AccountType DEF AuthInv
<1>5. ~disturbed' /\ store = "json" => record = byId[u]
  <2> SUFFICES ASSUME ~disturbed', store = "json" PROVE byName[u] = byId[u]
    OBVIOUS
  <2>1. ASSUME NEW g \in Threads PROVE ~WritingById(g, u)
    BY <1>1, <1>3 DEF WritingById, Updating
  <2> QED BY <1>1, <1>3, <2>1, QuietAccount DEF AuthInv
<1>6. handler' = [handler EXCEPT ![h] = new]
  BY DEF Read
<1>7. /\ new \in Handler /\ new.phase = "write" /\ new.account = u
      /\ new.copy = record /\ new.before = handler[h].before
  BY <1>1, <1>4 DEF Handler, Phases
<1> HIDE DEF new, record, u
<1> QED BY <1>1, <1>2, <1>3, <1>4, <1>5, <1>6, <1>7, QuietStep

LEMMA ImageStep ==
  ASSUME AuthInv, NEW h \in Threads, Image(h)
  PROVE  AuthInv'
<1> DEFINE new == [handler[h] EXCEPT !.image = byName, !.phase = "replace"]
<1>1. /\ handler[h].phase = "image" /\ Unsaved(h) /\ Updating(h)
      /\ handler[h] \in Handler /\ handler[h].before <= Len(tokens)
      /\ handler[h].account \in Accounts /\ handler[h].copy \in Record
      /\ store # "postgres"
  BY ThreadType DEF Image, Unsaved, Updating, AuthInv
<1>2. store = "json"
  BY <1>1 DEF AuthInv, AuthTypeOK
<1>3. UNCHANGED <<store, byName, byId, file, written, tokens, revoked>> /\ requests' \in Nat
  BY DEF Image, AuthInv, AuthTypeOK
<1>4. disturbed' \in BOOLEAN /\ (disturbed => disturbed') /\ (~disturbed' => ~disturbed)
  BY DEF Image, AuthInv, AuthTypeOK
<1>5. ~disturbed' => \A g \in Threads \ {h} : ~Updating(g)
  BY <1>1, <1>2, <1>4 DEF AuthInv, Undisturbed, Serial
<1>6. handler' = [handler EXCEPT ![h] = new]
  BY DEF Image
<1>7. byName \in [Accounts -> Record]
  BY DEF AuthInv, AuthTypeOK
<1>8. /\ new \in Handler /\ new.phase = "replace" /\ new.account = handler[h].account
      /\ new.copy = handler[h].copy /\ new.before = handler[h].before /\ new.image = byName
  BY <1>1, <1>7 DEF Handler, Phases
<1> HIDE DEF new
<1> QED BY <1>1, <1>2, <1>3, <1>4, <1>5, <1>6, <1>8, QuietStep

LEMMA SaveFailsStep ==
  ASSUME AuthInv, NEW h \in Threads, SaveFails(h)
  PROVE  AuthInv'
<1>1. Resting.phase = "resting" /\ Resting.before = 0 /\ Len(tokens) \in Nat
  BY DEF Resting, AuthInv, AuthTypeOK
<1>2. Resting.before <= Len(tokens)
  BY <1>1
<1>3. UNCHANGED <<store, byName, byId, file, written, tokens, revoked>> /\ requests' \in Nat
  BY DEF SaveFails, AuthInv, AuthTypeOK
<1>4. handler' = [handler EXCEPT ![h] = Resting] /\ disturbed'
  BY DEF SaveFails, Rest
<1>5. disturbed' \in BOOLEAN
  BY DEF SaveFails
<1> QED BY <1>1, <1>2, <1>3, <1>4, <1>5, RestingIsOK, QuietStep

LEMMA ReplaceStep ==
  ASSUME AuthInv, NEW h \in Threads, Replace(h)
  PROVE  AuthInv'
<1> DEFINE new == [handler[h] EXCEPT !.phase = "return"]
<1>1. /\ handler[h].phase = "replace"
      /\ handler[h] \in Handler /\ handler[h].before <= Len(tokens)
      /\ handler[h].account \in Accounts /\ handler[h].copy \in Record
      /\ handler[h].image \in [Accounts -> Record]
  BY ThreadType DEF Replace, AuthInv
<1>2. /\ UNCHANGED <<store, byName, byId, written, tokens, revoked, disturbed>>
      /\ requests' \in Nat /\ disturbed' \in BOOLEAN /\ file' \in [Accounts -> Record]
      /\ revoked' \subseteq 1 .. Len(tokens)
  BY <1>1 DEF Replace, AuthInv, AuthTypeOK
<1>3. handler' = [handler EXCEPT ![h] = new]
  BY DEF Replace, Goto
<1>4. /\ new \in Handler /\ new.phase = "return" /\ new.account = handler[h].account
      /\ new.copy = handler[h].copy /\ new.before = handler[h].before
  BY <1>1 DEF Handler, Phases
<1> HIDE DEF new
<1>5. AuthTypeOK'
  BY <1>1, <1>2, <1>3, <1>4, ThreadTypeStep DEF AuthInv
<1>6. ASSUME ~disturbed' PROVE Undisturbed'
  <2>1. AuthTypeOK /\ Undisturbed
    BY <1>2, <1>6 DEF AuthInv
  <2>2. file' = byName'
    BY <1>1, <1>2, <2>1 DEF Replace, Undisturbed, Prepared
  <2>3. Saved' /\ Outdated'
    BY <1>2, <2>1, <2>2 DEF Saved, Outdated, Undisturbed
  <2> QED BY <1>1, <1>2, <1>3, <1>4, <2>1, <2>3, ThreadStep
<1> QED BY <1>5, <1>6 DEF AuthInv

LEMMA ReturnStep ==
  ASSUME AuthInv, NEW h \in Threads, Return(h)
  PROVE  AuthInv'
<1>1. /\ handler[h].phase = "return" /\ handler[h] \in Handler
      /\ handler[h].before \in Nat /\ handler[h].before <= Len(tokens) /\ Len(tokens) \in Nat
  BY ThreadType DEF Return, AuthInv, AuthTypeOK
<1>2. Resting.phase = "resting" /\ Resting.before = 0 /\ Resting.before <= Len(tokens)
  BY <1>1 DEF Resting
<1>3. /\ UNCHANGED <<store, byName, byId, file, written, tokens, disturbed>>
      /\ requests' \in Nat /\ disturbed' \in BOOLEAN /\ file' \in [Accounts -> Record]
  BY DEF Return, AuthInv, AuthTypeOK
<1>4. revoked' \subseteq 1 .. Len(tokens)
  <2> SUFFICES ASSUME NEW i \in revoked' PROVE i \in 1 .. Len(tokens)
    OBVIOUS
  <2>1. i \in revoked \/ i \in 1 .. handler[h].before
    BY DEF Return
  <2>2. revoked \subseteq 1 .. Len(tokens)
    BY DEF AuthInv, AuthTypeOK
  <2> QED BY <1>1, <2>1, <2>2, Earlier
<1>5. handler' = [handler EXCEPT ![h] = Resting]
  BY DEF Return, Rest
<1>6. AuthTypeOK'
  BY <1>2, <1>3, <1>4, <1>5, RestingIsOK, ThreadTypeStep DEF AuthInv
<1>7. ASSUME ~disturbed' PROVE Undisturbed'
  <2>1. AuthTypeOK /\ Undisturbed
    BY <1>3, <1>7 DEF AuthInv
  <2>2. Saved'
    <3> SUFFICES ASSUME \A g \in Threads : ~Unsaved(g)', store = "json" PROVE file = byName
      BY <1>3 DEF Saved
    <3>1. ASSUME NEW f \in Threads PROVE ~Unsaved(f)
      <4>1. f = h \/ handler'[f] = handler[f]
        BY <1>5, <2>1 DEF AuthTypeOK
      <4> QED BY <1>1, <4>1 DEF Unsaved
    <3> QED BY <2>1, <3>1 DEF Saved, Undisturbed
  <2>3. ASSUME NEW i \in revoked' PROVE tokens[i].version <= written[tokens[i].account].count
    <3>1. CASE i \in revoked
      BY <2>1, <3>1 DEF Undisturbed, Outdated
    <3>2. CASE i \in 1 .. handler[h].before /\ tokens[i].account = handler[h].account
      BY <1>1, <2>1, <3>2 DEF Undisturbed, Overtaken
    <3> QED BY <3>1, <3>2 DEF Return
  <2>4. Outdated'
    BY <1>3, <2>3 DEF Outdated
  <2> QED BY <1>1, <1>2, <1>3, <1>5, <2>1, <2>2, <2>4, RestingIsOK, ThreadStep
<1> QED BY <1>6, <1>7 DEF AuthInv

LEMMA IssueStep ==
  ASSUME AuthInv, NEW h \in Threads, Issue(h)
  PROVE  AuthInv'
<1> DEFINE token == [account |-> handler[h].account, version |-> handler[h].copy.version,
                     updates |-> handler[h].updates]
<1>1. /\ handler[h].phase = "issue" /\ handler[h].account \in Accounts
      /\ handler[h].copy \in Record /\ handler[h].updates \in Nat
  BY ThreadType DEF Issue, AuthInv
<1>2. handler[h].copy.version \in Nat
  BY <1>1 DEF Record
<1>3. token \in Token
  BY <1>1, <1>2 DEF Token
<1>4. tokens' = Append(tokens, token)
  BY DEF Issue
<1>5. /\ token.account = handler[h].account /\ token.version = handler[h].copy.version
      /\ token.updates = handler[h].updates
  OBVIOUS
<1> HIDE DEF token
<1>6. /\ Len(tokens) \in Nat /\ Len(tokens') = Len(tokens) + 1 /\ tokens' \in Seq(Token)
      /\ \A i \in 1 .. Len(tokens) : tokens'[i] = tokens[i]
  BY <1>3, <1>4, Appended, LengthType DEF AuthInv
<1>7. /\ UNCHANGED <<store, byName, byId, file, requests, written, revoked, disturbed>>
      /\ handler' = [handler EXCEPT ![h] = Resting]
  BY DEF Issue, Rest
<1>8. Resting.phase = "resting" /\ Resting.before = 0
  BY DEF Resting
<1>9. AuthTypeOK'
  <2>1. handler' \in [Threads -> Handler]
    BY <1>7, RestingIsOK DEF AuthInv, AuthTypeOK
  <2>2. revoked' \subseteq 1 .. Len(tokens')
    BY <1>6, <1>7, Earlier DEF AuthInv, AuthTypeOK
  <2>3. ASSUME NEW g \in Threads PROVE HandlerOK(g)'
    <3>1. HandlerOK(g) /\ handler[g].before \in Nat
      BY ThreadType DEF AuthInv, AuthTypeOK
    <3>2. handler'[g] = handler[g] \/ handler'[g] = Resting
      BY <1>7 DEF AuthInv, AuthTypeOK
    <3>3. handler'[g].before <= Len(tokens')
      BY <1>6, <1>8, <3>1, <3>2 DEF HandlerOK
    <3> QED BY <1>7, <1>8, <3>1, <3>2, <3>3 DEF HandlerOK, Unsaved
  <2> QED BY <1>6, <1>7, <2>1, <2>2, <2>3 DEF AuthInv, AuthTypeOK
<1>10. ASSUME ~disturbed' PROVE Undisturbed'
  <2>1. AuthTypeOK /\ Undisturbed
    BY <1>7, <1>10 DEF AuthInv
  <2>2. Saved'
    <3> SUFFICES ASSUME \A g \in Threads : ~Unsaved(g)', store = "json" PROVE file = byName
      BY <1>7 DEF Saved
    <3>1. ASSUME NEW f \in Threads PROVE ~Unsaved(f)
      <4>1. f = h \/ handler'[f] = handler[f]
        BY <1>7, <2>1 DEF AuthTypeOK
      <4> QED BY <1>1, <4>1 DEF Unsaved
    <3> QED BY <2>1, <3>1 DEF Saved, Undisturbed
  <2>3. Outdated'
    <3> SUFFICES ASSUME NEW i \in revoked
                 PROVE  tokens'[i].version <= written[tokens'[i].account].count
      BY <1>7 DEF Outdated
    <3>1. tokens'[i] = tokens[i]
      BY <1>6, <2>1 DEF AuthTypeOK
    <3> QED BY <2>1, <3>1 DEF Undisturbed, Outdated
  <2>4. ReadAt(token.account, token.version, token.updates)
    BY <1>1, <1>5, <2>1 DEF Undisturbed, Dated
  <2> QED BY <1>1, <1>3, <1>4, <1>7, <1>8, <2>1, <2>2, <2>3, <2>4, RestingIsOK, ThreadStep
<1> QED BY <1>9, <1>10 DEF AuthInv

-----------------------------------------------------------------------------
(* Steps that write a record.                                              *)

LEMMA WrittenStep ==
  ASSUME AuthTypeOK, NEW h \in Threads, handler[h].account \in Accounts,
         handler[h].password \in Passwords \cup {SamePassword}, Written(h)
  PROVE  /\ written' \in [Accounts -> [count : Nat, password : Passwords]]
         /\ \A v \in Accounts \ {handler[h].account} : written'[v] = written[v]
         /\ written'[handler[h].account].count = written[handler[h].account].count + 1
         /\ written'[handler[h].account].password =
              IF handler[h].password = SamePassword THEN written[handler[h].account].password
              ELSE handler[h].password
<1> DEFINE u == handler[h].account
           entry == [count |-> written[u].count + 1,
                     password |-> IF handler[h].password = SamePassword
                                  THEN written[u].password ELSE handler[h].password]
<1>1. entry \in [count : Nat, password : Passwords]
  BY AccountType
<1>2. written' = [written EXCEPT ![u] = entry]
  BY DEF Written
<1>3. /\ entry.count = written[u].count + 1
      /\ entry.password = IF handler[h].password = SamePassword THEN written[u].password
                          ELSE handler[h].password
  OBVIOUS
<1> HIDE DEF entry
<1> QED BY <1>1, <1>2, <1>3 DEF AuthTypeOK

LEMMA WriteType ==
  ASSUME AuthInv, NEW h \in Threads, Write(h)
  PROVE  /\ AuthTypeOK'
         /\ handler[h].account \in Accounts /\ handler[h].password \in Passwords \cup {SamePassword}
         /\ handler[h].copy \in Record /\ Base(h) \in Record
         /\ Changed(Base(h), handler[h].password) \in Record
<1>1. /\ handler[h].phase = "write" /\ handler[h] \in Handler /\ handler[h].account \in Accounts
      /\ handler[h].password \in Passwords \cup {SamePassword} /\ handler[h].copy \in Record
  BY ThreadType DEF Write, AuthInv
<1>2. Base(h) \in Record
  BY <1>1, AccountType DEF Base, AuthInv
<1> DEFINE u == handler[h].account
           record == Changed(Base(h), handler[h].password)
<1>3. record \in Record
  BY <1>1, <1>2, ChangedType
<1> HIDE DEF record
<1>4. UNCHANGED <<store, file, tokens, requests, revoked, disturbed>>
  BY DEF Write
<1>5. byName' = [byName EXCEPT ![u] = record] /\ byName' \in [Accounts -> Record]
  BY <1>3 DEF Write, record, AuthInv, AuthTypeOK
<1>6. byId' \in [Accounts -> Record]
  BY <1>3 DEF Write, record, AuthInv, AuthTypeOK
<1>7. written' \in [Accounts -> [count : Nat, password : Passwords]]
  <2>1. CASE written' = written
    BY <2>1 DEF AuthInv, AuthTypeOK
  <2>2. CASE Written(h)
    BY <1>1, <2>2, WrittenStep DEF AuthInv
  <2> QED BY <2>1, <2>2 DEF Write
<1> DEFINE new == IF store = "postgres" THEN [handler[h] EXCEPT !.phase = "return"]
                  ELSE [handler[h] EXCEPT !.copy = record, !.phase = "write by id"]
<1>8. handler' = [handler EXCEPT ![h] = new]
  BY DEF Write, Goto, record
<1>9. new \in Handler
  BY <1>1, <1>3 DEF Handler, Phases
<1>10. /\ new.phase = IF store = "postgres" THEN "return" ELSE "write by id"
       /\ new.account = u /\ new.copy \in Record /\ new.before = handler[h].before
  BY <1>1, <1>3 DEF Handler
<1> HIDE DEF new
<1>11. handler' \in [Threads -> Handler]
  BY <1>8, <1>9 DEF AuthInv, AuthTypeOK
<1>12. ASSUME NEW g \in Threads PROVE HandlerOK(g)'
  <2>1. HandlerOK(g) /\ (handler'[g] = handler[g] \/ (g = h /\ handler'[g] = new))
    BY <1>8 DEF AuthInv, AuthTypeOK
  <2> QED BY <1>1, <1>4, <1>10, <2>1 DEF HandlerOK, Unsaved
<1> QED BY <1>1, <1>2, <1>3, <1>4, <1>5, <1>6, <1>7, <1>11, <1>12 DEF AuthInv, AuthTypeOK, record

LEMMA Older ==
  ASSUME AuthTypeOK, Undisturbed, NEW i \in 1 .. Len(tokens),
         \A h \in Threads : ~WritingById(h, tokens[i].account)
  PROVE  tokens[i].version <= written[tokens[i].account].count + 1
<1>1. ReadAt(tokens[i].account, tokens[i].version, tokens[i].updates)
  BY DEF Undisturbed, Dated
<1>2. /\ tokens[i].version \in Nat /\ tokens[i].updates \in Nat
      /\ written[tokens[i].account].count \in Nat
  BY TokenType, AccountType
<1> QED BY <1>1, <1>2 DEF ReadAt

\* An update of a row of PostgreSQL: read, change and write are one step.
LEMMA WriteRowStep ==
  ASSUME AuthTypeOK, AuthTypeOK', Undisturbed, NEW h \in Threads, Write(h), store = "postgres",
         handler[h].account \in Accounts,
         handler[h].password \in Passwords \cup {SamePassword}
  PROVE  Undisturbed'
<1> DEFINE u == handler[h].account
           record == Changed(byName[u], handler[h].password)
           new == [handler[h] EXCEPT !.phase = "return"]
<1>1. /\ record.version = byName[u].version + 1
      /\ record.password = IF handler[h].password = SamePassword THEN byName[u].password
                           ELSE handler[h].password
  BY DEF Changed
<1>2. byName' = [byName EXCEPT ![u] = record] /\ byId' = [byId EXCEPT ![u] = record]
  BY DEF Write, Base
<1>3. UNCHANGED <<store, file, tokens, revoked>> /\ Written(h)
  BY DEF Write
<1>4. handler' = [handler EXCEPT ![h] = new]
  BY DEF Write, Goto
<1>5. new.phase = "return" /\ new.account = u /\ new.before = handler[h].before
  BY ThreadType DEF Handler
<1> HIDE DEF record, new
<1>6. handler'[h] = new /\ \A g \in Threads \ {h} : handler'[g] = handler[g]
  BY <1>4 DEF AuthTypeOK
<1>7. ASSUME NEW g \in Threads PROVE ~Unsaved(g) /\ ~Unsaved(g)'
  BY <1>3, ThreadType DEF AuthTypeOK, HandlerOK
<1>8. ASSUME NEW g \in Threads, NEW v PROVE ~WritingById(g, v)
  BY <1>7 DEF WritingById, Unsaved
<1>9. /\ \A v \in Accounts \ {u} : written'[v] = written[v]
      /\ written'[u].count = written[u].count + 1
      /\ written'[u].password = IF handler[h].password = SamePassword THEN written[u].password
                                ELSE handler[h].password
  BY <1>3, WrittenStep
<1>10. ASSUME NEW v \in Accounts
       PROVE  /\ byName'[v] = byId'[v]
              /\ byId'[v].version = written'[v].count + 1
              /\ byId'[v].password = written'[v].password
  <2>1. byName[v] = byId[v]
    BY <1>8, QuietAccount
  <2>2. byId[v].version = written[v].count + 1 /\ byId[v].password = written[v].password
    BY DEF Undisturbed, Counted
  <2>3. CASE v # u
    BY <1>2, <1>9, <2>1, <2>2, <2>3 DEF AuthTypeOK
  <2>4. CASE v = u
    <3>1. byName'[u] = record /\ byId'[u] = record
      BY <1>2, <2>4 DEF AuthTypeOK
    <3> QED BY <1>1, <1>9, <2>1, <2>2, <2>4, <3>1
  <2> QED BY <2>3, <2>4
<1>11. Serial' /\ Counted' /\ Mirrored' /\ Saved'
  <2>1. Serial' /\ Saved'
    BY <1>3 DEF Serial, Saved
  <2> QED BY <1>10, <2>1 DEF Counted, Mirrored
<1>12. Prepared'
  BY <1>3, <1>7 DEF Prepared, Unsaved
<1>13. ASSUME NEW v \in Accounts PROVE /\ written[v].count \in Nat /\ written'[v].count \in Nat
                                       /\ written[v].count <= written'[v].count
  BY <1>9, AccountType
<1>14. ASSUME NEW v \in Accounts, NEW version, NEW updates \in Nat, ReadAt(v, version, updates)
       PROVE  ReadAt(v, version, updates)'
  BY <1>8, <1>13, <1>14 DEF ReadAt
<1>15. Dated'
  <2>1. ASSUME NEW i \in 1 .. Len(tokens)
        PROVE  ReadAt(tokens[i].account, tokens[i].version, tokens[i].updates)'
    BY <1>3, <1>14, TokenType DEF Undisturbed, Dated
  <2>2. ASSUME NEW g \in Threads, handler'[g].phase = "issue"
        PROVE  ReadAt(handler[g].account, handler[g].copy.version, handler[g].updates)'
    <3>1. handler'[g] = handler[g]
      BY <1>5, <1>6, <2>2
    <3> QED BY <1>14, <2>2, <3>1, ThreadType DEF Undisturbed, Dated
  <2> QED BY <1>3, <2>1, <2>2 DEF Dated
<1>16. Overtaken'
  <2> SUFFICES ASSUME NEW g \in Threads, NEW i \in 1 .. handler'[g].before,
                      tokens[i].account = handler'[g].account,
                      handler'[g].phase \in {"image", "replace", "return"}
               PROVE  tokens[i].version <= written'[handler'[g].account].count
    BY <1>3, <1>7 DEF Overtaken, Unsaved
  <2>1. /\ handler[g].before \in Nat /\ handler[g].before <= Len(tokens) /\ Len(tokens) \in Nat
        /\ handler'[g].before = handler[g].before /\ handler'[g].account = handler[g].account
    BY <1>5, <1>6, ThreadType, LengthType
  <2>2. i \in 1 .. Len(tokens)
    BY <2>1, Earlier
  <2>3. tokens[i].account \in Accounts /\ tokens[i].version \in Nat
    BY <2>2, TokenType
  <2>4. CASE g = h
    BY <1>8, <1>9, <2>1, <2>2, <2>4, Older
  <2>5. CASE g # h
    <3>1. tokens[i].version <= written[tokens[i].account].count
      BY <1>6, <2>1, <2>5 DEF Undisturbed, Overtaken
    <3> QED BY <1>13, <2>1, <2>3, <3>1
  <2> QED BY <2>4, <2>5
<1>17. Outdated'
  <2> SUFFICES ASSUME NEW i \in revoked
               PROVE  tokens[i].version <= written'[tokens[i].account].count
    BY <1>3 DEF Outdated
  <2>1. tokens[i].account \in Accounts /\ tokens[i].version \in Nat
    BY TokenType DEF AuthTypeOK
  <2> QED BY <1>13, <2>1 DEF Undisturbed, Outdated
<1> QED BY <1>11, <1>12, <1>15, <1>16, <1>17 DEF Undisturbed

\* The first assignment of the JSON store.
LEMMA WriteByNameStep ==
  ASSUME AuthTypeOK, AuthTypeOK', Undisturbed, NEW h \in Threads, Write(h), store = "json",
         handler[h].account \in Accounts
  PROVE  Undisturbed'
<1> DEFINE u == handler[h].account
           record == Changed(handler[h].copy, handler[h].password)
           new == [handler[h] EXCEPT !.copy = record, !.phase = "write by id"]
<1>1. handler[h].phase = "write" /\ Updating(h)
  BY DEF Write, Updating
<1>2. /\ record.version = handler[h].copy.version + 1
      /\ record.password = Changed(handler[h].copy, handler[h].password).password
  BY DEF Changed
<1>3. byName' = [byName EXCEPT ![u] = record]
  BY DEF Write, Base
<1>4. UNCHANGED <<store, byId, file, tokens, revoked, written>>
  BY DEF Write
<1>5. handler' = [handler EXCEPT ![h] = new]
  BY DEF Write, Base
<1>6. /\ new.phase = "write by id" /\ new.account = u /\ new.before = handler[h].before
      /\ new.copy = record /\ new.password = handler[h].password
  BY ThreadType DEF Handler
<1>7. record = Changed(handler[h].copy, handler[h].password)
  OBVIOUS
<1> HIDE DEF record, new
<1>8. handler'[h] = new /\ \A g \in Threads \ {h} : handler'[g] = handler[g]
  BY <1>5 DEF AuthTypeOK
<1>9. ASSUME NEW g \in Threads, g # h PROVE ~Updating(g) /\ ~Updating(g)'
  <2>1. ~Updating(g)
    BY <1>1, <1>9 DEF Undisturbed, Serial
  <2> QED BY <1>8, <1>9, <2>1 DEF Updating
<1>10. ASSUME NEW g \in Threads, NEW v PROVE ~WritingById(g, v)
  BY <1>1, <1>9 DEF WritingById, Updating
<1>11. ASSUME NEW v, v = u PROVE WritingById(h, v)'
  BY <1>6, <1>8, <1>11 DEF WritingById
<1>12. handler[h].copy = byId[u]
  BY <1>1 DEF Undisturbed, Prepared
<1>13. Serial' /\ Counted'
  <2>1. Serial'
    <3> SUFFICES ASSUME NEW f \in Threads, NEW g \in Threads, Updating(f)', Updating(g)'
                 PROVE  f = g
      BY DEF Serial
    <3> QED BY <1>9
  <2> QED BY <1>4, <2>1 DEF Undisturbed, Counted
<1>14. Mirrored'
  <2>1. ASSUME NEW v \in Accounts, v # u PROVE byName'[v] = byId'[v]
    <3>1. byName[v] = byId[v]
      BY <1>10, QuietAccount
    <3> QED BY <1>3, <1>4, <2>1, <3>1 DEF AuthTypeOK
  <2>2. ASSUME NEW v \in Accounts
        PROVE  byName'[v] = byId'[v] \/ \E g \in Threads : WritingById(g, v)'
    <3>1. CASE v = u
      <4>1. WritingById(h, v)'
        BY <1>11, <3>1
      <4> QED BY <4>1
    <3>2. CASE v # u
      BY <2>1, <3>2
    <3> QED BY <3>1, <3>2
  <2> QED BY <2>2 DEF Mirrored
<1>15. Prepared'
  <2>1. byName'[u] = record
    BY <1>3 DEF AuthTypeOK
  <2> SUFFICES ASSUME NEW g \in Threads
               PROVE  /\ handler'[g].phase = "write" /\ store' = "json" =>
                           handler'[g].copy = byId'[handler'[g].account]
                      /\ handler'[g].phase = "write by id" =>
                           /\ handler'[g].copy = byName'[handler'[g].account]
                           /\ handler'[g].copy.version = byId'[handler'[g].account].version + 1
                           /\ handler'[g].copy.password =
                                Changed(byId'[handler'[g].account], handler'[g].password).password
                      /\ handler'[g].phase = "replace" => handler'[g].image = byName'
    BY DEF Prepared, Changed
  <2>2. CASE g = h
    BY <1>2, <1>4, <1>6, <1>7, <1>8, <1>12, <2>1, <2>2
  <2>3. CASE g # h
    BY <1>9, <2>3 DEF Updating
  <2> QED BY <2>2, <2>3
<1>16. Saved'
  <2>1. Unsaved(h)'
    BY <1>6, <1>8 DEF Unsaved
  <2> QED BY <2>1 DEF Saved
<1>17. ASSUME NEW v \in Accounts, NEW version, NEW updates \in Nat, ReadAt(v, version, updates)
       PROVE  ReadAt(v, version, updates)'
  BY <1>4, <1>10, <1>17 DEF ReadAt
<1>18. Dated'
  <2>1. ASSUME NEW i \in 1 .. Len(tokens)
        PROVE  ReadAt(tokens[i].account, tokens[i].version, tokens[i].updates)'
    BY <1>4, <1>17, TokenType DEF Undisturbed, Dated
  <2>2. ASSUME NEW g \in Threads, handler'[g].phase = "issue"
        PROVE  ReadAt(handler[g].account, handler[g].copy.version, handler[g].updates)'
    <3>1. handler'[g] = handler[g]
      BY <1>6, <1>8, <2>2
    <3> QED BY <1>17, <2>2, <3>1, ThreadType DEF Undisturbed, Dated
  <2> QED BY <1>4, <2>1, <2>2 DEF Dated
<1>19. Overtaken'
  <2> SUFFICES ASSUME NEW g \in Threads, NEW i \in 1 .. handler'[g].before,
                      tokens[i].account = handler'[g].account
               PROVE  /\ handler'[g].phase = "write by id" =>
                           tokens[i].version <= written[handler'[g].account].count + 1
                      /\ handler'[g].phase \in {"image", "replace", "return"} =>
                           tokens[i].version <= written[handler'[g].account].count
    BY <1>4 DEF Overtaken
  <2>1. CASE g = h
    <3>1. /\ handler[h].before \in Nat /\ handler[h].before <= Len(tokens) /\ Len(tokens) \in Nat
          /\ handler'[h].before = handler[h].before
      BY <1>6, <1>8, ThreadType, LengthType
    <3>2. i \in 1 .. Len(tokens)
      BY <2>1, <3>1, Earlier
    <3> QED BY <1>6, <1>8, <1>10, <2>1, <3>2, Older
  <2>2. CASE g # h
    BY <1>8, <2>2 DEF Undisturbed, Overtaken
  <2> QED BY <2>1, <2>2
<1>20. Outdated'
  BY <1>4 DEF Undisturbed, Outdated
<1> QED BY <1>13, <1>14, <1>15, <1>16, <1>18, <1>19, <1>20 DEF Undisturbed

LEMMA WriteStep ==
  ASSUME AuthInv, NEW h \in Threads, Write(h)
  PROVE  AuthInv'
<1>1. AuthTypeOK' /\ UNCHANGED disturbed /\ store \in {"json", "postgres"}
  BY WriteType DEF Write, AuthInv, AuthTypeOK
<1>2. ASSUME ~disturbed' PROVE Undisturbed'
  <2>1. AuthTypeOK /\ Undisturbed
    BY <1>1, <1>2 DEF AuthInv
  <2>2. CASE store = "json"
    BY <1>1, <2>1, <2>2, WriteType, WriteByNameStep
  <2>3. CASE store = "postgres"
    BY <1>1, <2>1, <2>3, WriteType, WriteRowStep
  <2> QED BY <1>1, <2>2, <2>3
<1> QED BY <1>1, <1>2 DEF AuthInv

\* The second assignment of the JSON store.
LEMMA WriteByIdStep ==
  ASSUME AuthInv, NEW h \in Threads, WriteById(h)
  PROVE  AuthInv'
<1> DEFINE u == handler[h].account
           new == [handler[h] EXCEPT !.phase = "image"]
<1>1. /\ handler[h].phase = "write by id" /\ Updating(h) /\ Unsaved(h)
      /\ handler[h] \in Handler /\ u \in Accounts /\ handler[h].copy \in Record
      /\ handler[h].password \in Passwords \cup {SamePassword}
      /\ handler[h].before \in Nat /\ handler[h].before <= Len(tokens)
      /\ store # "postgres"
  BY ThreadType DEF WriteById, Updating, Unsaved, AuthInv
<1>2. store = "json"
  BY <1>1 DEF AuthInv, AuthTypeOK
<1>3. byId' = [byId EXCEPT ![u] = handler[h].copy]
  BY DEF WriteById
<1>4. UNCHANGED <<store, byName, file, tokens, requests, revoked, disturbed>> /\ Written(h)
  BY DEF WriteById
<1>5. handler' = [handler EXCEPT ![h] = new]
  BY DEF WriteById, Goto
<1>6. /\ new \in Handler /\ new.phase = "image" /\ new.account = u
      /\ new.before = handler[h].before /\ new.copy = handler[h].copy
  BY <1>1 DEF Handler, Phases
<1> HIDE DEF new
<1>7. handler'[h] = new /\ \A g \in Threads \ {h} : handler'[g] = handler[g]
  BY <1>5 DEF AuthInv, AuthTypeOK
<1>8. /\ written' \in [Accounts -> [count : Nat, password : Passwords]]
      /\ \A v \in Accounts \ {u} : written'[v] = written[v]
      /\ written'[u].count = written[u].count + 1
      /\ written'[u].password = IF handler[h].password = SamePassword THEN written[u].password
                                ELSE handler[h].password
  BY <1>1, <1>4, WrittenStep DEF AuthInv
<1>9. AuthTypeOK'
  <2>1. handler' \in [Threads -> Handler] /\ byId' \in [Accounts -> Record]
    BY <1>1, <1>3, <1>5, <1>6 DEF AuthInv, AuthTypeOK
  <2>2. ASSUME NEW g \in Threads PROVE HandlerOK(g)'
    <3>1. HandlerOK(g) /\ (handler'[g] = handler[g] \/ (g = h /\ handler'[g] = new))
      BY <1>7 DEF AuthInv, AuthTypeOK
    <3> QED BY <1>1, <1>4, <1>6, <3>1 DEF HandlerOK, Unsaved
  <2> QED BY <1>4, <1>8, <2>1, <2>2 DEF AuthInv, AuthTypeOK
<1> SUFFICES ASSUME ~disturbed' PROVE Undisturbed'
  BY <1>9 DEF AuthInv
<1>10. AuthTypeOK /\ Undisturbed
  BY <1>4 DEF AuthInv
<1>11. ASSUME NEW g \in Threads, g # h PROVE ~Updating(g) /\ ~Updating(g)'
  <2>1. ~Updating(g)
    BY <1>1, <1>2, <1>10, <1>11 DEF Undisturbed, Serial
  <2> QED BY <1>7, <1>11, <2>1 DEF Updating
<1>12. ASSUME NEW g \in Threads, NEW v, v # u PROVE ~WritingById(g, v)
  BY <1>1, <1>11, <1>12 DEF WritingById, Updating
<1>13. /\ handler[h].copy = byName[u] /\ handler[h].copy.version = byId[u].version + 1
       /\ handler[h].copy.password = Changed(byId[u], handler[h].password).password
  BY <1>1, <1>10 DEF Undisturbed, Prepared
<1>14. ASSUME NEW v \in Accounts
       PROVE  /\ byName'[v] = byId'[v]
              /\ byId'[v].version = written'[v].count + 1
              /\ byId'[v].password = written'[v].password
  <2>1. byId[v].version = written[v].count + 1 /\ byId[v].password = written[v].password
    BY <1>10 DEF Undisturbed, Counted
  <2>2. CASE v = u
    <3>1. byId'[u] = handler[h].copy
      BY <1>3, <1>10, <2>2 DEF AuthTypeOK
    <3>2. handler[h].copy.password = IF handler[h].password = SamePassword THEN byId[u].password
                                     ELSE handler[h].password
      BY <1>13 DEF Changed
    <3> QED BY <1>4, <1>8, <1>13, <2>1, <2>2, <3>1, <3>2
  <2>3. CASE v # u
    <3>1. byName[v] = byId[v]
      BY <1>10, <1>12, <2>3, QuietAccount
    <3> QED BY <1>3, <1>4, <1>8, <1>10, <2>1, <2>3, <3>1 DEF AuthTypeOK
  <2> QED BY <2>2, <2>3
<1>15. Serial' /\ Counted' /\ Mirrored'
  <2>1. Serial'
    <3> SUFFICES ASSUME NEW f \in Threads, NEW g \in Threads, Updating(f)', Updating(g)'
                 PROVE  f = g
      BY DEF Serial
    <3> QED BY <1>11
  <2> QED BY <1>14, <2>1 DEF Counted, Mirrored
<1>16. Prepared' /\ Saved'
  <2>1. ASSUME NEW g \in Threads
        PROVE  handler'[g].phase \notin {"write", "write by id", "replace"}
    BY <1>6, <1>7, <1>11 DEF Updating
  <2>2. Unsaved(h)'
    BY <1>6, <1>7 DEF Unsaved
  <2> QED BY <2>1, <2>2 DEF Prepared, Saved
<1>17. ASSUME NEW v \in Accounts PROVE /\ written[v].count \in Nat /\ written'[v].count \in Nat
                                       /\ written[v].count <= written'[v].count
  BY <1>8, <1>10, AccountType
<1>18. ASSUME NEW v \in Accounts, NEW version, NEW updates \in Nat, ReadAt(v, version, updates)
       PROVE  ReadAt(v, version, updates)'
  <2>1. CASE v = u
    <3>1. updates < written'[u].count
      BY <1>8, <1>17, <1>18, <2>1 DEF ReadAt
    <3> QED BY <1>17, <1>18, <2>1, <3>1 DEF ReadAt
  <2>2. CASE v # u
    BY <1>8, <1>12, <1>18, <2>2 DEF ReadAt
  <2> QED BY <2>1, <2>2
<1>19. Dated'
  <2>1. ASSUME NEW i \in 1 .. Len(tokens)
        PROVE  ReadAt(tokens[i].account, tokens[i].version, tokens[i].updates)'
    BY <1>4, <1>10, <1>18, TokenType DEF Undisturbed, Dated
  <2>2. ASSUME NEW g \in Threads, handler'[g].phase = "issue"
        PROVE  ReadAt(handler[g].account, handler[g].copy.version, handler[g].updates)'
    <3>1. handler'[g] = handler[g]
      BY <1>6, <1>7, <2>2
    <3> QED BY <1>10, <1>18, <2>2, <3>1, ThreadType DEF Undisturbed, Dated
  <2> QED BY <1>4, <2>1, <2>2 DEF Dated
<1>20. Overtaken'
  <2> SUFFICES ASSUME NEW g \in Threads, NEW i \in 1 .. handler'[g].before,
                      tokens[i].account = handler'[g].account,
                      handler'[g].phase \in {"image", "replace", "return"}
               PROVE  tokens[i].version <= written'[handler'[g].account].count
    BY <1>4, <1>6, <1>7, <1>11 DEF Overtaken, Updating
  <2>1. /\ handler[g].before \in Nat /\ handler[g].before <= Len(tokens) /\ Len(tokens) \in Nat
        /\ handler'[g].before = handler[g].before /\ handler'[g].account = handler[g].account
    BY <1>6, <1>7, <1>10, ThreadType, LengthType
  <2>2. i \in 1 .. Len(tokens)
    BY <2>1, Earlier
  <2>3. tokens[i].account \in Accounts /\ tokens[i].version \in Nat
    BY <1>10, <2>2, TokenType
  <2>4. CASE g = h
    BY <1>1, <1>8, <1>10, <2>1, <2>4 DEF Undisturbed, Overtaken
  <2>5. CASE g # h
    <3>1. tokens[i].version <= written[tokens[i].account].count
      BY <1>7, <1>10, <2>1, <2>5 DEF Undisturbed, Overtaken
    <3> QED BY <1>17, <2>1, <2>3, <3>1
  <2> QED BY <2>4, <2>5
<1>21. Outdated'
  <2> SUFFICES ASSUME NEW i \in revoked
               PROVE  tokens[i].version <= written'[tokens[i].account].count
    BY <1>4 DEF Outdated
  <2>1. tokens[i].account \in Accounts /\ tokens[i].version \in Nat
    BY <1>10, TokenType DEF AuthTypeOK
  <2> QED BY <1>10, <1>17, <2>1 DEF Undisturbed, Outdated
<1> QED BY <1>15, <1>16, <1>19, <1>20, <1>21 DEF Undisturbed

-----------------------------------------------------------------------------
(* Restarts, and every step together.                                      *)

LEMMA RestartStep ==
  ASSUME AuthInv, Restart
  PROVE  AuthInv'
<1>1. Resting.phase = "resting" /\ Resting.before = 0
  BY DEF Resting
<1>2. handler' = [h \in Threads |-> Resting] /\ handler' \in [Threads -> Handler]
  BY RestingIsOK DEF Restart
<1>3. ASSUME NEW g \in Threads
      PROVE  handler'[g].phase = "resting" /\ handler'[g].before = 0 /\ ~Unsaved(g)'
  <2>1. handler'[g] = Resting
    BY <1>2
  <2> QED BY <1>1, <2>1 DEF Unsaved
<1>4. UNCHANGED <<store, file, tokens, requests, written, revoked>>
  BY DEF Restart
<1>5. /\ byName' \in [Accounts -> Record] /\ byId' \in [Accounts -> Record]
      /\ disturbed' \in BOOLEAN
      /\ ~disturbed' => /\ ~disturbed /\ byName' = byName /\ byId' = byId
                        /\ \A g \in Threads : ~Unsaved(g)
  <2>1. CASE store = "json"
    <3>1. /\ byName' = [v \in Accounts |-> file[v]] /\ byId' = [v \in Accounts |-> file[v]]
          /\ disturbed' = (disturbed \/ \E h \in Threads : Unsaved(h))
      BY <2>1 DEF Restart, Loaded
    <3>2. byName' = file /\ byId' = file
      BY <3>1 DEF AuthInv, AuthTypeOK
    <3>3. ~disturbed' => ~disturbed /\ \A g \in Threads : ~Unsaved(g)
      BY <3>1
    <3>4. ASSUME ~disturbed' PROVE byName' = byName /\ byId' = byId
      <4>1. AuthTypeOK /\ Undisturbed /\ \A h \in Threads : ~Unsaved(h)
        BY <3>3, <3>4 DEF AuthInv
      <4>2. file = byName
        BY <2>1, <4>1 DEF Undisturbed, Saved
      <4>3. ASSUME NEW v \in Accounts PROVE byName[v] = byId[v]
        <5>1. ASSUME NEW g \in Threads PROVE ~WritingById(g, v)
          BY <4>1 DEF WritingById, Unsaved
        <5> QED BY <4>1, <5>1, QuietAccount
      <4>4. byName = byId
        BY <4>1, <4>3 DEF AuthTypeOK
      <4> QED BY <3>2, <4>2, <4>4
    <3>5. file \in [Accounts -> Record] /\ disturbed' \in BOOLEAN
      BY <3>1 DEF AuthInv, AuthTypeOK
    <3> QED BY <3>2, <3>3, <3>4, <3>5
  <2>2. CASE store # "json"
    <3>1. store = "postgres" /\ UNCHANGED <<byName, byId, disturbed>>
      BY <2>2 DEF Restart, AuthInv, AuthTypeOK
    <3>2. ASSUME NEW f \in Threads PROVE ~Unsaved(f)
      BY <3>1, ThreadType DEF AuthInv
    <3> QED BY <3>1, <3>2 DEF AuthInv, AuthTypeOK
  <2> QED BY <2>1, <2>2
<1>6. AuthTypeOK'
  <2>1. ASSUME NEW g \in Threads PROVE HandlerOK(g)'
    <3>1. Len(tokens) \in Nat
      BY LengthType DEF AuthInv
    <3> QED BY <1>3, <1>4, <3>1 DEF HandlerOK
  <2> QED BY <1>2, <1>4, <1>5, <2>1 DEF AuthInv, AuthTypeOK
<1> SUFFICES ASSUME ~disturbed' PROVE Undisturbed'
  BY <1>6 DEF AuthInv
<1>7. /\ AuthTypeOK /\ Undisturbed /\ byName' = byName /\ byId' = byId
      /\ \A g \in Threads : ~Unsaved(g)
  BY <1>5 DEF AuthInv
<1>8. Serial' /\ Prepared' /\ Overtaken'
  <2>1. Serial'
    <3>1. ASSUME NEW g \in Threads PROVE ~Updating(g)'
      BY <1>3 DEF Updating
    <3> QED BY <3>1 DEF Serial
  <2>2. Prepared'
    BY <1>3 DEF Prepared
  <2>3. Overtaken'
    BY <1>3 DEF Overtaken
  <2> QED BY <2>1, <2>2, <2>3
<1>9. Counted' /\ Outdated' /\ Saved'
  <2>1. Counted' /\ Outdated'
    BY <1>4, <1>7 DEF Undisturbed, Counted, Outdated
  <2>2. Saved'
    BY <1>4, <1>7 DEF Undisturbed, Saved
  <2> QED BY <2>1, <2>2
<1>10. ASSUME NEW g \in Threads, NEW v PROVE ~WritingById(g, v)
  BY <1>7 DEF WritingById, Unsaved
<1>11. Mirrored'
  <2>1. ASSUME NEW v \in Accounts PROVE byName'[v] = byId'[v]
    BY <1>7, <1>10, QuietAccount
  <2> QED BY <2>1 DEF Mirrored
<1>12. Dated'
  <2>1. ASSUME NEW i \in 1 .. Len(tokens)
        PROVE  ReadAt(tokens[i].account, tokens[i].version, tokens[i].updates)'
    <3>1. ReadAt(tokens[i].account, tokens[i].version, tokens[i].updates)
      BY <1>7 DEF Undisturbed, Dated
    <3> QED BY <1>4, <1>10, <3>1 DEF ReadAt
  <2>2. ASSUME NEW g \in Threads PROVE handler'[g].phase # "issue"
    BY <1>3
  <2> QED BY <1>4, <2>1, <2>2 DEF Dated
<1> QED BY <1>8, <1>9, <1>11, <1>12 DEF Undisturbed

LEMMA StutteringStep ==
  ASSUME AuthInv, UNCHANGED authVars
  PROVE  AuthInv'
<1> USE DEF authVars
<1>1. AuthTypeOK'
  BY DEF AuthInv, AuthTypeOK, HandlerOK, Unsaved
<1>2. Undisturbed => Undisturbed'
  BY DEF Undisturbed, Serial, Counted, Mirrored, Prepared, Saved, Dated, Overtaken, Outdated,
     Updating, Unsaved, WritingById, ReadAt, Changed
<1> QED BY <1>1, <1>2 DEF AuthInv

LEMMA NextInv == AuthInv /\ [AuthNext]_authVars => AuthInv'
<1> SUFFICES ASSUME AuthInv, [AuthNext]_authVars PROVE AuthInv'
  OBVIOUS
<1>1. CASE Restart
  BY <1>1, RestartStep
<1>2. ASSUME NEW h \in Threads,
             \/ Login(h) \/ Refresh(h) \/ Issue(h) \/ RequestUpdate(h) \/ Check(h) \/ Read(h)
             \/ Write(h) \/ WriteById(h) \/ Image(h) \/ Replace(h) \/ SaveFails(h) \/ Return(h)
      PROVE  AuthInv'
  BY <1>2, LoginStep, RefreshStep, IssueStep, RequestUpdateStep, CheckStep, ReadStep,
     WriteStep, WriteByIdStep, ImageStep, ReplaceStep, SaveFailsStep, ReturnStep
<1>3. CASE UNCHANGED authVars
  BY <1>3, StutteringStep
<1> QED BY <1>1, <1>2, <1>3 DEF AuthNext

-----------------------------------------------------------------------------

\* The invariant holds of every behaviour: accounts and threads of any number,
\* requests without a bound, either store, failing saves and restarts at any step.
THEOREM TokensAreCounted == AuthSpec => []AuthInv
<1> QED BY InitInv, NextInv, PTL DEF AuthSpec

\* No token outlives a logout, a password change or a reset that has returned
\* (principal_from_token, increment_token_version, update_password).
THEOREM RevocationIsFinal == AuthSpec => []RevokedStaysRevoked
<1>1. AuthInv => RevokedStaysRevoked
  <2> SUFFICES ASSUME AuthInv, ~disturbed, NEW i \in revoked PROVE ~Accepted(tokens[i])
    BY DEF RevokedStaysRevoked
  <2>1. AuthTypeOK /\ Undisturbed
    BY DEF AuthInv
  <2>2. tokens[i].account \in Accounts /\ tokens[i].version \in Nat
    BY <2>1, TokenType DEF AuthTypeOK
  <2>3. byId[tokens[i].account].version = written[tokens[i].account].count + 1
    BY <2>1, <2>2 DEF Undisturbed, Counted
  <2>4. tokens[i].version <= written[tokens[i].account].count
    BY <2>1 DEF Undisturbed, Outdated
  <2>5. written[tokens[i].account].count \in Nat
    BY <2>1, <2>2, AccountType
  <2> QED BY <2>2, <2>3, <2>4, <2>5 DEF Accepted
<1> QED BY <1>1, TokensAreCounted, PTL

\* No session ends but by an update of its own account (principal_from_token,
\* JSONUserStore._load).
THEOREM SessionsLast == AuthSpec => []IssuedTokensWork
<1>1. AuthInv => IssuedTokensWork
  <2> SUFFICES ASSUME AuthInv, ~disturbed, NEW i \in DOMAIN tokens,
                      Quiet(tokens[i].account),
                      tokens[i].updates = written[tokens[i].account].count
               PROVE  Accepted(tokens[i])
    BY DEF IssuedTokensWork
  <2>1. AuthTypeOK /\ Undisturbed
    BY DEF AuthInv
  <2>2. i \in 1 .. Len(tokens)
    BY <2>1 DEF AuthTypeOK
  <2>3. tokens[i].account \in Accounts
    BY <2>1, <2>2, TokenType
  <2>4. byId[tokens[i].account].version = written[tokens[i].account].count + 1
    BY <2>1, <2>3 DEF Undisturbed, Counted
  <2>5. ASSUME NEW h \in Threads PROVE ~WritingById(h, tokens[i].account)
    BY DEF Quiet, Updating, WritingById
  <2>6. ReadAt(tokens[i].account, tokens[i].version, tokens[i].updates)
    BY <2>1, <2>2 DEF Undisturbed, Dated
  <2>7. tokens[i].version = tokens[i].updates + 1
    BY <2>5, <2>6 DEF ReadAt
  <2> QED BY <2>4, <2>7 DEF Accepted
<1> QED BY <1>1, TokensAreCounted, PTL

\* No logout and no restart brings an old password back (update_password,
\* increment_token_version).
THEOREM PasswordsStay == AuthSpec => []PasswordChangesStick
<1>1. AuthInv => PasswordChangesStick
  <2> SUFFICES ASSUME AuthInv, ~disturbed, NEW u \in Accounts, Quiet(u)
               PROVE  byName[u].password = written[u].password
    BY DEF PasswordChangesStick
  <2>1. AuthTypeOK /\ Undisturbed
    BY DEF AuthInv
  <2>2. ASSUME NEW h \in Threads PROVE ~WritingById(h, u)
    BY DEF Quiet, Updating, WritingById
  <2>3. byName[u] = byId[u]
    BY <2>1, <2>2, QuietAccount
  <2> QED BY <2>1, <2>3 DEF Undisturbed, Counted
<1> QED BY <1>1, TokensAreCounted, PTL

=============================================================================
