------------------------------ MODULE AuthTokens ------------------------------
(***************************************************************************)
(* Tokens and their revocation (adapters/driving/http/dependencies/auth.py *)
(* and routers/api/auth_router.py, application/use_cases/auth).            *)
(*                                                                         *)
(* A token carries the version its account had when the record was read.   *)
(* It is accepted while the account still has that version; a logout, a    *)
(* password change and a reset raise it.  Requests run in a thread pool    *)
(* over one user repository: PostgreSQL, where a change is one statement   *)
(* on the row, or JSONUserStore, two dictionaries of records that are read *)
(* once from a file and written back to it whole.                          *)
(*                                                                         *)
(* An access and a refresh token are issued together with the same         *)
(* version: one token here.  Tokens also expire, which only refuses more.  *)
(* Nobody renames, removes or registers an account.                        *)
(***************************************************************************)
EXTENDS Integers, Sequences

CONSTANTS
  Accounts,      \* by username or id
  Managers,      \* those that may reset passwords
  Passwords,
  SamePassword,  \* what a logout sets it to
  Threads,
  Stores,        \* the user repositories explored
  RequestBound   \* bound: requests that have an effect

ASSUME AuthTokensAssumption ==
  /\ Managers \subseteq Accounts
  /\ SamePassword \notin Passwords
  /\ Stores \subseteq {"json", "postgres"}
  /\ RequestBound \in Nat

VARIABLES
  store,      \* the user repository in use
  byName,     \* JSONUserStore._by_username, or the table
  byId,       \* JSONUserStore._by_id, or the same table
  file,       \* users.json
  handler,    \* the request each thread handles
  tokens,     \* the tokens issued, and what was written when their record was read
  requests,   \* how many requests there were
  written,    \* for each account the updates written so far and the last password
  revoked,    \* tokens issued before an update began that has returned
  disturbed   \* updates of the JSON store overlapped, failed or were cut short

authVars ==
  <<store, byName, byId, file, handler, tokens, requests, written, revoked, disturbed>>

Resting ==
  [phase |-> "resting", account |-> SamePassword, password |-> SamePassword,
   copy |-> SamePassword, image |-> SamePassword, before |-> 0, updates |-> 0]

Updating(h) == handler[h].phase \in {"write", "write by id", "image", "replace"}

\* The update has changed a dictionary and not yet the file.
Unsaved(h) == handler[h].phase \in {"write by id", "image", "replace"}

Goto(h, phase) == handler' = [handler EXCEPT ![h].phase = phase]
Rest(h) == handler' = [handler EXCEPT ![h] = Resting]

-----------------------------------------------------------------------------
(* Requests.                                                               *)

\* principal_from_token, for a token that has not expired.
Accepted(token) == byId[token.account].version = token.version

Receive(h, request) ==
  /\ handler[h].phase = "resting"
  /\ requests < RequestBound
  /\ requests' = requests + 1
  /\ handler' = [handler EXCEPT ![h] = request]
  /\ UNCHANGED <<store, byName, byId, file, tokens, written, revoked, disturbed>>

\* What a thread holds that will answer with a token of this record.
Issuing(u, record) ==
  [Resting EXCEPT !.phase = "issue", !.account = u, !.copy = record,
                  !.updates = written[u].count]

\* AuthService.authenticate with the right password; a wrong one changes nothing.
Login(h) == \E u \in Accounts : Receive(h, Issuing(u, byName[u]))

Refresh(h) ==
  \E i \in DOMAIN tokens :
    /\ Accepted(tokens[i])
    /\ Receive(h, Issuing(tokens[i].account, byId[tokens[i].account]))

\* _token_response
Issue(h) ==
  /\ handler[h].phase = "issue"
  /\ tokens' = Append(tokens, [account |-> handler[h].account,
                               version |-> handler[h].copy.version,
                               updates |-> handler[h].updates])
  /\ Rest(h)
  /\ UNCHANGED <<store, byName, byId, file, requests, written, revoked, disturbed>>

\* A request whose principal was accepted; nothing asks again before its update.
Update(phase, principal, account, password) ==
  [Resting EXCEPT !.phase = phase, !.account = account, !.password = password,
                  !.copy = byId[principal], !.before = Len(tokens)]

\* The JSON store looks the record up; PostgreSQL needs the account's id only.
LogoutStarts == IF store = "json" THEN "read" ELSE "write"

RequestUpdate(h) ==
  \E i \in DOMAIN tokens :
    LET u == tokens[i].account IN
      /\ Accepted(tokens[i])
      /\ \/ Receive(h, Update(LogoutStarts, u, u, SamePassword))
         \/ \E p \in Passwords : Receive(h, Update("check", u, u, p))
         \/ /\ u \in Managers
            /\ \E v \in Accounts, p \in Passwords : Receive(h, Update("read", u, v, p))

\* AuthService.change_password: the new password must differ.
Check(h) ==
  /\ handler[h].phase = "check"
  /\ IF byName[handler[h].account].password = handler[h].password THEN Rest(h)
     ELSE Goto(h, "read")
  /\ UNCHANGED <<store, byName, byId, file, tokens, requests, written, revoked, disturbed>>

-----------------------------------------------------------------------------
(* The update of a record.                                                 *)

\* increment_token_version looks up by id, update_password by name.
Read(h) ==
  /\ handler[h].phase = "read"
  /\ LET u == handler[h].account
         record == IF handler[h].password = SamePassword THEN byId[u] ELSE byName[u]
     IN  handler' = [handler EXCEPT ![h].copy = record, ![h].phase = "write"]
  /\ disturbed' = (disturbed \/ (store = "json" /\ \E g \in Threads \ {h} : Updating(g)))
  /\ UNCHANGED <<store, byName, byId, file, tokens, requests, written, revoked>>

\* Changed without the version: a password change that keeps every session.
SessionsKept(record, password) ==
  IF password = SamePassword THEN [record EXCEPT !.version = @ + 1]
  ELSE [record EXCEPT !.password = password]

Changed(record, password) ==
  [version |-> record.version + 1,
   password |-> IF password = SamePassword THEN record.password ELSE password]

\* Base if PostgreSQL's statement wrote the columns that were read before it.
RecordRead(h) == handler[h].copy

\* The record a change starts from: the row itself, or the record that was read.
Base(h) == IF store = "postgres" THEN byName[handler[h].account] ELSE handler[h].copy

Written(h) ==
  written' = [written EXCEPT ![handler[h].account] =
    [count |-> @.count + 1,
     password |-> IF handler[h].password = SamePassword THEN @.password ELSE handler[h].password]]

\* UPDATE public.users, or the first assignment of the JSON store.
Write(h) ==
  /\ handler[h].phase = "write"
  /\ LET u == handler[h].account
         record == Changed(Base(h), handler[h].password)
     IN  /\ byName' = [byName EXCEPT ![u] = record]
         /\ IF store = "postgres"
            THEN /\ byId' = [byId EXCEPT ![u] = record]
                 /\ Written(h)
                 /\ Goto(h, "return")
            ELSE /\ handler' = [handler EXCEPT ![h].copy = record, ![h].phase = "write by id"]
                 /\ UNCHANGED <<byId, written>>
  /\ UNCHANGED <<store, file, tokens, requests, revoked, disturbed>>

WriteById(h) ==
  /\ handler[h].phase = "write by id"
  /\ byId' = [byId EXCEPT ![handler[h].account] = handler[h].copy]
  /\ Written(h)
  /\ Goto(h, "image")
  /\ UNCHANGED <<store, byName, file, tokens, requests, revoked, disturbed>>

\* JSONUserStore.save collects every record, and then replaces the file.
Image(h) ==
  /\ handler[h].phase = "image"
  /\ handler' = [handler EXCEPT ![h].image = byName, ![h].phase = "replace"]
  /\ UNCHANGED <<store, byName, byId, file, tokens, requests, written, revoked, disturbed>>

Replace(h) ==
  /\ handler[h].phase = "replace"
  /\ file' = handler[h].image
  /\ Goto(h, "return")
  /\ UNCHANGED <<store, byName, byId, tokens, requests, written, revoked, disturbed>>

\* The request fails; the dictionaries keep what the file does not have.
SaveFails(h) ==
  /\ handler[h].phase = "replace"
  /\ Rest(h)
  /\ disturbed' = TRUE
  /\ UNCHANGED <<store, byName, byId, file, tokens, requests, written, revoked>>

\* The client learns that the update has been made.
Return(h) ==
  /\ handler[h].phase = "return"
  /\ revoked' = revoked \cup
       {i \in 1 .. handler[h].before : tokens[i].account = handler[h].account}
  /\ Rest(h)
  /\ UNCHANGED <<store, byName, byId, file, tokens, requests, written, disturbed>>

-----------------------------------------------------------------------------
(* Restarts.                                                               *)

\* Loaded if the file had no token versions: they default to 1.
LoadedWithoutVersions(u) == [file[u] EXCEPT !.version = 1]

\* JSONUserStore._load
Loaded(u) == file[u]

Restart ==
  /\ handler' = [h \in Threads |-> Resting]
  /\ IF store = "json"
     THEN /\ byName' = [u \in Accounts |-> Loaded(u)]
          /\ byId' = [u \in Accounts |-> Loaded(u)]
          /\ disturbed' = (disturbed \/ \E h \in Threads : Unsaved(h))
     ELSE UNCHANGED <<byName, byId, disturbed>>
  /\ UNCHANGED <<store, file, tokens, requests, written, revoked>>

AuthInit ==
  /\ store \in Stores
  /\ byName \in [Accounts -> [version : {1}, password : Passwords]]
  /\ byId = byName /\ file = byName
  /\ handler = [h \in Threads |-> Resting]
  /\ tokens = <<>>
  /\ requests = 0
  /\ written = [u \in Accounts |-> [count |-> 0, password |-> byName[u].password]]
  /\ revoked = {}
  /\ disturbed = FALSE

AuthNext ==
  \/ Restart
  \/ \E h \in Threads :
       \/ Login(h) \/ Refresh(h) \/ Issue(h)
       \/ RequestUpdate(h) \/ Check(h) \/ Read(h)
       \/ Write(h) \/ WriteById(h) \/ Image(h) \/ Replace(h) \/ SaveFails(h) \/ Return(h)

AuthSpec == AuthInit /\ [][AuthNext]_authVars

-----------------------------------------------------------------------------
(* Properties.  `disturbed` excuses the JSON store only: its updates have   *)
(* no lock, and what it could not save may be lost or overwritten.         *)

\* Once a logout, a password change or a reset has returned, no token issued
\* before it began is accepted again, whatever else runs and however often the
\* process restarts (auth.py; README: "to revoke existing tokens").
RevokedStaysRevoked ==
  ~disturbed => \A i \in revoked : ~Accepted(tokens[i])

Quiet(u) == \A h \in Threads : Updating(h) => handler[h].account # u

\* A token is refused only because of an update written since its record was
\* read: neither another account's update nor a restart ends a session
\* (auth.py, user_store.py).
IssuedTokensWork ==
  ~disturbed => \A i \in DOMAIN tokens :
    LET u == tokens[i].account IN
      Quiet(u) /\ tokens[i].updates = written[u].count => Accepted(tokens[i])

\* A password that was changed or reset stays the password until the next such
\* update: no logout that runs beside it, and no restart, brings the old one
\* back (user_store.py, update_password.sql, increment_token_version_by_id.sql).
PasswordChangesStick ==
  ~disturbed => \A u \in Accounts :
    Quiet(u) => byName[u].password = written[u].password

=============================================================================
