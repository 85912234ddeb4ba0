----------------------------- MODULE MCRequests -----------------------------
(***************************************************************************)
(* AuthTokens and AuditLog on small instances: what a request for the      *)
(* audit log passes, first as a bearer of a token and then as a viewer.    *)
(* Neither reads the other's variables, so every behaviour of both is one  *)
(* of each beside the other, and it is enough to explore each of them      *)
(* while the other is still in an initial state.                           *)
(***************************************************************************)
EXTENDS AuditLog, AuthTokens

CONSTANTS h1, h2, p1, p2

MCThreads == {h1, h2}

MCPasswords == {p1, p2}

Symmetry == Permutations(MCThreads) \cup Permutations(MCPasswords)

Manager == [user_id |-> 1, username |-> "manager"]
Employee == [user_id |-> 2, username |-> "employee"]

MCUsers == {Manager, Employee}

MCAuditors == {Manager}

MCKinds ==
  {[event_type |-> "RouteCreated", resource_type |-> "route", resource_id |-> "1",
    action |-> "created", source |-> "HTTP"],
   [event_type |-> "WorldStateAdvanced", resource_type |-> "world_state", resource_id |-> None,
    action |-> "advanced", source |-> "CLI"]}

MCFilters ==
  {<<>>, [event_type |-> "RouteCreated", resource_type |-> "route"], [resource_id |-> "1"],
   [action |-> "advanced", source |-> "CLI"], [actor_user_id |-> 2],
   [actor_username |-> "manager"], [occurred_from |-> 2], [occurred_to |-> 1],
   [created_from |-> 2, created_to |-> 2]}

Page(limit, offset, include_total) ==
  [limit |-> limit, offset |-> offset, include_total |-> include_total]

MCPages ==
  {Page(None, 0, FALSE), Page(None, 1, FALSE), Page(1, 1, FALSE), Page(2, 1, TRUE)}

RequestInit == Init /\ AuthInit

\* One initial state of AuthTokens, for the log to be explored beside.
Untouched ==
  requests = 0 /\ store = "postgres" /\ \A u, v \in Accounts : byName[u] = byName[v]

RequestNext ==
  \/ Untouched /\ Next /\ UNCHANGED authVars
  \/ records = <<>> /\ now = 1 /\ answer = None /\ AuthNext /\ UNCHANGED vars

RequestSpec == RequestInit /\ [][RequestNext]_<<vars, authVars>>

=============================================================================
