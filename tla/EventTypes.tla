----------------------------- MODULE EventTypes -----------------------------
(***************************************************************************)
(* The events of FleetFlow (src/src/domain/events and                      *)
(* src/src/application/events): every concrete event class with the        *)
(* version of its stored contract and, for each attribute, the set of      *)
(* values its annotation and the entities that record it allow.            *)
(*                                                                         *)
(* A string is a pair <<form, content>>: <<"text", s>>, the ISO text       *)
(* <<"iso", t>> of the naive time t, or <<"aware", t>>, an ISO text with   *)
(* an offset.  A weight counts tenths of a kilogram.  The nested record of *)
(* entity counts of the world-state events is flattened into four          *)
(* attributes, named as the keys entity_counts.py gives them.              *)
(***************************************************************************)
EXTENDS Integers, Sequences, FiniteSets, SequencesExt, TLC

CONSTANTS
  None,         \* Python's None
  Ids,          \* identifiers of entities and of snapshot schemas
  Tenths,       \* weights
  Times,        \* naive business times
  Strings,      \* the strings that occur, as pairs
  Normal,       \* strip().upper() of each string
  Blank,        \* the string with nothing in it
  ListBound,      \* bound: the longest list explored
  PermissionBound \* bound: the longest list of permissions explored

ASSUME EventTypesAssumption ==
  /\ Ids \subseteq Nat \ {0} /\ Ids # {} /\ Times # {}
  /\ Tenths \subseteq Nat \ {0} /\ {10 * i : i \in Ids} \subseteq Tenths
  /\ Normal \in [Strings -> Strings]
  /\ \A s \in Strings : Normal[Normal[s]] = Normal[s]
  /\ Blank \in Strings /\ Blank[1] = "text" /\ \E s \in Strings : Normal[s] # Blank
  /\ \A t \in Times : <<"iso", t>> \in Strings
  /\ \A s \in Strings : s[1] = "iso" => s[2] \in Times
  /\ ListBound \in Nat \ {0} /\ PermissionBound \in Nat

-----------------------------------------------------------------------------
(* Value objects and annotations.                                          *)

\* Numbers of entities.
Counts == Ids \cup {0}

\* A LocationCode: a stripped, upper-case string that is not blank.
Locations == {Normal[s] : s \in Strings} \ {Blank}

Optional(S) == S \cup {None}

\* The longest list explored under a key.
ItemBound(k) == IF k = "required_permissions" THEN PermissionBound ELSE ListBound

ListsOf(S) == BoundedSeq(S, ListBound)

\* The attributes of f and those of g.
f ++ g == [x \in DOMAIN f \cup DOMAIN g |-> IF x \in DOMAIN f THEN f[x] ELSE g[x]]

-----------------------------------------------------------------------------
(* The enumerations, as functions from the member's name to its value.     *)

ItemStatus == [TODO |-> "To Do", IN_PROGRESS |-> "In Progress", DONE |-> "Done"]

\* Enumerations whose members are written as they are named.
NamedAs(names) == [n \in names |-> n]

RouteStatus == NamedAs({"PLANNED", "SCHEDULED", "IN_PROGRESS", "COMPLETED"})

TruckStatus == [FREE |-> "Free", ON_THE_WAY |-> "On the way"]

Role == NamedAs({"EMPLOYEE", "MANAGER"})

PackageDetachmentReason == NamedAs({"PACKAGE_REMOVED", "ROUTE_REMOVED"})

TruckReleaseReason == NamedAs({"ROUTE_COMPLETED", "ROUTE_REMOVED"})

RoutePositionKind ==
  NamedAs({"UNSCHEDULED", "BEFORE_START", "AT_STOP", "IN_TRANSIT", "AFTER_END"})

RouteReconciliationReason ==
  [MISSING_DEPARTURE_TIME |-> "missing_departure_time",
   MISSING_EXPECTED_COMPLETION_TIME |-> "missing_expected_completion_time",
   BEFORE_SCHEDULED_DEPARTURE |-> "before_scheduled_departure"]

PackageReconciliationReason ==
  [ROUTE_UNSCHEDULED |-> "route_unscheduled",
   ROUTE_PATH_INVALID |-> "route_path_invalid",
   BEFORE_SCHEDULED_PICKUP |-> "before_scheduled_pickup",
   MISSING_PICKUP_TIME |-> "missing_pickup_time",
   LIFECYCLE_STATE_INCONSISTENT |-> "lifecycle_state_inconsistent",
   ROUTE_PROGRESS_ADVANCED |-> "route_progress_advanced",
   EXPECTED_ARRIVAL_RECALCULATED |-> "expected_arrival_recalculated"]

TokenRevocationReason == NamedAs({"USER_LOGOUT", "PASSWORD_CHANGE", "PASSWORD_RESET"})

UserLoginRejectionReason ==
  NamedAs({"USER_NOT_FOUND", "INVALID_PASSWORD", "INVALID_PASSWORD_HASH", "INVALID_RUNTIME_USER"})

UserPasswordChangeRejectionReason ==
  NamedAs({"INVALID_USERNAME", "USER_NOT_FOUND", "INVALID_PASSWORD_HASH",
           "CURRENT_PASSWORD_INCORRECT", "PASSWORD_CRITERIA_NOT_MET", "SAME_AS_CURRENT_PASSWORD"})

UserPasswordResetRejectionReason ==
  NamedAs({"INVALID_USERNAME", "USER_NOT_FOUND", "PASSWORD_CRITERIA_NOT_MET",
           "CANNOT_RESET_OWN_PASSWORD"})

UserRegistrationRejectionReason ==
  NamedAs({"INVALID_USERNAME", "PASSWORD_CRITERIA_NOT_MET", "USERNAME_ALREADY_EXISTS"})

WorldStateCorruptionReason ==
  NamedAs({"MALFORMED_JSON", "INVALID_STRUCTURE", "UNSUPPORTED_SCHEMA", "INVALID_REFERENCES",
           "INVARIANT_VIOLATION"})

WorldStateFailureReason ==
  NamedAs({"FILE_NOT_FOUND", "INVALID_PATH", "CORRUPT_SNAPSHOT", "UNSUPPORTED_SCHEMA",
           "PERSISTENCE_FAILURE", "RUNTIME_SWAP_FAILURE"})

WorldStateStartupSkipReason == NamedAs({"NO_SNAPSHOT_FOUND", "SNAPSHOT_DISABLED"})

AuditResourceType ==
  [AUDIT_LOG |-> "audit_log", CUSTOMER |-> "customer", PACKAGE |-> "package", ROUTE |-> "route",
   TRUCK |-> "truck", USER |-> "user", AUTHORIZATION |-> "authorization",
   WORLD_STATE |-> "world_state", FLEET |-> "fleet"]

AuthorizationOperation ==
  [PACKAGE_CREATE |-> "package.create", PACKAGE_VIEW |-> "package.view",
   PACKAGE_LIST |-> "package.list", PACKAGE_LIST_UNASSIGNED |-> "package.list_unassigned",
   PACKAGE_FIND_SUITABLE_ROUTES |-> "package.find_suitable_routes",
   PACKAGE_REMOVE |-> "package.remove", ROUTE_CREATE |-> "route.create",
   ROUTE_VIEW |-> "route.view", ROUTE_LIST |-> "route.list",
   ROUTE_LIST_IN_PROGRESS |-> "route.list_in_progress",
   ROUTE_FIND_SUITABLE_TRUCKS |-> "route.find_suitable_trucks",
   ROUTE_ASSIGN_TRUCK |-> "route.assign_truck", ROUTE_ASSIGN_PACKAGES |-> "route.assign_packages",
   ROUTE_REMOVE |-> "route.remove", TRUCK_LIST |-> "truck.list", CUSTOMER_LIST |-> "customer.list",
   USER_REGISTER |-> "user.register", USER_CHANGE_PASSWORD |-> "user.change_password",
   USER_RESET_PASSWORD |-> "user.reset_password", SESSION_END |-> "session.end",
   WORLD_STATE_EXPORT |-> "world_state.export", WORLD_STATE_IMPORT |-> "world_state.import",
   AUDIT_LOG_VIEW |-> "audit_log.view", FLEET_OVERVIEW_VIEW |-> "fleet_overview.view"]

Permission ==
  {"PACKAGE_CREATE", "PACKAGE_VIEW", "PACKAGE_VIEW_ALL", "PACKAGE_FIND_ROUTE_FOR",
   "PACKAGE_VIEW_UNASSIGNED", "PACKAGE_REMOVE", "ROUTE_CREATE", "ROUTE_VIEW_IN_PROGRESS",
   "ROUTE_VIEW", "ROUTE_VIEW_ALL", "ROUTE_FIND_TRUCK_FOR", "ROUTE_ASSIGN_TRUCK",
   "ROUTE_ASSIGN_PACKAGE", "ROUTE_REMOVE", "TRUCK_VIEW", "CUSTOMER_VIEW", "ADMIN_USER",
   "APP_SAVE_STATE", "APP_LOAD_STATE", "AUDIT_VIEW", "FLEET_OVERVIEW_VIEW", "AUTHENTICATED"}

Members ==
  DOMAIN ItemStatus \cup DOMAIN RouteStatus \cup DOMAIN TruckStatus \cup DOMAIN Role
    \cup DOMAIN PackageDetachmentReason \cup DOMAIN TruckReleaseReason
    \cup DOMAIN RoutePositionKind \cup DOMAIN RouteReconciliationReason
    \cup DOMAIN PackageReconciliationReason \cup DOMAIN TokenRevocationReason
    \cup DOMAIN UserLoginRejectionReason \cup DOMAIN UserPasswordChangeRejectionReason
    \cup DOMAIN UserPasswordResetRejectionReason \cup DOMAIN UserRegistrationRejectionReason
    \cup DOMAIN WorldStateCorruptionReason \cup DOMAIN WorldStateFailureReason
    \cup DOMAIN WorldStateStartupSkipReason \cup DOMAIN AuditResourceType
    \cup DOMAIN AuthorizationOperation \cup Permission

ItemStatuses == DOMAIN ItemStatus
RouteStatuses == DOMAIN RouteStatus
TruckStatuses == DOMAIN TruckStatus

-----------------------------------------------------------------------------
(* Customers and packages (domain/events/customer_events.py,               *)
(* package_events.py).                                                     *)

CustomerCreated == [version |-> 1, fields |-> [customer_id |-> Ids]]

PackageCreated ==
  [version |-> 2, fields |->
    [package_id |-> Ids, customer_id |-> Ids, start_location |-> Locations,
     end_location |-> Locations, weight |-> Tenths, initial_status |-> ItemStatuses,
     initial_location |-> Locations, expected_arrival |-> Optional(Times)]]

PackageRemoved ==
  [version |-> 2, fields |->
    [package_id |-> Ids, customer_id |-> Ids, previous_route_id |-> Optional(Ids),
     previous_status |-> ItemStatuses, previous_location |-> Locations,
     start_location |-> Locations, end_location |-> Locations, weight |-> Tenths,
     previous_expected_arrival |-> Optional(Times)]]

PackagePickedUp ==
  [version |-> 2, fields |->
    [package_id |-> Ids, route_id |-> Ids, previous_status |-> ItemStatuses,
     new_status |-> ItemStatuses, previous_location |-> Locations, new_location |-> Locations,
     scheduled_arrival |-> Optional(Times)]]

PackageDelivered ==
  [version |-> 2, fields |->
    [package_id |-> Ids, route_id |-> Ids, previous_status |-> ItemStatuses,
     new_status |-> ItemStatuses, previous_location |-> Locations, new_location |-> Locations,
     scheduled_arrival |-> Optional(Times)]]

-----------------------------------------------------------------------------
(* Routes and the trucks and packages bound to them                        *)
(* (domain/events/route_events.py).                                        *)

RouteCreated ==
  [version |-> 2, fields |->
    [route_id |-> Ids, locations |-> ListsOf(Locations), departure_time |-> Optional(Times),
     initial_status |-> RouteStatuses, expected_completion_time |-> Optional(Times)]]

RouteScheduled ==
  [version |-> 2, fields |->
    [route_id |-> Ids, previous_status |-> RouteStatuses, new_status |-> RouteStatuses,
     previous_departure_time |-> Optional(Times), new_departure_time |-> Times,
     previous_expected_completion_time |-> Optional(Times),
     new_expected_completion_time |-> Times]]

PackageAssignedToRoute ==
  [version |-> 2, fields |->
    [package_id |-> Ids, previous_route_id |-> Optional(Ids), new_route_id |-> Ids,
     previous_expected_arrival |-> Optional(Times), new_expected_arrival |-> Optional(Times)]]

PackageDetachedFromRoute ==
  [version |-> 2, fields |->
    [package_id |-> Ids, previous_route_id |-> Ids, new_route_id |-> Optional(Ids),
     previous_status |-> ItemStatuses, new_status |-> ItemStatuses,
     previous_location |-> Locations, new_location |-> Locations,
     previous_expected_arrival |-> Optional(Times), new_expected_arrival |-> Optional(Times),
     reason |-> DOMAIN PackageDetachmentReason]]

TruckAssignedToRoute ==
  [version |-> 2, fields |->
    [truck_id |-> Ids, previous_route_id |-> Optional(Ids), new_route_id |-> Ids,
     previous_status |-> TruckStatuses, new_status |-> TruckStatuses,
     previous_location |-> Locations, new_location |-> Locations,
     previous_busy_from |-> Optional(Times), new_busy_from |-> Optional(Times),
     previous_busy_until |-> Optional(Times), new_busy_until |-> Optional(Times)]]

TruckReleasedFromRoute ==
  [version |-> 2, fields |->
    [truck_id |-> Ids, previous_route_id |-> Ids, new_route_id |-> Optional(Ids),
     previous_status |-> TruckStatuses, new_status |-> TruckStatuses,
     previous_location |-> Locations, new_location |-> Locations,
     previous_busy_from |-> Optional(Times), new_busy_from |-> Optional(Times),
     previous_busy_until |-> Optional(Times), new_busy_until |-> Optional(Times),
     reason |-> DOMAIN TruckReleaseReason]]

RouteStarted ==
  [version |-> 2, fields |->
    [route_id |-> Ids, previous_status |-> RouteStatuses, new_status |-> RouteStatuses]]

RouteCompleted ==
  [version |-> 2, fields |->
    [route_id |-> Ids, previous_status |-> RouteStatuses, new_status |-> RouteStatuses,
     departure_time |-> Times, expected_completion_time |-> Times]]

RouteRemoved ==
  [version |-> 2, fields |->
    [route_id |-> Ids, previous_status |-> RouteStatuses,
     previous_locations |-> ListsOf(Locations), previous_departure_time |-> Optional(Times),
     previous_expected_completion_time |-> Optional(Times),
     detached_package_ids |-> ListsOf(Ids), released_truck_id |-> Optional(Ids)]]

-----------------------------------------------------------------------------
(* Users and authorization (application/events/auth_events.py).            *)

UserNamed == [user_id |-> Ids, username |-> Strings]

MaybeUserNamed == [user_id |-> Optional(Ids), username |-> Optional(Strings)]

UserRegistered == [version |-> 1, fields |-> UserNamed ++ [role |-> DOMAIN Role]]

UserRegistrationRejected ==
  [version |-> 1, fields |->
    [username |-> Optional(Strings), reason |-> DOMAIN UserRegistrationRejectionReason]]

UserPasswordChanged == [version |-> 1, fields |-> UserNamed]

UserPasswordChangeRejected ==
  [version |-> 1, fields |->
    MaybeUserNamed ++ [reason |-> DOMAIN UserPasswordChangeRejectionReason]]

UserPasswordReset == [version |-> 1, fields |-> UserNamed]

UserPasswordResetRejected ==
  [version |-> 1, fields |->
    MaybeUserNamed ++ [reason |-> DOMAIN UserPasswordResetRejectionReason]]

UserAuthenticated == [version |-> 1, fields |-> UserNamed ++ [role |-> DOMAIN Role]]

UserLoginRejected ==
  [version |-> 1, fields |-> MaybeUserNamed ++ [reason |-> DOMAIN UserLoginRejectionReason]]

UserSessionEnded == [version |-> 1, fields |-> UserNamed]

UserTokensRevoked ==
  [version |-> 1, fields |-> UserNamed ++ [reason |-> DOMAIN TokenRevocationReason]]

AuthorizationDenied ==
  [version |-> 2, fields |->
    [attempted_operation |-> DOMAIN AuthorizationOperation,
     target_resource_type |-> DOMAIN AuditResourceType,
     target_resource_id |-> Optional(Strings), required_permissions |-> BoundedSeq(Permission, PermissionBound)]]

-----------------------------------------------------------------------------
(* Reconciliation, startup and world state                                 *)
(* (application/events/reconciliation_events.py, startup_events.py,        *)
(* world_state_events.py).                                                 *)

RouteStateReconciled ==
  [version |-> 1, fields |->
    [route_id |-> Ids, previous_status |-> RouteStatuses, new_status |-> RouteStatuses,
     departure_time |-> Optional(Times), expected_completion_time |-> Optional(Times),
     reason |-> DOMAIN RouteReconciliationReason]]

\* The reasons __post_init__ accepts: at least one, and none twice.
UniqueReasons(reasons) == reasons # <<>> /\ IsInjective(reasons)

PackageStateReconciled ==
  [version |-> 1, fields |->
    [package_id |-> Ids, route_id |-> Optional(Ids), previous_status |-> ItemStatuses,
     new_status |-> ItemStatuses, previous_location |-> Locations, new_location |-> Locations,
     previous_expected_arrival |-> Optional(Times), new_expected_arrival |-> Optional(Times),
     scheduled_pickup_time |-> Optional(Times), scheduled_delivery_time |-> Optional(Times),
     reasons |-> {r \in ListsOf(DOMAIN PackageReconciliationReason) : UniqueReasons(r)}]]

TruckPositionReconciled ==
  [version |-> 1, fields |->
    [truck_id |-> Ids, route_id |-> Optional(Ids), previous_location |-> Optional(Locations),
     new_location |-> Optional(Locations), previous_in_transit_to |-> Optional(Locations),
     new_in_transit_to |-> Optional(Locations), position_kind |-> DOMAIN RoutePositionKind]]

TruckRouteReferenceReconciled ==
  [version |-> 1, fields |->
    [truck_id |-> Ids, previous_route_id |-> Optional(Ids), new_route_id |-> Ids]]

FleetSeeded ==
  [version |-> 2, fields |-> [seeded_truck_ids |-> ListsOf(Ids), backend |-> Strings]]

EntityCounts ==
  [customer_count |-> Counts, package_count |-> Counts, route_count |-> Counts,
   truck_count |-> Counts]

PreviousAndNewCounts ==
  [previous_customer_count |-> Counts, previous_package_count |-> Counts,
   previous_route_count |-> Counts, previous_truck_count |-> Counts,
   new_customer_count |-> Counts, new_package_count |-> Counts, new_route_count |-> Counts,
   new_truck_count |-> Counts]

SnapshotAt == [snapshot_path |-> Strings, schema_version |-> Ids]

SnapshotFailure ==
  [snapshot_path |-> Strings, schema_version |-> Optional(Ids),
   reason |-> DOMAIN WorldStateFailureReason]

WorldStateExported == [version |-> 1, fields |-> SnapshotAt ++ EntityCounts]

WorldStateExportFailed == [version |-> 1, fields |-> SnapshotFailure]

WorldStateImported == [version |-> 2, fields |-> SnapshotAt ++ PreviousAndNewCounts]

WorldStateImportFailed == [version |-> 1, fields |-> SnapshotFailure]

WorldStateCorruptionDetected ==
  [version |-> 1, fields |->
    [snapshot_path |-> Strings, reason |-> DOMAIN WorldStateCorruptionReason]]

WorldStateSnapshotQuarantined ==
  [version |-> 1, fields |->
    [original_path |-> Strings, quarantined_path |-> Strings,
     reason |-> DOMAIN WorldStateCorruptionReason]]

WorldStateRuntimeSwapped == [version |-> 2, fields |-> SnapshotAt ++ PreviousAndNewCounts]

WorldStateStartupRestored == [version |-> 2, fields |-> SnapshotAt ++ PreviousAndNewCounts]

WorldStateStartupRestoreSkipped ==
  [version |-> 1, fields |-> [reason |-> DOMAIN WorldStateStartupSkipReason]]

WorldStateStartupRestoreFailed == [version |-> 1, fields |-> SnapshotFailure]

WorldStateAdvanced ==
  [version |-> 2, fields |->
    [routes_updated |-> Counts, packages_updated |-> Counts, trucks_moved |-> Counts,
     trucks_released |-> Counts, trucks_reconciled |-> Counts]]

-----------------------------------------------------------------------------
(* The catalogue of every event class the program publishes.               *)

Catalogue ==
  [CustomerCreated |-> CustomerCreated, PackageCreated |-> PackageCreated,
   PackageRemoved |-> PackageRemoved, PackagePickedUp |-> PackagePickedUp,
   PackageDelivered |-> PackageDelivered, RouteCreated |-> RouteCreated,
   RouteScheduled |-> RouteScheduled, PackageAssignedToRoute |-> PackageAssignedToRoute,
   PackageDetachedFromRoute |-> PackageDetachedFromRoute,
   TruckAssignedToRoute |-> TruckAssignedToRoute,
   TruckReleasedFromRoute |-> TruckReleasedFromRoute, RouteStarted |-> RouteStarted,
   RouteCompleted |-> RouteCompleted, RouteRemoved |-> RouteRemoved,
   UserRegistered |-> UserRegistered, UserRegistrationRejected |-> UserRegistrationRejected,
   UserPasswordChanged |-> UserPasswordChanged,
   UserPasswordChangeRejected |-> UserPasswordChangeRejected,
   UserPasswordReset |-> UserPasswordReset,
   UserPasswordResetRejected |-> UserPasswordResetRejected,
   UserAuthenticated |-> UserAuthenticated, UserLoginRejected |-> UserLoginRejected,
   UserSessionEnded |-> UserSessionEnded, UserTokensRevoked |-> UserTokensRevoked,
   AuthorizationDenied |-> AuthorizationDenied, FleetSeeded |-> FleetSeeded,
   WorldStateExported |-> WorldStateExported, WorldStateExportFailed |-> WorldStateExportFailed,
   WorldStateImported |-> WorldStateImported, WorldStateImportFailed |-> WorldStateImportFailed,
   WorldStateCorruptionDetected |-> WorldStateCorruptionDetected,
   WorldStateSnapshotQuarantined |-> WorldStateSnapshotQuarantined,
   WorldStateRuntimeSwapped |-> WorldStateRuntimeSwapped,
   WorldStateStartupRestored |-> WorldStateStartupRestored,
   WorldStateStartupRestoreSkipped |-> WorldStateStartupRestoreSkipped,
   WorldStateStartupRestoreFailed |-> WorldStateStartupRestoreFailed,
   WorldStateAdvanced |-> WorldStateAdvanced, RouteStateReconciled |-> RouteStateReconciled,
   PackageStateReconciled |-> PackageStateReconciled,
   TruckPositionReconciled |-> TruckPositionReconciled,
   TruckRouteReferenceReconciled |-> TruckRouteReferenceReconciled]

\* None is none of the values an attribute can have, nor a list of them, nor
\* the name of one.
ASSUME NoneAssumption ==
  /\ None \notin Nat \cup Times \cup Strings \cup Members
  /\ None \notin Seq(Nat \cup Times \cup Strings \cup Members)
  /\ \A class \in DOMAIN Catalogue : None \notin DOMAIN Catalogue[class].fields

=============================================================================
