---------------------------- MODULE AuditMapping ----------------------------
(***************************************************************************)
(* What the audit log says of each event                                   *)
(* (src/src/application/services/audit_mapping): for every event class the *)
(* audited resource, the action and the payload, the draft that            *)
(* AuditEventHandler makes of an event, and the targets an authorization   *)
(* denial can name.                                                        *)
(*                                                                         *)
(* A payload is the table of its keys, each with how the attribute of that *)
(* name is shown; the two that repeat the event's own time are left out.   *)
(***************************************************************************)
EXTENDS EventTypes

-----------------------------------------------------------------------------
(* How an attribute is shown (shared/json_serialization.py).               *)

Entry(how, enum) == [how |-> how, enum |-> enum]

Shown(keys, how, enum) == [k \in keys |-> Entry(how, enum)]

AsId(keys) == Shown(keys, "id", <<>>)
AsTime(keys) == Shown(keys, "time", <<>>)
As(keys) == Shown(keys, "as it is", <<>>)
AsIds(keys) == Shown(keys, "ids", <<>>)
AsValue(keys, enum) == Shown(keys, "value", enum)
AsValues(keys, enum) == Shown(keys, "values", enum)

\* str(id), isoformat(), the value of an enumeration's member; null for None.
Show(entry, v) ==
  IF v = None THEN <<"null", 0>>
  ELSE CASE entry.how = "id" -> <<"str", <<"id", v>>>>
         [] entry.how = "time" -> <<"str", <<"iso", v>>>>
         [] entry.how = "value" -> <<"str", <<"text", entry.enum[v]>>>>
         [] entry.how = "ids" -> <<"list", [i \in DOMAIN v |-> <<"id", v[i]>>]>>
         [] entry.how = "values" -> <<"list", [i \in DOMAIN v |-> <<"text", entry.enum[v[i]]>>]>>
         [] entry.how = "as it is" -> <<"plain", v>>

Actions ==
  {"advanced", "assigned_to_route", "assigned_to_truck", "authenticated",
   "authorization_denied", "completed", "corruption_detected", "created", "delivered",
   "detached_from_route", "export_failed", "exported", "import_failed", "imported",
   "login_rejected", "password_change_rejected", "password_changed", "password_reset",
   "password_reset_rejected", "picked_up", "reconciled", "registered",
   "registration_rejected", "released_truck", "removed", "runtime_swapped", "scheduled",
   "seeded", "session_ended", "snapshot_quarantined", "started", "startup_restore_failed",
   "startup_restore_skipped", "startup_restored", "tokens_revoked"}

\* `resource` names the attribute that holds the resource's id, if any.
Descriptor(resource_type, resource, action, payload) ==
  [resource_type |-> resource_type, resource |-> resource, action |-> action,
   payload |-> payload]

-----------------------------------------------------------------------------
(* Customers and packages (audit_mapping/customers.py, packages.py).       *)

PackageProgress ==
  AsId({"package_id", "route_id"}) ++ As({"previous_location", "new_location"})
    ++ AsValue({"previous_status", "new_status"}, ItemStatus) ++ AsTime({"scheduled_arrival"})

MapCustomerCreated == Descriptor("CUSTOMER", "customer_id", "created", AsId({"customer_id"}))

MapPackageCreated ==
  Descriptor("PACKAGE", "package_id", "created",
    AsId({"package_id", "customer_id"})
      ++ As({"start_location", "end_location", "weight", "initial_location"})
      ++ AsValue({"initial_status"}, ItemStatus) ++ AsTime({"expected_arrival"}))

MapPackageRemoved ==
  Descriptor("PACKAGE", "package_id", "removed",
    AsId({"package_id", "customer_id", "previous_route_id"})
      ++ As({"previous_location", "start_location", "end_location", "weight"})
      ++ AsValue({"previous_status"}, ItemStatus) ++ AsTime({"previous_expected_arrival"}))

MapPackagePickedUp == Descriptor("PACKAGE", "package_id", "picked_up", PackageProgress)

MapPackageDelivered == Descriptor("PACKAGE", "package_id", "delivered", PackageProgress)

-----------------------------------------------------------------------------
(* Routes (audit_mapping/routes.py).                                       *)

TruckBinding ==
  AsId({"truck_id", "previous_route_id", "new_route_id"})
    ++ As({"previous_location", "new_location"})
    ++ AsValue({"previous_status", "new_status"}, TruckStatus)
    ++ AsTime({"previous_busy_from", "new_busy_from", "previous_busy_until", "new_busy_until"})

MapRouteCreated ==
  Descriptor("ROUTE", "route_id", "created",
    AsId({"route_id"}) ++ As({"locations"}) ++ AsValue({"initial_status"}, RouteStatus)
      ++ AsTime({"departure_time", "expected_completion_time"}))

MapRouteScheduled ==
  Descriptor("ROUTE", "route_id", "scheduled",
    AsId({"route_id"}) ++ AsValue({"previous_status", "new_status"}, RouteStatus)
      ++ AsTime({"previous_departure_time", "new_departure_time",
               "previous_expected_completion_time", "new_expected_completion_time"}))

MapPackageAssignedToRoute ==
  Descriptor("ROUTE", "new_route_id", "assigned_to_route",
    AsId({"package_id", "previous_route_id", "new_route_id"})
      ++ AsTime({"previous_expected_arrival", "new_expected_arrival"}))

\* map_package_detached_from_route without the reason.
MapDetachedWithoutReason ==
  Descriptor("ROUTE", "previous_route_id", "detached_from_route",
    AsId({"package_id", "previous_route_id", "new_route_id"})
      ++ As({"previous_location", "new_location"})
      ++ AsValue({"previous_status", "new_status"}, ItemStatus)
      ++ AsTime({"previous_expected_arrival", "new_expected_arrival"}))

MapPackageDetachedFromRoute ==
  Descriptor("ROUTE", "previous_route_id", "detached_from_route",
    AsId({"package_id", "previous_route_id", "new_route_id"})
      ++ As({"previous_location", "new_location"})
      ++ AsValue({"previous_status", "new_status"}, ItemStatus)
      ++ AsValue({"reason"}, PackageDetachmentReason)
      ++ AsTime({"previous_expected_arrival", "new_expected_arrival"}))

MapTruckAssignedToRoute ==
  Descriptor("ROUTE", "new_route_id", "assigned_to_truck",
    TruckBinding)

MapTruckReleasedFromRoute ==
  Descriptor("ROUTE", "previous_route_id", "released_truck",
    TruckBinding ++ AsValue({"reason"}, TruckReleaseReason))

MapRouteStarted ==
  Descriptor("ROUTE", "route_id", "started",
    AsId({"route_id"}) ++ AsValue({"previous_status", "new_status"}, RouteStatus))

MapRouteCompleted ==
  Descriptor("ROUTE", "route_id", "completed",
    AsId({"route_id"}) ++ AsValue({"previous_status", "new_status"}, RouteStatus)
      ++ AsTime({"departure_time", "expected_completion_time"}))

MapRouteRemoved ==
  Descriptor("ROUTE", "route_id", "removed",
    AsId({"route_id", "released_truck_id"}) ++ AsValue({"previous_status"}, RouteStatus)
      ++ As({"previous_locations"}) ++ AsIds({"detached_package_ids"})
      ++ AsTime({"previous_expected_completion_time"}))

-----------------------------------------------------------------------------
(* Users and authorization (audit_mapping/auth.py).                        *)

UserIdentity == AsId({"user_id"}) ++ As({"username"})

MapUserRegistered ==
  Descriptor("USER", "user_id", "registered",
    UserIdentity ++ AsValue({"role"}, Role))

MapUserRegistrationRejected ==
  Descriptor("USER", None, "registration_rejected",
    As({"username"}) ++ AsValue({"reason"}, UserRegistrationRejectionReason))

MapUserPasswordChanged == Descriptor("USER", "user_id", "password_changed", UserIdentity)

MapUserPasswordChangeRejected ==
  Descriptor("USER", "user_id", "password_change_rejected",
    UserIdentity ++ AsValue({"reason"}, UserPasswordChangeRejectionReason))

MapUserPasswordReset == Descriptor("USER", "user_id", "password_reset", UserIdentity)

MapUserPasswordResetRejected ==
  Descriptor("USER", "user_id", "password_reset_rejected",
    UserIdentity ++ AsValue({"reason"}, UserPasswordResetRejectionReason))

MapUserAuthenticated ==
  Descriptor("USER", "user_id", "authenticated",
    UserIdentity ++ AsValue({"role"}, Role))

MapUserLoginRejected ==
  Descriptor("USER", "user_id", "login_rejected",
    UserIdentity ++ AsValue({"reason"}, UserLoginRejectionReason))

MapUserSessionEnded == Descriptor("USER", "user_id", "session_ended", UserIdentity)

MapUserTokensRevoked ==
  Descriptor("USER", "user_id", "tokens_revoked",
    UserIdentity ++ AsValue({"reason"}, TokenRevocationReason))

\* The resource type is the one the denial names, not AUTHORIZATION (see Draft).
MapAuthorizationDenied ==
  Descriptor("AUTHORIZATION", "target_resource_id", "authorization_denied",
    AsValue({"attempted_operation"}, AuthorizationOperation) ++ As({"required_permissions"}))

-----------------------------------------------------------------------------
(* Reconciliation, startup and world state                                 *)
(* (audit_mapping/reconciliation.py, startup.py, world_state.py).          *)

MapRouteStateReconciled ==
  Descriptor("ROUTE", "route_id", "reconciled",
    AsId({"route_id"}) ++ AsValue({"previous_status", "new_status"}, RouteStatus)
      ++ AsTime({"departure_time", "expected_completion_time"})
      ++ AsValue({"reason"}, RouteReconciliationReason))

MapPackageStateReconciled ==
  Descriptor("PACKAGE", "package_id", "reconciled",
    AsId({"package_id", "route_id"})
      ++ AsValue({"previous_status", "new_status"}, ItemStatus)
      ++ As({"previous_location", "new_location"})
      ++ AsTime({"previous_expected_arrival", "new_expected_arrival",
               "scheduled_pickup_time", "scheduled_delivery_time"})
      ++ AsValues({"reasons"}, PackageReconciliationReason))

MapTruckPositionReconciled ==
  Descriptor("TRUCK", "truck_id", "reconciled",
    AsId({"truck_id", "route_id"})
      ++ As({"previous_location", "new_location", "previous_in_transit_to", "new_in_transit_to"})
      ++ AsValue({"position_kind"}, RoutePositionKind))

MapTruckRouteReferenceReconciled ==
  Descriptor("TRUCK", "truck_id", "reconciled",
    AsId({"truck_id", "previous_route_id", "new_route_id"}))

MapFleetSeeded == Descriptor("FLEET", None, "seeded", As({"seeded_truck_ids", "backend"}))

WorldStateDescriptor(action, payload) == Descriptor("WORLD_STATE", None, action, payload)

SnapshotShown == As(DOMAIN SnapshotAt)

FailureShown == SnapshotShown ++ AsValue({"reason"}, WorldStateFailureReason)

MapWorldStateExported ==
  WorldStateDescriptor("exported",
    SnapshotShown ++ As(DOMAIN EntityCounts))

MapWorldStateExportFailed == WorldStateDescriptor("export_failed", FailureShown)

MapWorldStateImported ==
  WorldStateDescriptor("imported",
    SnapshotShown ++ As(DOMAIN PreviousAndNewCounts))

MapWorldStateImportFailed == WorldStateDescriptor("import_failed", FailureShown)

MapWorldStateCorruptionDetected ==
  WorldStateDescriptor("corruption_detected",
    As({"snapshot_path"}) ++ AsValue({"reason"}, WorldStateCorruptionReason))

MapWorldStateSnapshotQuarantined ==
  WorldStateDescriptor("snapshot_quarantined",
    As({"original_path", "quarantined_path"})
      ++ AsValue({"reason"}, WorldStateCorruptionReason))

MapWorldStateRuntimeSwapped ==
  WorldStateDescriptor("runtime_swapped",
    SnapshotShown ++ As(DOMAIN PreviousAndNewCounts))

MapWorldStateStartupRestored ==
  WorldStateDescriptor("startup_restored",
    SnapshotShown ++ As(DOMAIN PreviousAndNewCounts))

MapWorldStateStartupRestoreSkipped ==
  WorldStateDescriptor("startup_restore_skipped",
    AsValue({"reason"}, WorldStateStartupSkipReason))

MapWorldStateStartupRestoreFailed ==
  WorldStateDescriptor("startup_restore_failed",
    FailureShown)

MapWorldStateAdvanced ==
  WorldStateDescriptor("advanced",
    As({"routes_updated", "packages_updated", "trucks_moved", "trucks_released",
           "trucks_reconciled"}))

-----------------------------------------------------------------------------
(* The registry, and the draft the audit handler makes of an event.        *)

AuditMappings ==
  [CustomerCreated |-> MapCustomerCreated, PackageCreated |-> MapPackageCreated,
   PackageRemoved |-> MapPackageRemoved, PackagePickedUp |-> MapPackagePickedUp,
   PackageDelivered |-> MapPackageDelivered, RouteCreated |-> MapRouteCreated,
   RouteScheduled |-> MapRouteScheduled, PackageAssignedToRoute |->
   MapPackageAssignedToRoute, PackageDetachedFromRoute |-> MapPackageDetachedFromRoute,
   TruckAssignedToRoute |-> MapTruckAssignedToRoute, TruckReleasedFromRoute |->
   MapTruckReleasedFromRoute, RouteStarted |-> MapRouteStarted, RouteCompleted |->
   MapRouteCompleted, RouteRemoved |-> MapRouteRemoved, UserRegistered |->
   MapUserRegistered, UserRegistrationRejected |-> MapUserRegistrationRejected,
   UserPasswordChanged |-> MapUserPasswordChanged, UserPasswordChangeRejected |->
   MapUserPasswordChangeRejected, UserPasswordReset |-> MapUserPasswordReset,
   UserPasswordResetRejected |-> MapUserPasswordResetRejected, UserAuthenticated |->
   MapUserAuthenticated, UserLoginRejected |-> MapUserLoginRejected, UserSessionEnded |->
   MapUserSessionEnded, UserTokensRevoked |-> MapUserTokensRevoked, AuthorizationDenied
   |-> MapAuthorizationDenied, RouteStateReconciled |-> MapRouteStateReconciled,
   PackageStateReconciled |-> MapPackageStateReconciled, TruckPositionReconciled |->
   MapTruckPositionReconciled, TruckRouteReferenceReconciled |->
   MapTruckRouteReferenceReconciled, FleetSeeded |-> MapFleetSeeded, WorldStateExported
   |-> MapWorldStateExported, WorldStateExportFailed |-> MapWorldStateExportFailed,
   WorldStateImported |-> MapWorldStateImported, WorldStateImportFailed |->
   MapWorldStateImportFailed, WorldStateCorruptionDetected |->
   MapWorldStateCorruptionDetected, WorldStateSnapshotQuarantined |->
   MapWorldStateSnapshotQuarantined, WorldStateRuntimeSwapped |->
   MapWorldStateRuntimeSwapped, WorldStateStartupRestored |->
   MapWorldStateStartupRestored, WorldStateStartupRestoreSkipped |->
   MapWorldStateStartupRestoreSkipped, WorldStateStartupRestoreFailed |->
   MapWorldStateStartupRestoreFailed, WorldStateAdvanced |-> MapWorldStateAdvanced]

\* What ResolvedTarget would be without its `or None`.
StrippedTarget(s) == Normal[s]

\* What the target resolvers make of the text of a request (a user name, a
\* snapshot path): the stripped text, or None when nothing is left of it.
ResolvedTarget(s) == IF Normal[s] = Blank THEN None ELSE Normal[s]

\* The targets a recorded denial can name: an id, nothing, or a resolved text.
DenialTargetsNamed ==
  {None} \cup {<<"id", i>> : i \in Ids} \cup {ResolvedTarget(s) : s \in Strings}

\* The content of the draft for an event: what its descriptor says of it.
Draft(class, data) ==
  LET d == AuditMappings[class] IN
    [event_type |-> class,
     resource_type |->
       AuditResourceType[IF class = "AuthorizationDenied" THEN data.target_resource_type
                         ELSE d.resource_type],
     resource_id |->
       IF d.resource = None \/ data[d.resource] = None THEN None
       ELSE IF class = "AuthorizationDenied" THEN data.target_resource_id
       ELSE <<"id", data[d.resource]>>,
     action |-> d.action,
     payload |-> [k \in DOMAIN d.payload |-> Show(d.payload[k], data[k])]]

\* AuditRecordDraft accepts it: a resource id is absent or not blank.
DraftAccepted(draft) ==
  /\ draft.resource_id # Blank
  /\ draft.resource_type \in {AuditResourceType[t] : t \in DOMAIN AuditResourceType}
  /\ draft.action \in Actions

=============================================================================
