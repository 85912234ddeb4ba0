----------------------------- MODULE EventCodecs ----------------------------
(***************************************************************************)
(* The stored form of FleetFlow's events                                   *)
(* (src/src/application/eventing/outbox): one codec for each event class,  *)
(* the registry that finds the codec of an event or of a stored row, and   *)
(* the life of one event: recorded, encoded, perhaps altered while it is   *)
(* stored or written by another version of the program, and decoded.       *)
(*                                                                         *)
(* A JSON value is a pair <<type, content>>.  A codec is written as its    *)
(* table: under each payload key, how encode writes the attribute of that  *)
(* name and how decode checks and reads it back.                           *)
(***************************************************************************)
EXTENDS EventTypes

CONSTANT Unused       \* a key no payload has

\* An encoding or decoding that raised: neither a row nor an event.
Refused == [raised |-> TRUE]

ASSUME EventCodecsAssumption == None # Refused

-----------------------------------------------------------------------------
(* How an attribute is written and read (src/src/shared/validation.py,     *)
(* json_deserialization.py, json_serialization.py).                        *)

Json(type, content) == <<type, content>>
Null == Json("null", 0)
Text(s) == Json("str", <<"text", s>>)

\* `null` holds the null of JSON when decode takes it, `of` the items of a
\* list or the members of an enumeration.
Converter(how, of) == [how |-> how, null |-> {}, of |-> of]

PositiveInt == Converter("positive int", <<>>)
NonNegativeInt == Converter("non-negative int", <<>>)
Str == Converter("str", <<>>)
Location == Converter("location", <<>>)
NaiveTime == Converter("naive time", <<>>)
PositiveFloat == Converter("positive float", <<>>)
EnumValue(enum) == Converter("enum value", enum)
EnumName(names) == Converter("enum value", NamedAs(names))
ListOf(item) == Converter("list", item)
Nullable(conv) == [conv EXCEPT !.null = {Null}]

\* What encode writes for a value that is neither None nor a list.
Written(conv, v) ==
  CASE conv.how \in {"positive int", "non-negative int"} -> Json("int", v)
    [] conv.how = "positive float" -> Json("float", v)
    [] conv.how = "naive time" -> Json("str", <<"iso", v>>)
    [] conv.how = "enum value" -> Text(conv.of[v])
    [] OTHER -> Json("str", v)

\* require_int refuses a bool, which is an int in Python.
IsInt(j) == j[1] = "int"

\* require_finite_float takes ints as well as floats.
InTenths(j) == IF IsInt(j) THEN 10 * j[2] ELSE j[2]

\* The checks of decode on a value that is neither null nor a list.
Readable(conv, j) ==
  \/ conv.how = "positive int" /\ IsInt(j) /\ j[2] >= 1
  \/ conv.how = "non-negative int" /\ IsInt(j) /\ j[2] >= 0
  \/ conv.how = "positive float" /\ j[1] \in {"int", "float"} /\ j[2] > 0
  \/ conv.how = "str" /\ j[1] = "str"
  \/ conv.how = "location" /\ j[1] = "str" /\ Normal[j[2]] # Blank
  \/ conv.how = "naive time" /\ j[1] = "str" /\ j[2][1] = "iso"
  \/ conv.how = "enum value" /\ \E m \in DOMAIN conv.of : j = Text(conv.of[m])

\* What decode makes of a value that passed its checks.
ReadAs(conv, j) ==
  CASE conv.how \in {"positive int", "non-negative int", "str"} -> j[2]
    [] conv.how = "positive float" -> InTenths(j)
    [] conv.how = "location" -> Normal[j[2]]
    [] conv.how = "naive time" -> j[2][2]
    [] OTHER -> CHOOSE m \in DOMAIN conv.of : j = Text(conv.of[m])

EncodeField(conv, v) ==
  IF v = None THEN Null
  ELSE IF conv.how = "list"
       THEN Json("list", [i \in DOMAIN v |-> Written(conv.of, v[i])])
       ELSE Written(conv, v)

DecodableField(conv, j) ==
  \/ j \in conv.null
  \/ j[1] = "list" /\ conv.how = "list" /\ \A i \in DOMAIN j[2] : Readable(conv.of, j[2][i])
  \/ j[1] \notin {"null", "list"} /\ conv.how # "list" /\ Readable(conv, j)

DecodeField(conv, j) ==
  IF j = Null THEN None
  ELSE IF conv.how = "list"
       THEN [i \in DOMAIN j[2] |-> ReadAs(conv.of, j[2][i])]
       ELSE ReadAs(conv, j)

\* A codec: the class it serves, its identity in the store and its payload.
Codec(class, type, version, payload) ==
  [event_class |-> class, event_type |-> type, event_version |-> version, payload |-> payload]

-----------------------------------------------------------------------------
(* Customers and packages (codecs/customers.py, packages.py).              *)

CustomerCreatedCodec ==
  Codec("CustomerCreated", "customer_created", 1,
    [customer_id |-> PositiveInt])

PackageCreatedCodec ==
  Codec("PackageCreated", "package_created", 2,
    [package_id |-> PositiveInt, customer_id |-> PositiveInt,
     start_location |-> Location, end_location |-> Location, weight |-> PositiveFloat,
     initial_status |-> EnumValue(ItemStatus), initial_location |-> Location,
     expected_arrival |-> Nullable(NaiveTime)])

PackageRemovedCodec ==
  Codec("PackageRemoved", "package_removed", 2,
    [package_id |-> PositiveInt, customer_id |-> PositiveInt,
     previous_route_id |-> Nullable(PositiveInt),
     previous_status |-> EnumValue(ItemStatus), previous_location |-> Location,
     start_location |-> Location, end_location |-> Location, weight |-> PositiveFloat,
     previous_expected_arrival |-> Nullable(NaiveTime)])

PackagePickedUpCodec ==
  Codec("PackagePickedUp", "package_picked_up", 2,
    [package_id |-> PositiveInt, route_id |-> PositiveInt,
     previous_status |-> EnumValue(ItemStatus), new_status |-> EnumValue(ItemStatus),
     previous_location |-> Location, new_location |-> Location,
     scheduled_arrival |-> Nullable(NaiveTime)])

PackageDeliveredCodec ==
  Codec("PackageDelivered", "package_delivered", 2,
    [package_id |-> PositiveInt, route_id |-> PositiveInt,
     previous_status |-> EnumValue(ItemStatus), new_status |-> EnumValue(ItemStatus),
     previous_location |-> Location, new_location |-> Location,
     scheduled_arrival |-> Nullable(NaiveTime)])

-----------------------------------------------------------------------------
(* Routes (codecs/route_lifecycle.py, route_packages.py, route_trucks.py). *)

RouteCreatedCodec ==
  Codec("RouteCreated", "route_created", 2,
    [route_id |-> PositiveInt, locations |-> ListOf(Location),
     departure_time |-> Nullable(NaiveTime), initial_status |-> EnumValue(RouteStatus),
     expected_completion_time |-> Nullable(NaiveTime)])

RouteScheduledCodec ==
  Codec("RouteScheduled", "route_scheduled", 2,
    [route_id |-> PositiveInt, previous_status |-> EnumValue(RouteStatus),
     new_status |-> EnumValue(RouteStatus),
     previous_departure_time |-> Nullable(NaiveTime), new_departure_time |-> NaiveTime,
     previous_expected_completion_time |-> Nullable(NaiveTime),
     new_expected_completion_time |-> NaiveTime])

RouteStartedCodec ==
  Codec("RouteStarted", "route_started", 2,
    [route_id |-> PositiveInt, previous_status |-> EnumValue(RouteStatus),
     new_status |-> EnumValue(RouteStatus)])

RouteCompletedCodec ==
  Codec("RouteCompleted", "route_completed", 2,
    [route_id |-> PositiveInt, previous_status |-> EnumValue(RouteStatus),
     new_status |-> EnumValue(RouteStatus), departure_time |-> NaiveTime,
     expected_completion_time |-> NaiveTime])

RouteRemovedCodec ==
  Codec("RouteRemoved", "route_removed", 2,
    [route_id |-> PositiveInt, previous_status |-> EnumValue(RouteStatus),
     previous_locations |-> ListOf(Location),
     previous_departure_time |-> Nullable(NaiveTime),
     previous_expected_completion_time |-> Nullable(NaiveTime),
     detached_package_ids |-> ListOf(PositiveInt),
     released_truck_id |-> Nullable(PositiveInt)])

PackageAssignedToRouteCodec ==
  Codec("PackageAssignedToRoute", "package_assigned_to_route", 2,
    [package_id |-> PositiveInt, previous_route_id |-> Nullable(PositiveInt),
     new_route_id |-> PositiveInt, previous_expected_arrival |-> Nullable(NaiveTime),
     new_expected_arrival |-> Nullable(NaiveTime)])

PackageDetachedFromRouteCodec ==
  Codec("PackageDetachedFromRoute", "package_detached_from_route", 2,
    [package_id |-> PositiveInt, previous_route_id |-> PositiveInt,
     new_route_id |-> Nullable(PositiveInt), previous_status |-> EnumValue(ItemStatus),
     new_status |-> EnumValue(ItemStatus), previous_location |-> Location,
     new_location |-> Location, previous_expected_arrival |-> Nullable(NaiveTime),
     new_expected_arrival |-> Nullable(NaiveTime),
     reason |-> EnumValue(PackageDetachmentReason)])

TruckAssignedToRouteCodec ==
  Codec("TruckAssignedToRoute", "truck_assigned_to_route", 2,
    [truck_id |-> PositiveInt, previous_route_id |-> Nullable(PositiveInt),
     new_route_id |-> PositiveInt, previous_status |-> EnumValue(TruckStatus),
     new_status |-> EnumValue(TruckStatus), previous_location |-> Location,
     new_location |-> Location, previous_busy_from |-> Nullable(NaiveTime),
     new_busy_from |-> Nullable(NaiveTime),
     previous_busy_until |-> Nullable(NaiveTime),
     new_busy_until |-> Nullable(NaiveTime)])

TruckReleasedFromRouteCodec ==
  Codec("TruckReleasedFromRoute", "truck_released_from_route", 2,
    [truck_id |-> PositiveInt, previous_route_id |-> PositiveInt,
     new_route_id |-> Nullable(PositiveInt),
     previous_status |-> EnumValue(TruckStatus), new_status |-> EnumValue(TruckStatus),
     previous_location |-> Location, new_location |-> Location,
     previous_busy_from |-> Nullable(NaiveTime), new_busy_from |-> Nullable(NaiveTime),
     previous_busy_until |-> Nullable(NaiveTime),
     new_busy_until |-> Nullable(NaiveTime), reason |-> EnumValue(TruckReleaseReason)])

-----------------------------------------------------------------------------
(* Users and authorization (codecs/auth_*.py, authorization.py).           *)

UserRegisteredCodec ==
  Codec("UserRegistered", "user_registered", 1,
    [user_id |-> PositiveInt, username |-> Str, role |-> EnumValue(Role)])

UserRegistrationRejectedCodec ==
  Codec("UserRegistrationRejected", "user_registration_rejected", 1,
    [username |-> Nullable(Str),
     reason |-> EnumValue(UserRegistrationRejectionReason)])

UserPasswordChangedCodec ==
  Codec("UserPasswordChanged", "user_password_changed", 1,
    [user_id |-> PositiveInt, username |-> Str])

UserPasswordChangeRejectedCodec ==
  Codec("UserPasswordChangeRejected", "user_password_change_rejected", 1,
    [user_id |-> Nullable(PositiveInt), username |-> Nullable(Str),
     reason |-> EnumValue(UserPasswordChangeRejectionReason)])

UserPasswordResetCodec ==
  Codec("UserPasswordReset", "user_password_reset", 1,
    [user_id |-> PositiveInt, username |-> Str])

UserPasswordResetRejectedCodec ==
  Codec("UserPasswordResetRejected", "user_password_reset_rejected", 1,
    [user_id |-> Nullable(PositiveInt), username |-> Nullable(Str),
     reason |-> EnumValue(UserPasswordResetRejectionReason)])

UserAuthenticatedCodec ==
  Codec("UserAuthenticated", "user_authenticated", 1,
    [user_id |-> PositiveInt, username |-> Str, role |-> EnumValue(Role)])

UserLoginRejectedCodec ==
  Codec("UserLoginRejected", "user_login_rejected", 1,
    [user_id |-> Nullable(PositiveInt), username |-> Nullable(Str),
     reason |-> EnumValue(UserLoginRejectionReason)])

UserSessionEndedCodec ==
  Codec("UserSessionEnded", "user_session_ended", 1,
    [user_id |-> PositiveInt, username |-> Str])

UserTokensRevokedCodec ==
  Codec("UserTokensRevoked", "user_tokens_revoked", 1,
    [user_id |-> PositiveInt, username |-> Str,
     reason |-> EnumValue(TokenRevocationReason)])

AuthorizationDeniedCodec ==
  Codec("AuthorizationDenied", "authorization_denied", 2,
    [attempted_operation |-> EnumValue(AuthorizationOperation),
     target_resource_type |-> EnumValue(AuditResourceType),
     target_resource_id |-> Nullable(Str),
     required_permissions |-> ListOf(EnumName(Permission))])

-----------------------------------------------------------------------------
(* Reconciliation and startup (codecs/reconciliation.py, startup.py).      *)

RouteStateReconciledCodec ==
  Codec("RouteStateReconciled", "route_state_reconciled", 1,
    [route_id |-> PositiveInt, previous_status |-> EnumValue(RouteStatus),
     new_status |-> EnumValue(RouteStatus), departure_time |-> Nullable(NaiveTime),
     expected_completion_time |-> Nullable(NaiveTime),
     reason |-> EnumValue(RouteReconciliationReason)])

PackageStateReconciledCodec ==
  Codec("PackageStateReconciled", "package_state_reconciled", 1,
    [package_id |-> PositiveInt, route_id |-> Nullable(PositiveInt),
     previous_status |-> EnumValue(ItemStatus), new_status |-> EnumValue(ItemStatus),
     previous_location |-> Location, new_location |-> Location,
     previous_expected_arrival |-> Nullable(NaiveTime),
     new_expected_arrival |-> Nullable(NaiveTime),
     scheduled_pickup_time |-> Nullable(NaiveTime),
     scheduled_delivery_time |-> Nullable(NaiveTime),
     reasons |-> ListOf(EnumValue(PackageReconciliationReason))])

TruckPositionReconciledCodec ==
  Codec("TruckPositionReconciled", "truck_position_reconciled", 1,
    [truck_id |-> PositiveInt, route_id |-> Nullable(PositiveInt),
     previous_location |-> Nullable(Location), new_location |-> Nullable(Location),
     previous_in_transit_to |-> Nullable(Location),
     new_in_transit_to |-> Nullable(Location),
     position_kind |-> EnumValue(RoutePositionKind)])

TruckRouteReferenceReconciledCodec ==
  Codec("TruckRouteReferenceReconciled", "truck_route_reference_reconciled", 1,
    [truck_id |-> PositiveInt, previous_route_id |-> Nullable(PositiveInt),
     new_route_id |-> PositiveInt])

FleetSeededCodec ==
  Codec("FleetSeeded", "fleet_seeded", 2,
    [seeded_truck_ids |-> ListOf(PositiveInt), backend |-> Str])

-----------------------------------------------------------------------------
(* World state (codecs/world_state_*.py, entity_counts.py).                *)

\* The keys encode_entity_counts writes without a prefix, and under the
\* prefixes previous_ and new_.
EntityCountCodec == [k \in DOMAIN EntityCounts |-> NonNegativeInt]

PrefixedEntityCountCodec == [k \in DOMAIN PreviousAndNewCounts |-> NonNegativeInt]

WorldStateExportedCodec ==
  Codec("WorldStateExported", "world_state_exported", 1,
    [snapshot_path |-> Str, schema_version |-> PositiveInt] ++ EntityCountCodec)

WorldStateExportFailedCodec ==
  Codec("WorldStateExportFailed", "world_state_export_failed", 1,
    [snapshot_path |-> Str, schema_version |-> Nullable(PositiveInt),
     reason |-> EnumValue(WorldStateFailureReason)])

WorldStateImportedCodec ==
  Codec("WorldStateImported", "world_state_imported", 2,
    [snapshot_path |-> Str, schema_version |-> PositiveInt] ++
     PrefixedEntityCountCodec)

WorldStateImportFailedCodec ==
  Codec("WorldStateImportFailed", "world_state_import_failed", 1,
    [snapshot_path |-> Str, schema_version |-> Nullable(PositiveInt),
     reason |-> EnumValue(WorldStateFailureReason)])

WorldStateCorruptionDetectedCodec ==
  Codec("WorldStateCorruptionDetected", "world_state_corruption_detected", 1,
    [snapshot_path |-> Str, reason |-> EnumValue(WorldStateCorruptionReason)])

WorldStateSnapshotQuarantinedCodec ==
  Codec("WorldStateSnapshotQuarantined", "world_state_snapshot_quarantined", 1,
    [original_path |-> Str, quarantined_path |-> Str,
     reason |-> EnumValue(WorldStateCorruptionReason)])

WorldStateRuntimeSwappedCodec ==
  Codec("WorldStateRuntimeSwapped", "world_state_runtime_swapped", 2,
    [snapshot_path |-> Str, schema_version |-> PositiveInt] ++
     PrefixedEntityCountCodec)

WorldStateStartupRestoredCodec ==
  Codec("WorldStateStartupRestored", "world_state_startup_restored", 2,
    [snapshot_path |-> Str, schema_version |-> PositiveInt] ++
     PrefixedEntityCountCodec)

WorldStateStartupRestoreSkippedCodec ==
  Codec("WorldStateStartupRestoreSkipped", "world_state_startup_restore_skipped", 1,
    [reason |-> EnumValue(WorldStateStartupSkipReason)])

\* Mutant: the schema version of a file that could not be read is required.
StartupRestoreFailedNeedsVersion ==
  Codec("WorldStateStartupRestoreFailed", "world_state_startup_restore_failed", 1,
    [snapshot_path |-> Str, schema_version |-> PositiveInt,
     reason |-> EnumValue(WorldStateFailureReason)])

WorldStateStartupRestoreFailedCodec ==
  Codec("WorldStateStartupRestoreFailed", "world_state_startup_restore_failed", 1,
    [snapshot_path |-> Str, schema_version |-> Nullable(PositiveInt),
     reason |-> EnumValue(WorldStateFailureReason)])

WorldStateAdvancedCodec ==
  Codec("WorldStateAdvanced", "world_state_advanced", 2,
    [routes_updated |-> NonNegativeInt, packages_updated |-> NonNegativeInt,
     trucks_moved |-> NonNegativeInt, trucks_released |-> NonNegativeInt,
     trucks_reconciled |-> NonNegativeInt])

-----------------------------------------------------------------------------
(* The registry (registry.py) and the codecs registered at startup          *)
(* (composition/outbox_codecs.py).                                         *)

Codecs ==
  {CustomerCreatedCodec, PackageCreatedCodec, PackageRemovedCodec, PackagePickedUpCodec,
   PackageDeliveredCodec, RouteCreatedCodec, RouteScheduledCodec, RouteStartedCodec,
   RouteCompletedCodec, RouteRemovedCodec, PackageAssignedToRouteCodec,
   PackageDetachedFromRouteCodec, TruckAssignedToRouteCodec, TruckReleasedFromRouteCodec,
   UserRegisteredCodec, UserRegistrationRejectedCodec, UserPasswordChangedCodec,
   UserPasswordChangeRejectedCodec, UserPasswordResetCodec, UserPasswordResetRejectedCodec,
   UserAuthenticatedCodec, UserLoginRejectedCodec, UserSessionEndedCodec,
   UserTokensRevokedCodec, AuthorizationDeniedCodec, RouteStateReconciledCodec,
   PackageStateReconciledCodec, TruckPositionReconciledCodec,
   TruckRouteReferenceReconciledCodec, FleetSeededCodec, WorldStateExportedCodec,
   WorldStateExportFailedCodec, WorldStateImportedCodec, WorldStateImportFailedCodec,
   WorldStateCorruptionDetectedCodec, WorldStateSnapshotQuarantinedCodec,
   WorldStateRuntimeSwappedCodec, WorldStateStartupRestoredCodec,
   WorldStateStartupRestoreSkippedCodec, WorldStateStartupRestoreFailedCodec,
   WorldStateAdvancedCodec}

\* register refuses a codec whose version is not the one its class has now.
Registered == {c \in Codecs : c.event_version = Catalogue[c.event_class].version}

\* for_event finds a codec by the exact class.
ForEvent(e) == {c \in Registered : c.event_class = e.class}

\* Mutant: a row of any version is read by the codec of the newest one.
ForNewestIdentity(stored) == {c \in Registered : c.event_type = stored.event_type}

\* for_identity finds a decoder by exact type and version: no codec of an
\* older version is registered, and no other version stands in for one.
ForIdentity(stored) ==
  {c \in Registered :
    <<c.event_type, c.event_version>> = <<stored.event_type, stored.event_version>>}

\* What Event.__post_init__ and DecoderAdapter.decode accept as metadata.
SoundMetadata == [event_id |-> "uuid", occurred_at |-> "naive", recorded_at |-> "utc"]

\* The constructor of the decoded class: only PackageStateReconciled checks.
Constructible(class, data) ==
  class = "PackageStateReconciled" => UniqueReasons(data.reasons)

\* require_json_object_keys and the checks of each field.
DecodablePayload(codec, payload) ==
  /\ DOMAIN payload = DOMAIN codec.payload
  /\ \A k \in DOMAIN payload : DecodableField(codec.payload[k], payload[k])

DecodePayload(codec, payload) ==
  [k \in DOMAIN payload |-> DecodeField(codec.payload[k], payload[k])]

\* for_identity, then DecoderAdapter.decode.
Decode(stored) ==
  LET readers == {c \in ForIdentity(stored) : /\ stored.metadata = SoundMetadata
                                              /\ DecodablePayload(c, stored.payload)}
      made == {[class |-> c.event_class, data |-> DecodePayload(c, stored.payload)] : c \in readers}
      valid == {e \in made : Constructible(e.class, e.data)}
  IN  IF valid = {} THEN Refused ELSE CHOOSE e \in valid : TRUE

\* Mutant: encode is taken at its word, and a time is left a datetime.
EncodeUnchecked(e) ==
  LET written(conv, v) == IF conv.how = "naive time" /\ v # None
                          THEN Json("datetime", v) ELSE EncodeField(conv, v)
      rows == {[event_type |-> c.event_type, event_version |-> c.event_version,
                metadata |-> SoundMetadata,
                payload |-> [k \in DOMAIN c.payload |-> written(c.payload[k], e.data[k])]]
                 : c \in ForEvent(e)}
  IN  IF rows = {} THEN Refused ELSE CHOOSE stored \in rows : TRUE

\* for_event, then CodecAdapter.encode, which reads back what it wrote and
\* refuses an event that its own payload does not preserve.
Encode(e) ==
  LET rows == {[event_type |-> c.event_type, event_version |-> c.event_version,
                metadata |-> SoundMetadata,
                payload |-> [k \in DOMAIN c.payload |-> EncodeField(c.payload[k], e.data[k])]]
                 : c \in ForEvent(e)}
      kept == {stored \in rows : Decode(stored) = e}
  IN  IF kept = {} THEN Refused ELSE CHOOSE stored \in kept : TRUE

-----------------------------------------------------------------------------
(* The life of one event.                                                  *)

VARIABLES
  event,      \* the event recorded, None before that
  row,        \* what the store holds of it: None, a row, or Refused
  altered,    \* the row is no longer the one that was written
  read        \* what was read from the row: None, an event, or Refused

vars == <<event, row, altered, read>>

\* For each class an event with one fixed value for each attribute.
Exemplar ==
  [class \in DOMAIN Catalogue |->
    [f \in DOMAIN Catalogue[class].fields |-> CHOOSE v \in Catalogue[class].fields[f] : TRUE]]

\* The events explored (PairwiseBound): every pair of values of every pair of
\* attributes, the others as in the exemplar.
Explored(class) ==
  LET fields == Catalogue[class].fields
  IN  UNION {{[Exemplar[class] EXCEPT ![p[1]] = u, ![p[2]] = v]
                 : u \in fields[p[1]], v \in fields[p[2]]}
               : p \in (DOMAIN fields) \X (DOMAIN fields)}

Init == event = None /\ row = None /\ altered = FALSE /\ read = None

Record(class) ==
  /\ event = None
  /\ \E data \in Explored(class) : event' = [class |-> class, data |-> data]
  /\ UNCHANGED <<row, altered, read>>

Store ==
  /\ event # None /\ row = None
  /\ row' = Encode(event)
  /\ UNCHANGED <<event, altered, read>>

\* Rows altered in the store, or written by another version of the program.
\* Only rows of exemplar events are altered (AlterationBound).
Alterable ==
  /\ row \notin {None, Refused} /\ ~altered /\ read = None
  /\ event.data = Exemplar[event.class]

AlterRow(new) ==
  /\ Alterable
  /\ row' = new
  /\ altered' = TRUE
  /\ UNCHANGED <<event, read>>

DropKey(k) ==
  AlterRow([row EXCEPT !.payload = [j \in (DOMAIN row.payload) \ {k} |-> row.payload[j]]])

AddKey == AlterRow([row EXCEPT !.payload = row.payload ++ [k \in {Unused} |-> Null]])

Scalars ==
  {Null, Json("bool", 1)} \cup {Json("int", n) : n \in Ids \cup {-1, 0}}
    \cup {Json("float", w) : w \in Tenths \cup {0}} \cup {Json("str", s) : s \in Strings}

\* Lists of at most two items, of one or of two values (AlterationBound).
Samples == Scalars \cup {Json("list", <<>>)} \cup {Json("list", <<j>>) : j \in Scalars}
             \cup {Json("list", <<j, j>>) : j \in Scalars}

\* A list is no longer than those of the events explored.
Fitting(k, j) == j[1] = "list" => Len(j[2]) <= ItemBound(k)

SetValue(k, j) ==
  /\ row.payload[k] # j /\ Fitting(k, j)
  /\ AlterRow([row EXCEPT !.payload[k] = j])

RepeatItem(k) ==
  LET repeated == Json("list", row.payload[k][2] \o row.payload[k][2]) IN
  /\ row.payload[k][1] = "list" /\ row.payload[k][2] # <<>> /\ Fitting(k, repeated)
  /\ AlterRow([row EXCEPT !.payload[k] = repeated])

SetIdentity(type, version) ==
  /\ <<type, version>> # <<row.event_type, row.event_version>>
  /\ AlterRow([row EXCEPT !.event_type = type, !.event_version = version])

SetMetadata(m) == AlterRow([row EXCEPT !.metadata = m])

UnsoundMetadata ==
  {[SoundMetadata EXCEPT !.event_id = "text"], [SoundMetadata EXCEPT !.occurred_at = "aware"],
   [SoundMetadata EXCEPT !.recorded_at = "local"]}

Alter ==
  \/ Alterable /\ \E k \in DOMAIN row.payload : DropKey(k)
  \/ Alterable /\ AddKey
  \/ Alterable /\ \E k \in DOMAIN row.payload, j \in Samples : SetValue(k, j)
  \/ Alterable /\ \E k \in DOMAIN row.payload : RepeatItem(k)
  \/ Alterable /\ \E c \in Codecs, v \in 1 .. 3 : SetIdentity(c.event_type, v)
  \/ Alterable /\ \E m \in UnsoundMetadata : SetMetadata(m)

Read ==
  /\ row \notin {None, Refused} /\ read = None
  /\ read' = Decode(row)
  /\ UNCHANGED <<event, row, altered>>

Next ==
  \/ \E class \in DOMAIN Catalogue : Record(class)
  \/ Store
  \/ Alter
  \/ Read

Spec == Init /\ [][Next]_vars

-----------------------------------------------------------------------------
(* Properties                                                              *)

EventOf(class, data) ==
  /\ class \in DOMAIN Catalogue
  /\ DOMAIN data = DOMAIN Catalogue[class].fields
  /\ \A f \in DOMAIN data : data[f] \in Catalogue[class].fields[f]

IsJson(j) ==
  \/ j \in Scalars
  \/ j[1] = "str" /\ j[2][1] = "text"
  \/ j[1] = "list" /\ \A i \in DOMAIN j[2] : j[2][i][1] \in {"null", "bool", "int", "float", "str"}

\* The recorded event is one its class can hold, and a stored payload holds
\* only JSON values: what encode returns passes require_json_object.
CodecTypeOK ==
  /\ event # None => EventOf(event.class, event.data)
  /\ row \notin {None, Refused} => \A k \in DOMAIN row.payload : IsJson(row.payload[k])
  /\ altered \in BOOLEAN
  /\ row = None => read = None

\* Every event of every class the program publishes can be stored, and a row
\* that nobody altered is read back as the very event it was written for:
\* no codec is missing or stricter than its class, encode and decode agree on
\* every attribute, and the registry leads each row to its own class.
StoredEventReadsBack ==
  /\ row # Refused
  /\ ~altered /\ read # None => read = event

\* Whatever row the store returns, altered or written by another version,
\* decoding either refuses it or yields an event of the class whose current
\* identity the row carries, with sound metadata and attributes its class can
\* hold: no older contract is read as the current one, and no value of the
\* wrong type (a bool for an id, a local time for a business time, a repeated
\* reason) reaches an event.
ReadIsSound ==
  read \notin {None, Refused} =>
    /\ EventOf(read.class, read.data)
    /\ row.metadata = SoundMetadata
    /\ \E c \in Codecs :
         /\ c.event_class = read.class
         /\ <<c.event_type, c.event_version>> = <<row.event_type, row.event_version>>
    /\ Catalogue[read.class].version = row.event_version
    /\ DOMAIN row.payload = DOMAIN read.data

=============================================================================
