------------------------ MODULE PublishedEventsProofs ------------------------
(***************************************************************************)
(* What the program keeps of an event, in the store and in the audit log,   *)
(* for all ids, times, texts and lengths of lists: every event is stored    *)
(* and read back, no other row of the store is taken for an event its       *)
(* class cannot hold, and the audit log takes every event and tells it.     *)
(*                                                                          *)
(* The argument goes by tables.  A converter fits the values of an          *)
(* attribute (FieldFits) when it is the one written for values of that      *)
(* kind, and an audit entry shows them (FieldShown) when it tells them      *)
(* apart; what follows from either is proved once.  The 41 lemmas on the    *)
(* classes then compare each codec and each audit mapping with its class,   *)
(* attribute by attribute.                                                  *)
(*                                                                          *)
(* ReadIsSound needs more than the type of a row: an altered value must     *)
(* not be a text outside Strings where a free text is expected.  That is    *)
(* what AdmissibleAt says of each key, and RowInv of the stored row.        *)
(***************************************************************************)
EXTENDS PublishedEvents, FunctionTheorems, FiniteSetTheorems, SequenceTheorems, TLAPS

-----------------------------------------------------------------------------
(* The enumerations.                                                        *)


\* An enumeration, as a function from its members to values of their own.
IsEnum(enum) ==
  /\ DOMAIN enum \subseteq Members /\ DOMAIN enum # {}
  /\ \A m, n \in DOMAIN enum : enum[m] = enum[n] => m = n

\* No two members have the same value: a stored or shown value names its member.
LEMMA Enumerations ==
  /\ IsEnum(AuditResourceType)
  /\ IsEnum(AuthorizationOperation)
  /\ IsEnum(ItemStatus)
  /\ IsEnum(PackageDetachmentReason)
  /\ IsEnum(PackageReconciliationReason)
  /\ IsEnum(Role)
  /\ IsEnum(RoutePositionKind)
  /\ IsEnum(RouteReconciliationReason)
  /\ IsEnum(RouteStatus)
  /\ IsEnum(TokenRevocationReason)
  /\ IsEnum(TruckReleaseReason)
  /\ IsEnum(TruckStatus)
  /\ IsEnum(UserLoginRejectionReason)
  /\ IsEnum(UserPasswordChangeRejectionReason)
  /\ IsEnum(UserPasswordResetRejectionReason)
  /\ IsEnum(UserRegistrationRejectionReason)
  /\ IsEnum(WorldStateCorruptionReason)
  /\ IsEnum(WorldStateFailureReason)
  /\ IsEnum(WorldStateStartupSkipReason)
  /\ IsEnum(NamedAs(Permission))
<1>1. IsEnum(ItemStatus)
  <2>1. \A m \in DOMAIN ItemStatus : m \in {"TODO", "IN_PROGRESS", "DONE"}
    BY DEF ItemStatus
  <2>2. /\ ItemStatus["TODO"] = "To Do" /\ ItemStatus["DONE"] = "Done"
        /\ ItemStatus["IN_PROGRESS"] = "In Progress"
    BY DEF ItemStatus
  <2>3. \A m, n \in DOMAIN ItemStatus : ItemStatus[m] = ItemStatus[n] => m = n
    BY <2>1, <2>2
  <2>4. DOMAIN ItemStatus # {}
    BY DEF ItemStatus
  <2> QED BY <2>3, <2>4 DEF IsEnum, Members
<1>2. IsEnum(TruckStatus)
  <2>1. \A m \in DOMAIN TruckStatus : m \in {"FREE", "ON_THE_WAY"}
    BY DEF TruckStatus
  <2>2. TruckStatus["FREE"] = "Free" /\ TruckStatus["ON_THE_WAY"] = "On the way"
    BY DEF TruckStatus
  <2>3. \A m, n \in DOMAIN TruckStatus : TruckStatus[m] = TruckStatus[n] => m = n
    BY <2>1, <2>2
  <2>4. DOMAIN TruckStatus # {}
    BY DEF TruckStatus
  <2> QED BY <2>3, <2>4 DEF IsEnum, Members
<1>3. ASSUME NEW names, names \subseteq Members, names # {} PROVE IsEnum(NamedAs(names))
  BY <1>3 DEF IsEnum, NamedAs
<1>4. IsEnum(NamedAs(Permission))
  <2>1. Permission \subseteq Members
    BY DEF Members
  <2>2. Permission # {}
    BY DEF Permission
  <2> QED BY <1>3, <2>1, <2>2
<1>5. IsEnum(AuditResourceType)
  <2>1. DOMAIN AuditResourceType \subseteq Members
    BY DEF Members
  <2>2. \A m, n \in DOMAIN AuditResourceType : AuditResourceType[m] = AuditResourceType[n] => m = n
    BY DEF AuditResourceType
  <2>3. DOMAIN AuditResourceType # {}
    BY DEF AuditResourceType
  <2> QED BY <2>1, <2>2, <2>3 DEF IsEnum
<1>6. IsEnum(AuthorizationOperation)
  <2>1. DOMAIN AuthorizationOperation \subseteq Members
    BY DEF Members
  <2>2. \A m, n \in DOMAIN AuthorizationOperation : AuthorizationOperation[m] = AuthorizationOperation[n] => m = n
    BY DEF AuthorizationOperation
  <2>3. DOMAIN AuthorizationOperation # {}
    BY DEF AuthorizationOperation
  <2> QED BY <2>1, <2>2, <2>3 DEF IsEnum
<1>7. IsEnum(PackageDetachmentReason)
  <2>1. DOMAIN PackageDetachmentReason \subseteq Members
    BY DEF Members
  <2>2. \A m \in DOMAIN PackageDetachmentReason : PackageDetachmentReason[m] = m
    BY DEF PackageDetachmentReason, NamedAs
  <2>3. DOMAIN PackageDetachmentReason # {}
    BY DEF PackageDetachmentReason, NamedAs
  <2> QED BY <2>1, <2>2, <2>3 DEF IsEnum
<1>8. IsEnum(PackageReconciliationReason)
  <2>1. DOMAIN PackageReconciliationReason \subseteq Members
    BY DEF Members
  <2>2. \A m, n \in DOMAIN PackageReconciliationReason : PackageReconciliationReason[m] = PackageReconciliationReason[n] => m = n
    BY DEF PackageReconciliationReason
  <2>3. DOMAIN PackageReconciliationReason # {}
    BY DEF PackageReconciliationReason
  <2> QED BY <2>1, <2>2, <2>3 DEF IsEnum
<1>9. IsEnum(Role)
  <2>1. DOMAIN Role \subseteq Members
    BY DEF Members
  <2>2. \A m \in DOMAIN Role : Role[m] = m
    BY DEF Role, NamedAs
  <2>3. DOMAIN Role # {}
    BY DEF Role, NamedAs
  <2> QED BY <2>1, <2>2, <2>3 DEF IsEnum
<1>10. IsEnum(RoutePositionKind)
  <2>1. DOMAIN RoutePositionKind \subseteq Members
    BY DEF Members
  <2>2. \A m \in DOMAIN RoutePositionKind : RoutePositionKind[m] = m
    BY DEF RoutePositionKind, NamedAs
  <2>3. DOMAIN RoutePositionKind # {}
    BY DEF RoutePositionKind, NamedAs
  <2> QED BY <2>1, <2>2, <2>3 DEF IsEnum
<1>11. IsEnum(RouteReconciliationReason)
  <2>1. DOMAIN RouteReconciliationReason \subseteq Members
    BY DEF Members
  <2>2. \A m, n \in DOMAIN RouteReconciliationReason : RouteReconciliationReason[m] = RouteReconciliationReason[n] => m = n
    BY DEF RouteReconciliationReason
  <2>3. DOMAIN RouteReconciliationReason # {}
    BY DEF RouteReconciliationReason
  <2> QED BY <2>1, <2>2, <2>3 DEF IsEnum
<1>12. IsEnum(RouteStatus)
  <2>1. DOMAIN RouteStatus \subseteq Members
    BY DEF Members
  <2>2. \A m \in DOMAIN RouteStatus : RouteStatus[m] = m
    BY DEF RouteStatus, NamedAs
  <2>3. DOMAIN RouteStatus # {}
    BY DEF RouteStatus, NamedAs
  <2> QED BY <2>1, <2>2, <2>3 DEF IsEnum
<1>13. IsEnum(TokenRevocationReason)
  <2>1. DOMAIN TokenRevocationReason \subseteq Members
    BY DEF Members
  <2>2. \A m \in DOMAIN TokenRevocationReason : TokenRevocationReason[m] = m
    BY DEF TokenRevocationReason, NamedAs
  <2>3. DOMAIN TokenRevocationReason # {}
    BY DEF TokenRevocationReason, NamedAs
  <2> QED BY <2>1, <2>2, <2>3 DEF IsEnum
<1>14. IsEnum(TruckReleaseReason)
  <2>1. DOMAIN TruckReleaseReason \subseteq Members
    BY DEF Members
  <2>2. \A m \in DOMAIN TruckReleaseReason : TruckReleaseReason[m] = m
    BY DEF TruckReleaseReason, NamedAs
  <2>3. DOMAIN TruckReleaseReason # {}
    BY DEF TruckReleaseReason, NamedAs
  <2> QED BY <2>1, <2>2, <2>3 DEF IsEnum
<1>15. IsEnum(UserLoginRejectionReason)
  <2>1. DOMAIN UserLoginRejectionReason \subseteq Members
    BY DEF Members
  <2>2. \A m \in DOMAIN UserLoginRejectionReason : UserLoginRejectionReason[m] = m
    BY DEF UserLoginRejectionReason, NamedAs
  <2>3. DOMAIN UserLoginRejectionReason # {}
    BY DEF UserLoginRejectionReason, NamedAs
  <2> QED BY <2>1, <2>2, <2>3 DEF IsEnum
<1>16. IsEnum(UserPasswordChangeRejectionReason)
  <2>1. DOMAIN UserPasswordChangeRejectionReason \subseteq Members
    BY DEF Members
  <2>2. \A m \in DOMAIN UserPasswordChangeRejectionReason : UserPasswordChangeRejectionReason[m] = m
    BY DEF UserPasswordChangeRejectionReason, NamedAs
  <2>3. DOMAIN UserPasswordChangeRejectionReason # {}
    BY DEF UserPasswordChangeRejectionReason, NamedAs
  <2> QED BY <2>1, <2>2, <2>3 DEF IsEnum
<1>17. IsEnum(UserPasswordResetRejectionReason)
  <2>1. DOMAIN UserPasswordResetRejectionReason \subseteq Members
    BY DEF Members
  <2>2. \A m \in DOMAIN UserPasswordResetRejectionReason : UserPasswordResetRejectionReason[m] = m
    BY DEF UserPasswordResetRejectionReason, NamedAs
  <2>3. DOMAIN UserPasswordResetRejectionReason # {}
    BY DEF UserPasswordResetRejectionReason, NamedAs
  <2> QED BY <2>1, <2>2, <2>3 DEF IsEnum
<1>18. IsEnum(UserRegistrationRejectionReason)
  <2>1. DOMAIN UserRegistrationRejectionReason \subseteq Members
    BY DEF Members
  <2>2. \A m \in DOMAIN UserRegistrationRejectionReason : UserRegistrationRejectionReason[m] = m
    BY DEF UserRegistrationRejectionReason, NamedAs
  <2>3. DOMAIN UserRegistrationRejectionReason # {}
    BY DEF UserRegistrationRejectionReason, NamedAs
  <2> QED BY <2>1, <2>2, <2>3 DEF IsEnum
<1>19. IsEnum(WorldStateCorruptionReason)
  <2>1. DOMAIN WorldStateCorruptionReason \subseteq Members
    BY DEF Members
  <2>2. \A m \in DOMAIN WorldStateCorruptionReason : WorldStateCorruptionReason[m] = m
    BY DEF WorldStateCorruptionReason, NamedAs
  <2>3. DOMAIN WorldStateCorruptionReason # {}
    BY DEF WorldStateCorruptionReason, NamedAs
  <2> QED BY <2>1, <2>2, <2>3 DEF IsEnum
<1>20. IsEnum(WorldStateFailureReason)
  <2>1. DOMAIN WorldStateFailureReason \subseteq Members
    BY DEF Members
  <2>2. \A m \in DOMAIN WorldStateFailureReason : WorldStateFailureReason[m] = m
    BY DEF WorldStateFailureReason, NamedAs
  <2>3. DOMAIN WorldStateFailureReason # {}
    BY DEF WorldStateFailureReason, NamedAs
  <2> QED BY <2>1, <2>2, <2>3 DEF IsEnum
<1>21. IsEnum(WorldStateStartupSkipReason)
  <2>1. DOMAIN WorldStateStartupSkipReason \subseteq Members
    BY DEF Members
  <2>2. \A m \in DOMAIN WorldStateStartupSkipReason : WorldStateStartupSkipReason[m] = m
    BY DEF WorldStateStartupSkipReason, NamedAs
  <2>3. DOMAIN WorldStateStartupSkipReason # {}
    BY DEF WorldStateStartupSkipReason, NamedAs
  <2> QED BY <2>1, <2>2, <2>3 DEF IsEnum
<1> QED
  BY <1>1, <1>2, <1>4, <1>5, <1>6, <1>7, <1>8, <1>9, <1>10, <1>11, <1>12, <1>13, <1>14, <1>15, <1>16, <1>17, <1>18, <1>19, <1>20, <1>21

-----------------------------------------------------------------------------
(* How a converter and an audit entry fit the attribute of a class.         *)

\* The attributes that hold a free text or a location, or a list of them.
TextKeys ==
  {"username", "snapshot_path", "original_path", "quarantined_path", "backend",
   "target_resource_id", "start_location", "end_location", "initial_location",
   "previous_location", "new_location", "previous_in_transit_to", "new_in_transit_to",
   "locations", "previous_locations"}

\* `conv` is the converter of an attribute, under the key k, with values S.
ItemFits(conv, S, k) ==
  \/ conv.how = "positive int" /\ S = Ids
  \/ conv.how = "non-negative int" /\ S = Counts
  \/ conv.how = "positive float" /\ S = Tenths
  \/ conv.how = "str" /\ S = Strings /\ k \in TextKeys
  \/ conv.how = "location" /\ S = Locations /\ k \in TextKeys
  \/ conv.how = "naive time" /\ S = Times
  \/ conv.how = "enum value" /\ IsEnum(conv.of) /\ S = DOMAIN conv.of /\ k \notin TextKeys

\* The lists under the key k of items in T; `reasons` has no item twice.
IsListSet(S, T, k) ==
  \/ S = BoundedSeq(T, ItemBound(k))
  \/ k = "reasons" /\ S = {r \in BoundedSeq(T, ItemBound(k)) : UniqueReasons(r)}

FieldFits(conv, S, k) ==
  \/ conv.null = {} /\ ItemFits(conv, S, k)
  \/ conv.null = {Null} /\ \E T : S = Optional(T) /\ ItemFits(conv, T, k)
  \/ conv.how = "list" /\ conv.null = {} /\ \E T : ItemFits(conv.of, T, k) /\ IsListSet(S, T, k)

Item(how, enum, null) == [how |-> how, null |-> null, of |-> enum]

LEMMA Converters ==
  /\ \A k : FieldFits(PositiveInt, Ids, k) /\ FieldFits(Nullable(PositiveInt), Optional(Ids), k)
  /\ \A k : FieldFits(NonNegativeInt, Counts, k) /\ FieldFits(PositiveFloat, Tenths, k)
  /\ \A k : FieldFits(NaiveTime, Times, k) /\ FieldFits(Nullable(NaiveTime), Optional(Times), k)
  /\ \A k \in TextKeys :
       FieldFits(Str, Strings, k) /\ FieldFits(Nullable(Str), Optional(Strings), k)
  /\ \A k \in TextKeys :
       FieldFits(Location, Locations, k) /\ FieldFits(Nullable(Location), Optional(Locations), k)
  /\ \A enum : IsEnum(enum) => \A k : k \notin TextKeys => FieldFits(EnumValue(enum), DOMAIN enum, k)
<1>1. /\ PositiveInt = Item("positive int", <<>>, {})
      /\ NonNegativeInt = Item("non-negative int", <<>>, {})
      /\ PositiveFloat = Item("positive float", <<>>, {})
      /\ NaiveTime = Item("naive time", <<>>, {})
      /\ Str = Item("str", <<>>, {}) /\ Location = Item("location", <<>>, {})
      /\ \A enum : EnumValue(enum) = Item("enum value", enum, {})
  BY DEF PositiveInt, NonNegativeInt, PositiveFloat, NaiveTime, Str, Location, EnumValue, Converter, Item
<1>2. /\ Nullable(PositiveInt) = Item("positive int", <<>>, {Null})
      /\ Nullable(NaiveTime) = Item("naive time", <<>>, {Null})
      /\ Nullable(Str) = Item("str", <<>>, {Null}) /\ Nullable(Location) = Item("location", <<>>, {Null})
  <2>1. ASSUME NEW how, NEW enum PROVE Nullable(Item(how, enum, {})) = Item(how, enum, {Null})
    BY DEF Nullable, Item
  <2> QED BY <1>1, <2>1
<1>3. \A how, enum, null :
        /\ Item(how, enum, null).how = how /\ Item(how, enum, null).of = enum
        /\ Item(how, enum, null).null = null
  BY DEF Item
<1>4. ASSUME NEW how, NEW enum, NEW S, NEW k, ItemFits(Item(how, enum, {}), S, k)
      PROVE  /\ FieldFits(Item(how, enum, {}), S, k)
             /\ FieldFits(Item(how, enum, {Null}), Optional(S), k)
  <2>1. ItemFits(Item(how, enum, {Null}), S, k)
    <3> DEFINE a == Item(how, enum, {})
               b == Item(how, enum, {Null})
    <3>1. a.how = b.how /\ a.of = b.of
      BY <1>3
    <3> HIDE DEF a, b
    <3>2. ItemFits(a, S, k) => ItemFits(b, S, k)
      BY <3>1 DEF ItemFits
    <3> QED BY <1>4, <3>2 DEF a, b
  <2>2. Item(how, enum, {Null}).null = {Null} /\ Item(how, enum, {}).null = {}
    BY <1>3
  <2> QED BY <1>4, <2>1, <2>2 DEF FieldFits
<1>5. ASSUME NEW k
      PROVE  /\ ItemFits(Item("positive int", <<>>, {}), Ids, k)
             /\ ItemFits(Item("non-negative int", <<>>, {}), Counts, k)
             /\ ItemFits(Item("positive float", <<>>, {}), Tenths, k)
             /\ ItemFits(Item("naive time", <<>>, {}), Times, k)
             /\ k \in TextKeys => ItemFits(Item("str", <<>>, {}), Strings, k)
             /\ k \in TextKeys => ItemFits(Item("location", <<>>, {}), Locations, k)
  BY <1>3 DEF ItemFits
<1>6. ASSUME NEW enum, IsEnum(enum), NEW k, k \notin TextKeys
      PROVE  ItemFits(Item("enum value", enum, {}), DOMAIN enum, k)
  <2> DEFINE a == Item("enum value", enum, {})
  <2>1. a.how = "enum value" /\ a.of = enum
    BY DEF Item
  <2> HIDE DEF a
  <2>2. ItemFits(a, DOMAIN enum, k)
    BY <1>6, <2>1 DEF ItemFits
  <2> QED BY <2>2 DEF a
<1>7. ASSUME NEW enum, IsEnum(enum), NEW k, k \notin TextKeys
      PROVE  FieldFits(EnumValue(enum), DOMAIN enum, k)
  BY <1>1, <1>4, <1>6, <1>7
<1> QED BY <1>1, <1>2, <1>4, <1>5, <1>7

LEMMA ListConverters ==
  /\ FieldFits(ListOf(Location), ListsOf(Locations), "locations")
  /\ FieldFits(ListOf(Location), ListsOf(Locations), "previous_locations")
  /\ FieldFits(ListOf(PositiveInt), ListsOf(Ids), "detached_package_ids")
  /\ FieldFits(ListOf(PositiveInt), ListsOf(Ids), "seeded_truck_ids")
  /\ FieldFits(ListOf(EnumValue(PackageReconciliationReason)),
               {r \in ListsOf(DOMAIN PackageReconciliationReason) : UniqueReasons(r)}, "reasons")
  /\ FieldFits(ListOf(EnumName(Permission)), BoundedSeq(Permission, PermissionBound),
               "required_permissions")
<1>1. \A item : ListOf(item).how = "list" /\ ListOf(item).null = {} /\ ListOf(item).of = item
  BY DEF ListOf, Converter
<1>2. /\ Location.how = "location" /\ PositiveInt.how = "positive int"
      /\ \A enum : EnumValue(enum).how = "enum value" /\ EnumValue(enum).of = enum
      /\ EnumName(Permission).how = "enum value"
      /\ EnumName(Permission).of = NamedAs(Permission)
  BY DEF Location, PositiveInt, EnumValue, EnumName, Converter
<1>3. /\ ItemFits(Location, Locations, "locations")
      /\ ItemFits(Location, Locations, "previous_locations")
      /\ ItemFits(PositiveInt, Ids, "detached_package_ids")
      /\ ItemFits(PositiveInt, Ids, "seeded_truck_ids")
  BY <1>2 DEF ItemFits, TextKeys
<1>4. ItemFits(EnumValue(PackageReconciliationReason), DOMAIN PackageReconciliationReason, "reasons")
  BY <1>2, Enumerations DEF ItemFits, TextKeys
<1>5. ItemFits(EnumName(Permission), Permission, "required_permissions")
  <2>1. DOMAIN NamedAs(Permission) = Permission
    BY DEF NamedAs
  <2> QED BY <1>2, <2>1, Enumerations DEF ItemFits, TextKeys
<1>6. /\ ListsOf(Locations) = BoundedSeq(Locations, ItemBound("locations"))
      /\ ListsOf(Locations) = BoundedSeq(Locations, ItemBound("previous_locations"))
      /\ ListsOf(Ids) = BoundedSeq(Ids, ItemBound("detached_package_ids"))
      /\ ListsOf(Ids) = BoundedSeq(Ids, ItemBound("seeded_truck_ids"))
      /\ ItemBound("reasons") = ListBound /\ ItemBound("required_permissions") = PermissionBound
  BY DEF ListsOf, ItemBound
<1>7. ASSUME NEW item, NEW T, NEW k, ItemFits(item, T, k)
      PROVE  FieldFits(ListOf(item), BoundedSeq(T, ItemBound(k)), k)
  BY <1>1, <1>7 DEF FieldFits, IsListSet
<1>8. FieldFits(ListOf(EnumValue(PackageReconciliationReason)),
                {r \in ListsOf(DOMAIN PackageReconciliationReason) : UniqueReasons(r)}, "reasons")
  <2>1. IsListSet({r \in ListsOf(DOMAIN PackageReconciliationReason) : UniqueReasons(r)},
                  DOMAIN PackageReconciliationReason, "reasons")
    BY <1>6 DEF IsListSet, ListsOf
  <2> QED BY <1>1, <1>4, <2>1 DEF FieldFits
<1> QED BY <1>3, <1>5, <1>6, <1>7, <1>8

\* An entry of an audit payload tells the values of S apart.
FieldShown(entry, S) ==
  \/ entry.how \in {"id", "time", "as it is"}
  \/ entry.how = "value" /\ IsEnum(entry.enum) /\ S = DOMAIN entry.enum
  \/ entry.how = "ids" /\ S = ListsOf(Ids)
  \/ entry.how = "values" /\ IsEnum(entry.enum) /\ S \subseteq ListsOf(DOMAIN entry.enum)

LEMMA Entries ==
  /\ \A S : /\ FieldShown(Entry("id", <<>>), S) /\ FieldShown(Entry("time", <<>>), S)
            /\ FieldShown(Entry("as it is", <<>>), S)
  /\ FieldShown(Entry("ids", <<>>), ListsOf(Ids))
  /\ \A enum : IsEnum(enum) => FieldShown(Entry("value", enum), DOMAIN enum)
  /\ FieldShown(Entry("values", PackageReconciliationReason),
                {r \in ListsOf(DOMAIN PackageReconciliationReason) : UniqueReasons(r)})
<1>1. \A how, enum : Entry(how, enum).how = how /\ Entry(how, enum).enum = enum
  BY DEF Entry
<1>2. ASSUME NEW enum, IsEnum(enum)
      PROVE  FieldShown(Entry("value", enum), DOMAIN enum)
  BY <1>1, <1>2 DEF FieldShown
<1>3. /\ \A S : /\ FieldShown(Entry("id", <<>>), S) /\ FieldShown(Entry("time", <<>>), S)
                /\ FieldShown(Entry("as it is", <<>>), S)
      /\ FieldShown(Entry("ids", <<>>), ListsOf(Ids))
  BY <1>1 DEF FieldShown
<1>4. FieldShown(Entry("values", PackageReconciliationReason),
                 {r \in ListsOf(DOMAIN PackageReconciliationReason) : UniqueReasons(r)})
  BY <1>1, Enumerations DEF FieldShown
<1> QED BY <1>2, <1>3, <1>4

-----------------------------------------------------------------------------
(* Every class has one codec and one audit mapping, which fit it.           *)

CodecFits(class, c) ==
  /\ class \in DOMAIN Catalogue /\ c.event_class = class
  /\ c.event_version = Catalogue[class].version
  /\ \A d \in Codecs : d.event_class = class \/ d.event_type = c.event_type => d = c
  /\ DOMAIN c.payload = DOMAIN Catalogue[class].fields
  /\ \A k \in DOMAIN c.payload : FieldFits(c.payload[k], Catalogue[class].fields[k], k)
  /\ "reasons" \in DOMAIN c.payload => class = "PackageStateReconciled"

\* An attribute the payload leaves to the resource of the draft.
IsTarget(class, a) ==
  class = "AuthorizationDenied" /\ a \in {"target_resource_type", "target_resource_id"}

AuditFits(class) ==
  /\ AuditMappings[class].resource_type \in DOMAIN AuditResourceType
  /\ AuditMappings[class].action \in Actions
  /\ DOMAIN AuditMappings[class].payload \subseteq DOMAIN Catalogue[class].fields
  /\ \A a \in DOMAIN Catalogue[class].fields :
       \/ /\ a \in DOMAIN AuditMappings[class].payload
          /\ FieldShown(AuditMappings[class].payload[a], Catalogue[class].fields[a])
       \/ <<class, a>> \in Omitted \/ IsTarget(class, a)

LEMMA CodecIdentities ==
  /\ CustomerCreatedCodec.event_class = "CustomerCreated"
  /\ CustomerCreatedCodec.event_type = "customer_created"
  /\ PackageCreatedCodec.event_class = "PackageCreated"
  /\ PackageCreatedCodec.event_type = "package_created"
  /\ PackageRemovedCodec.event_class = "PackageRemoved"
  /\ PackageRemovedCodec.event_type = "package_removed"
  /\ PackagePickedUpCodec.event_class = "PackagePickedUp"
  /\ PackagePickedUpCodec.event_type = "package_picked_up"
  /\ PackageDeliveredCodec.event_class = "PackageDelivered"
  /\ PackageDeliveredCodec.event_type = "package_delivered"
  /\ RouteCreatedCodec.event_class = "RouteCreated"
  /\ RouteCreatedCodec.event_type = "route_created"
  /\ RouteScheduledCodec.event_class = "RouteScheduled"
  /\ RouteScheduledCodec.event_type = "route_scheduled"
  /\ PackageAssignedToRouteCodec.event_class = "PackageAssignedToRoute"
  /\ PackageAssignedToRouteCodec.event_type = "package_assigned_to_route"
  /\ PackageDetachedFromRouteCodec.event_class = "PackageDetachedFromRoute"
  /\ PackageDetachedFromRouteCodec.event_type = "package_detached_from_route"
  /\ TruckAssignedToRouteCodec.event_class = "TruckAssignedToRoute"
  /\ TruckAssignedToRouteCodec.event_type = "truck_assigned_to_route"
  /\ TruckReleasedFromRouteCodec.event_class = "TruckReleasedFromRoute"
  /\ TruckReleasedFromRouteCodec.event_type = "truck_released_from_route"
  /\ RouteStartedCodec.event_class = "RouteStarted"
  /\ RouteStartedCodec.event_type = "route_started"
  /\ RouteCompletedCodec.event_class = "RouteCompleted"
  /\ RouteCompletedCodec.event_type = "route_completed"
  /\ RouteRemovedCodec.event_class = "RouteRemoved"
  /\ RouteRemovedCodec.event_type = "route_removed"
  /\ UserRegisteredCodec.event_class = "UserRegistered"
  /\ UserRegisteredCodec.event_type = "user_registered"
  /\ UserRegistrationRejectedCodec.event_class = "UserRegistrationRejected"
  /\ UserRegistrationRejectedCodec.event_type = "user_registration_rejected"
  /\ UserPasswordChangedCodec.event_class = "UserPasswordChanged"
  /\ UserPasswordChangedCodec.event_type = "user_password_changed"
  /\ UserPasswordChangeRejectedCodec.event_class = "UserPasswordChangeRejected"
  /\ UserPasswordChangeRejectedCodec.event_type = "user_password_change_rejected"
  /\ UserPasswordResetCodec.event_class = "UserPasswordReset"
  /\ UserPasswordResetCodec.event_type = "user_password_reset"
  /\ UserPasswordResetRejectedCodec.event_class = "UserPasswordResetRejected"
  /\ UserPasswordResetRejectedCodec.event_type = "user_password_reset_rejected"
  /\ UserAuthenticatedCodec.event_class = "UserAuthenticated"
  /\ UserAuthenticatedCodec.event_type = "user_authenticated"
  /\ UserLoginRejectedCodec.event_class = "UserLoginRejected"
  /\ UserLoginRejectedCodec.event_type = "user_login_rejected"
  /\ UserSessionEndedCodec.event_class = "UserSessionEnded"
  /\ UserSessionEndedCodec.event_type = "user_session_ended"
  /\ UserTokensRevokedCodec.event_class = "UserTokensRevoked"
  /\ UserTokensRevokedCodec.event_type = "user_tokens_revoked"
  /\ AuthorizationDeniedCodec.event_class = "AuthorizationDenied"
  /\ AuthorizationDeniedCodec.event_type = "authorization_denied"
  /\ FleetSeededCodec.event_class = "FleetSeeded"
  /\ FleetSeededCodec.event_type = "fleet_seeded"
  /\ WorldStateExportedCodec.event_class = "WorldStateExported"
  /\ WorldStateExportedCodec.event_type = "world_state_exported"
  /\ WorldStateExportFailedCodec.event_class = "WorldStateExportFailed"
  /\ WorldStateExportFailedCodec.event_type = "world_state_export_failed"
  /\ WorldStateImportedCodec.event_class = "WorldStateImported"
  /\ WorldStateImportedCodec.event_type = "world_state_imported"
  /\ WorldStateImportFailedCodec.event_class = "WorldStateImportFailed"
  /\ WorldStateImportFailedCodec.event_type = "world_state_import_failed"
  /\ WorldStateCorruptionDetectedCodec.event_class = "WorldStateCorruptionDetected"
  /\ WorldStateCorruptionDetectedCodec.event_type = "world_state_corruption_detected"
  /\ WorldStateSnapshotQuarantinedCodec.event_class = "WorldStateSnapshotQuarantined"
  /\ WorldStateSnapshotQuarantinedCodec.event_type = "world_state_snapshot_quarantined"
  /\ WorldStateRuntimeSwappedCodec.event_class = "WorldStateRuntimeSwapped"
  /\ WorldStateRuntimeSwappedCodec.event_type = "world_state_runtime_swapped"
  /\ WorldStateStartupRestoredCodec.event_class = "WorldStateStartupRestored"
  /\ WorldStateStartupRestoredCodec.event_type = "world_state_startup_restored"
  /\ WorldStateStartupRestoreSkippedCodec.event_class = "WorldStateStartupRestoreSkipped"
  /\ WorldStateStartupRestoreSkippedCodec.event_type = "world_state_startup_restore_skipped"
  /\ WorldStateStartupRestoreFailedCodec.event_class = "WorldStateStartupRestoreFailed"
  /\ WorldStateStartupRestoreFailedCodec.event_type = "world_state_startup_restore_failed"
  /\ WorldStateAdvancedCodec.event_class = "WorldStateAdvanced"
  /\ WorldStateAdvancedCodec.event_type = "world_state_advanced"
  /\ RouteStateReconciledCodec.event_class = "RouteStateReconciled"
  /\ RouteStateReconciledCodec.event_type = "route_state_reconciled"
  /\ PackageStateReconciledCodec.event_class = "PackageStateReconciled"
  /\ PackageStateReconciledCodec.event_type = "package_state_reconciled"
  /\ TruckPositionReconciledCodec.event_class = "TruckPositionReconciled"
  /\ TruckPositionReconciledCodec.event_type = "truck_position_reconciled"
  /\ TruckRouteReferenceReconciledCodec.event_class = "TruckRouteReferenceReconciled"
  /\ TruckRouteReferenceReconciledCodec.event_type = "truck_route_reference_reconciled"
BY DEF Codec, CustomerCreatedCodec, PackageCreatedCodec, PackageRemovedCodec,
    PackagePickedUpCodec, PackageDeliveredCodec, RouteCreatedCodec, RouteScheduledCodec,
    PackageAssignedToRouteCodec, PackageDetachedFromRouteCodec, TruckAssignedToRouteCodec,
    TruckReleasedFromRouteCodec, RouteStartedCodec, RouteCompletedCodec, RouteRemovedCodec,
    UserRegisteredCodec, UserRegistrationRejectedCodec, UserPasswordChangedCodec,
    UserPasswordChangeRejectedCodec, UserPasswordResetCodec, UserPasswordResetRejectedCodec,
    UserAuthenticatedCodec, UserLoginRejectedCodec, UserSessionEndedCodec,
    UserTokensRevokedCodec, AuthorizationDeniedCodec, FleetSeededCodec, WorldStateExportedCodec,
    WorldStateExportFailedCodec, WorldStateImportedCodec, WorldStateImportFailedCodec,
    WorldStateCorruptionDetectedCodec, WorldStateSnapshotQuarantinedCodec,
    WorldStateRuntimeSwappedCodec, WorldStateStartupRestoredCodec,
    WorldStateStartupRestoreSkippedCodec, WorldStateStartupRestoreFailedCodec,
    WorldStateAdvancedCodec, RouteStateReconciledCodec, PackageStateReconciledCodec,
    TruckPositionReconciledCodec, TruckRouteReferenceReconciledCodec

LEMMA CatalogueEntries ==
  /\ "CustomerCreated" \in DOMAIN Catalogue
  /\ Catalogue["CustomerCreated"] = CustomerCreated
  /\ "PackageCreated" \in DOMAIN Catalogue
  /\ Catalogue["PackageCreated"] = PackageCreated
  /\ "PackageRemoved" \in DOMAIN Catalogue
  /\ Catalogue["PackageRemoved"] = PackageRemoved
  /\ "PackagePickedUp" \in DOMAIN Catalogue
  /\ Catalogue["PackagePickedUp"] = PackagePickedUp
  /\ "PackageDelivered" \in DOMAIN Catalogue
  /\ Catalogue["PackageDelivered"] = PackageDelivered
  /\ "RouteCreated" \in DOMAIN Catalogue
  /\ Catalogue["RouteCreated"] = RouteCreated
  /\ "RouteScheduled" \in DOMAIN Catalogue
  /\ Catalogue["RouteScheduled"] = RouteScheduled
  /\ "PackageAssignedToRoute" \in DOMAIN Catalogue
  /\ Catalogue["PackageAssignedToRoute"] = PackageAssignedToRoute
  /\ "PackageDetachedFromRoute" \in DOMAIN Catalogue
  /\ Catalogue["PackageDetachedFromRoute"] = PackageDetachedFromRoute
  /\ "TruckAssignedToRoute" \in DOMAIN Catalogue
  /\ Catalogue["TruckAssignedToRoute"] = TruckAssignedToRoute
  /\ "TruckReleasedFromRoute" \in DOMAIN Catalogue
  /\ Catalogue["TruckReleasedFromRoute"] = TruckReleasedFromRoute
  /\ "RouteStarted" \in DOMAIN Catalogue
  /\ Catalogue["RouteStarted"] = RouteStarted
  /\ "RouteCompleted" \in DOMAIN Catalogue
  /\ Catalogue["RouteCompleted"] = RouteCompleted
  /\ "RouteRemoved" \in DOMAIN Catalogue
  /\ Catalogue["RouteRemoved"] = RouteRemoved
  /\ "UserRegistered" \in DOMAIN Catalogue
  /\ Catalogue["UserRegistered"] = UserRegistered
  /\ "UserRegistrationRejected" \in DOMAIN Catalogue
  /\ Catalogue["UserRegistrationRejected"] = UserRegistrationRejected
  /\ "UserPasswordChanged" \in DOMAIN Catalogue
  /\ Catalogue["UserPasswordChanged"] = UserPasswordChanged
  /\ "UserPasswordChangeRejected" \in DOMAIN Catalogue
  /\ Catalogue["UserPasswordChangeRejected"] = UserPasswordChangeRejected
  /\ "UserPasswordReset" \in DOMAIN Catalogue
  /\ Catalogue["UserPasswordReset"] = UserPasswordReset
  /\ "UserPasswordResetRejected" \in DOMAIN Catalogue
  /\ Catalogue["UserPasswordResetRejected"] = UserPasswordResetRejected
  /\ "UserAuthenticated" \in DOMAIN Catalogue
  /\ Catalogue["UserAuthenticated"] = UserAuthenticated
  /\ "UserLoginRejected" \in DOMAIN Catalogue
  /\ Catalogue["UserLoginRejected"] = UserLoginRejected
  /\ "UserSessionEnded" \in DOMAIN Catalogue
  /\ Catalogue["UserSessionEnded"] = UserSessionEnded
  /\ "UserTokensRevoked" \in DOMAIN Catalogue
  /\ Catalogue["UserTokensRevoked"] = UserTokensRevoked
  /\ "AuthorizationDenied" \in DOMAIN Catalogue
  /\ Catalogue["AuthorizationDenied"] = AuthorizationDenied
  /\ "FleetSeeded" \in DOMAIN Catalogue
  /\ Catalogue["FleetSeeded"] = FleetSeeded
  /\ "WorldStateExported" \in DOMAIN Catalogue
  /\ Catalogue["WorldStateExported"] = WorldStateExported
  /\ "WorldStateExportFailed" \in DOMAIN Catalogue
  /\ Catalogue["WorldStateExportFailed"] = WorldStateExportFailed
  /\ "WorldStateImported" \in DOMAIN Catalogue
  /\ Catalogue["WorldStateImported"] = WorldStateImported
  /\ "WorldStateImportFailed" \in DOMAIN Catalogue
  /\ Catalogue["WorldStateImportFailed"] = WorldStateImportFailed
  /\ "WorldStateCorruptionDetected" \in DOMAIN Catalogue
  /\ Catalogue["WorldStateCorruptionDetected"] = WorldStateCorruptionDetected
  /\ "WorldStateSnapshotQuarantined" \in DOMAIN Catalogue
  /\ Catalogue["WorldStateSnapshotQuarantined"] = WorldStateSnapshotQuarantined
  /\ "WorldStateRuntimeSwapped" \in DOMAIN Catalogue
  /\ Catalogue["WorldStateRuntimeSwapped"] = WorldStateRuntimeSwapped
  /\ "WorldStateStartupRestored" \in DOMAIN Catalogue
  /\ Catalogue["WorldStateStartupRestored"] = WorldStateStartupRestored
  /\ "WorldStateStartupRestoreSkipped" \in DOMAIN Catalogue
  /\ Catalogue["WorldStateStartupRestoreSkipped"] = WorldStateStartupRestoreSkipped
  /\ "WorldStateStartupRestoreFailed" \in DOMAIN Catalogue
  /\ Catalogue["WorldStateStartupRestoreFailed"] = WorldStateStartupRestoreFailed
  /\ "WorldStateAdvanced" \in DOMAIN Catalogue
  /\ Catalogue["WorldStateAdvanced"] = WorldStateAdvanced
  /\ "RouteStateReconciled" \in DOMAIN Catalogue
  /\ Catalogue["RouteStateReconciled"] = RouteStateReconciled
  /\ "PackageStateReconciled" \in DOMAIN Catalogue
  /\ Catalogue["PackageStateReconciled"] = PackageStateReconciled
  /\ "TruckPositionReconciled" \in DOMAIN Catalogue
  /\ Catalogue["TruckPositionReconciled"] = TruckPositionReconciled
  /\ "TruckRouteReferenceReconciled" \in DOMAIN Catalogue
  /\ Catalogue["TruckRouteReferenceReconciled"] = TruckRouteReferenceReconciled
BY DEF Catalogue

LEMMA MappingEntries ==
  /\ AuditMappings["CustomerCreated"] = MapCustomerCreated
  /\ AuditMappings["PackageCreated"] = MapPackageCreated
  /\ AuditMappings["PackageRemoved"] = MapPackageRemoved
  /\ AuditMappings["PackagePickedUp"] = MapPackagePickedUp
  /\ AuditMappings["PackageDelivered"] = MapPackageDelivered
  /\ AuditMappings["RouteCreated"] = MapRouteCreated
  /\ AuditMappings["RouteScheduled"] = MapRouteScheduled
  /\ AuditMappings["PackageAssignedToRoute"] = MapPackageAssignedToRoute
  /\ AuditMappings["PackageDetachedFromRoute"] = MapPackageDetachedFromRoute
  /\ AuditMappings["TruckAssignedToRoute"] = MapTruckAssignedToRoute
  /\ AuditMappings["TruckReleasedFromRoute"] = MapTruckReleasedFromRoute
  /\ AuditMappings["RouteStarted"] = MapRouteStarted
  /\ AuditMappings["RouteCompleted"] = MapRouteCompleted
  /\ AuditMappings["RouteRemoved"] = MapRouteRemoved
  /\ AuditMappings["UserRegistered"] = MapUserRegistered
  /\ AuditMappings["UserRegistrationRejected"] = MapUserRegistrationRejected
  /\ AuditMappings["UserPasswordChanged"] = MapUserPasswordChanged
  /\ AuditMappings["UserPasswordChangeRejected"] = MapUserPasswordChangeRejected
  /\ AuditMappings["UserPasswordReset"] = MapUserPasswordReset
  /\ AuditMappings["UserPasswordResetRejected"] = MapUserPasswordResetRejected
  /\ AuditMappings["UserAuthenticated"] = MapUserAuthenticated
  /\ AuditMappings["UserLoginRejected"] = MapUserLoginRejected
  /\ AuditMappings["UserSessionEnded"] = MapUserSessionEnded
  /\ AuditMappings["UserTokensRevoked"] = MapUserTokensRevoked
  /\ AuditMappings["AuthorizationDenied"] = MapAuthorizationDenied
  /\ AuditMappings["FleetSeeded"] = MapFleetSeeded
  /\ AuditMappings["WorldStateExported"] = MapWorldStateExported
  /\ AuditMappings["WorldStateExportFailed"] = MapWorldStateExportFailed
  /\ AuditMappings["WorldStateImported"] = MapWorldStateImported
  /\ AuditMappings["WorldStateImportFailed"] = MapWorldStateImportFailed
  /\ AuditMappings["WorldStateCorruptionDetected"] = MapWorldStateCorruptionDetected
  /\ AuditMappings["WorldStateSnapshotQuarantined"] = MapWorldStateSnapshotQuarantined
  /\ AuditMappings["WorldStateRuntimeSwapped"] = MapWorldStateRuntimeSwapped
  /\ AuditMappings["WorldStateStartupRestored"] = MapWorldStateStartupRestored
  /\ AuditMappings["WorldStateStartupRestoreSkipped"] = MapWorldStateStartupRestoreSkipped
  /\ AuditMappings["WorldStateStartupRestoreFailed"] = MapWorldStateStartupRestoreFailed
  /\ AuditMappings["WorldStateAdvanced"] = MapWorldStateAdvanced
  /\ AuditMappings["RouteStateReconciled"] = MapRouteStateReconciled
  /\ AuditMappings["PackageStateReconciled"] = MapPackageStateReconciled
  /\ AuditMappings["TruckPositionReconciled"] = MapTruckPositionReconciled
  /\ AuditMappings["TruckRouteReferenceReconciled"] = MapTruckRouteReferenceReconciled
BY DEF AuditMappings

LEMMA CustomerCreatedFits ==
  CodecFits("CustomerCreated", CustomerCreatedCodec) /\ AuditFits("CustomerCreated")
<1> DEFINE keys == {"customer_id"}
           Fits(k) == FieldFits(CustomerCreatedCodec.payload[k], CustomerCreated.fields[k], k)
           Tells(k) == FieldShown(MapCustomerCreated.payload[k], CustomerCreated.fields[k])
<1>1. DOMAIN CustomerCreated.fields = keys /\ DOMAIN CustomerCreatedCodec.payload = keys
  BY DEF CustomerCreated, Codec, CustomerCreatedCodec
<1>2. DOMAIN MapCustomerCreated.payload = keys
  BY DEF MapCustomerCreated, Descriptor, Shown, AsId
<1>3. CustomerCreatedCodec.event_version = CustomerCreated.version
  BY DEF CustomerCreated, CustomerCreatedCodec, Codec
<1>4. \A d \in Codecs :
        d.event_class = "CustomerCreated" \/ d.event_type = "customer_created"
          => d = CustomerCreatedCodec
  BY CodecIdentities DEF Codecs
<1>5. Fits("customer_id")
  BY Enumerations, Converters DEF TextKeys, CustomerCreated, Codec, CustomerCreatedCodec
<1>6. /\ MapCustomerCreated.resource_type \in DOMAIN AuditResourceType
      /\ MapCustomerCreated.action \in Actions
  BY DEF AuditResourceType, Actions, MapCustomerCreated, Descriptor
<1>7. Tells("customer_id")
  BY Enumerations, Entries DEF CustomerCreated, MapCustomerCreated, Descriptor, Shown, AsId
<1>8. \A k \in keys : Fits(k)
  BY <1>5
<1>9. \A k \in keys : Tells(k)
  BY <1>7
<1>10. "reasons" \in keys => "CustomerCreated" = "PackageStateReconciled"
  OBVIOUS
<1> HIDE DEF keys
<1> QED
  BY <1>1, <1>2, <1>3, <1>4, <1>6, <1>8, <1>9, <1>10, CatalogueEntries, MappingEntries,
      CodecIdentities DEF CodecFits, AuditFits

LEMMA PackageCreatedFits ==
  CodecFits("PackageCreated", PackageCreatedCodec) /\ AuditFits("PackageCreated")
<1> DEFINE keys == {"package_id", "customer_id", "start_location", "end_location", "weight",
                 "initial_status", "initial_location", "expected_arrival"}
           Fits(k) == FieldFits(PackageCreatedCodec.payload[k], PackageCreated.fields[k], k)
           Tells(k) == FieldShown(MapPackageCreated.payload[k], PackageCreated.fields[k])
<1>1. DOMAIN PackageCreated.fields = keys /\ DOMAIN PackageCreatedCodec.payload = keys
  BY DEF PackageCreated, Codec, PackageCreatedCodec
<1>2. DOMAIN MapPackageCreated.payload = keys
  BY DEF MapPackageCreated, Descriptor, Shown, AsId, As, AsValue, AsTime, ++
<1>3. PackageCreatedCodec.event_version = PackageCreated.version
  BY DEF PackageCreated, PackageCreatedCodec, Codec
<1>4. \A d \in Codecs :
        d.event_class = "PackageCreated" \/ d.event_type = "package_created"
          => d = PackageCreatedCodec
  BY CodecIdentities DEF Codecs
<1>5. Fits("package_id") /\ Fits("customer_id") /\ Fits("start_location") /\
          Fits("end_location") /\ Fits("weight") /\ Fits("initial_status") /\
          Fits("initial_location") /\ Fits("expected_arrival")
  BY Enumerations, Converters DEF TextKeys, ItemStatuses, PackageCreated, Codec,
      PackageCreatedCodec
<1>6. /\ MapPackageCreated.resource_type \in DOMAIN AuditResourceType
      /\ MapPackageCreated.action \in Actions
  BY DEF AuditResourceType, Actions, MapPackageCreated, Descriptor
<1>7. Tells("package_id") /\ Tells("customer_id") /\ Tells("start_location") /\
          Tells("end_location") /\ Tells("weight") /\ Tells("initial_status") /\
          Tells("initial_location") /\ Tells("expected_arrival")
  BY Enumerations, Entries DEF ItemStatuses, PackageCreated, MapPackageCreated, Descriptor,
      Shown, AsId, As, AsValue, AsTime, ++
<1>8. \A k \in keys : Fits(k)
  BY <1>5
<1>9. \A k \in keys : Tells(k)
  BY <1>7
<1>10. "reasons" \in keys => "PackageCreated" = "PackageStateReconciled"
  OBVIOUS
<1> HIDE DEF keys
<1> QED
  BY <1>1, <1>2, <1>3, <1>4, <1>6, <1>8, <1>9, <1>10, CatalogueEntries, MappingEntries,
      CodecIdentities DEF CodecFits, AuditFits

LEMMA PackageRemovedFits ==
  CodecFits("PackageRemoved", PackageRemovedCodec) /\ AuditFits("PackageRemoved")
<1> DEFINE keys == {"package_id", "customer_id", "previous_route_id", "previous_status",
                 "previous_location", "start_location", "end_location", "weight",
                 "previous_expected_arrival"}
           Fits(k) == FieldFits(PackageRemovedCodec.payload[k], PackageRemoved.fields[k], k)
           Tells(k) == FieldShown(MapPackageRemoved.payload[k], PackageRemoved.fields[k])
<1>1. DOMAIN PackageRemoved.fields = keys /\ DOMAIN PackageRemovedCodec.payload = keys
  BY DEF PackageRemoved, Codec, PackageRemovedCodec
<1>2. DOMAIN MapPackageRemoved.payload = keys
  BY DEF MapPackageRemoved, Descriptor, Shown, AsId, As, AsValue, AsTime, ++
<1>3. PackageRemovedCodec.event_version = PackageRemoved.version
  BY DEF PackageRemoved, PackageRemovedCodec, Codec
<1>4. \A d \in Codecs :
        d.event_class = "PackageRemoved" \/ d.event_type = "package_removed"
          => d = PackageRemovedCodec
  BY CodecIdentities DEF Codecs
<1>5. Fits("package_id") /\ Fits("customer_id") /\ Fits("previous_route_id") /\
          Fits("previous_status") /\ Fits("previous_location") /\ Fits("start_location") /\
          Fits("end_location") /\ Fits("weight") /\ Fits("previous_expected_arrival")
  BY Enumerations, Converters DEF TextKeys, ItemStatuses, PackageRemoved, Codec,
      PackageRemovedCodec
<1>6. /\ MapPackageRemoved.resource_type \in DOMAIN AuditResourceType
      /\ MapPackageRemoved.action \in Actions
  BY DEF AuditResourceType, Actions, MapPackageRemoved, Descriptor
<1>7. Tells("package_id") /\ Tells("customer_id") /\ Tells("previous_route_id") /\
          Tells("previous_status") /\ Tells("previous_location") /\ Tells("start_location") /\
          Tells("end_location") /\ Tells("weight") /\ Tells("previous_expected_arrival")
  BY Enumerations, Entries DEF ItemStatuses, PackageRemoved, MapPackageRemoved, Descriptor,
      Shown, AsId, As, AsValue, AsTime, ++
<1>8. \A k \in keys : Fits(k)
  BY <1>5
<1>9. \A k \in keys : Tells(k)
  BY <1>7
<1>10. "reasons" \in keys => "PackageRemoved" = "PackageStateReconciled"
  OBVIOUS
<1> HIDE DEF keys
<1> QED
  BY <1>1, <1>2, <1>3, <1>4, <1>6, <1>8, <1>9, <1>10, CatalogueEntries, MappingEntries,
      CodecIdentities DEF CodecFits, AuditFits

LEMMA PackagePickedUpFits ==
  CodecFits("PackagePickedUp", PackagePickedUpCodec) /\ AuditFits("PackagePickedUp")
<1> DEFINE keys == {"package_id", "route_id", "previous_status", "new_status",
                 "previous_location", "new_location", "scheduled_arrival"}
           Fits(k) == FieldFits(PackagePickedUpCodec.payload[k], PackagePickedUp.fields[k], k)
           Tells(k) == FieldShown(MapPackagePickedUp.payload[k], PackagePickedUp.fields[k])
<1>1. DOMAIN PackagePickedUp.fields = keys /\ DOMAIN PackagePickedUpCodec.payload = keys
  BY DEF PackagePickedUp, Codec, PackagePickedUpCodec
<1>2. DOMAIN MapPackagePickedUp.payload = keys
  BY DEF MapPackagePickedUp, Descriptor, Shown, PackageProgress, AsId, As, AsValue, AsTime, ++
<1>3. PackagePickedUpCodec.event_version = PackagePickedUp.version
  BY DEF PackagePickedUp, PackagePickedUpCodec, Codec
<1>4. \A d \in Codecs :
        d.event_class = "PackagePickedUp" \/ d.event_type = "package_picked_up"
          => d = PackagePickedUpCodec
  BY CodecIdentities DEF Codecs
<1>5. Fits("package_id") /\ Fits("route_id") /\ Fits("previous_status") /\ Fits("new_status") /\
          Fits("previous_location") /\ Fits("new_location") /\ Fits("scheduled_arrival")
  BY Enumerations, Converters DEF TextKeys, ItemStatuses, PackagePickedUp, Codec,
      PackagePickedUpCodec
<1>6. /\ MapPackagePickedUp.resource_type \in DOMAIN AuditResourceType
      /\ MapPackagePickedUp.action \in Actions
  BY DEF AuditResourceType, Actions, MapPackagePickedUp, Descriptor
<1>7. Tells("package_id") /\ Tells("route_id") /\ Tells("previous_status") /\
          Tells("new_status") /\ Tells("previous_location") /\ Tells("new_location") /\
          Tells("scheduled_arrival")
  BY Enumerations, Entries DEF ItemStatuses, PackagePickedUp, MapPackagePickedUp, Descriptor,
      Shown, PackageProgress, AsId, As, AsValue, AsTime, ++
<1>8. \A k \in keys : Fits(k)
  BY <1>5
<1>9. \A k \in keys : Tells(k)
  BY <1>7
<1>10. "reasons" \in keys => "PackagePickedUp" = "PackageStateReconciled"
  OBVIOUS
<1> HIDE DEF keys
<1> QED
  BY <1>1, <1>2, <1>3, <1>4, <1>6, <1>8, <1>9, <1>10, CatalogueEntries, MappingEntries,
      CodecIdentities DEF CodecFits, AuditFits

LEMMA PackageDeliveredFits ==
  CodecFits("PackageDelivered", PackageDeliveredCodec) /\ AuditFits("PackageDelivered")
<1> DEFINE keys == {"package_id", "route_id", "previous_status", "new_status",
                 "previous_location", "new_location", "scheduled_arrival"}
           Fits(k) == FieldFits(PackageDeliveredCodec.payload[k], PackageDelivered.fields[k], k)
           Tells(k) == FieldShown(MapPackageDelivered.payload[k], PackageDelivered.fields[k])
<1>1. DOMAIN PackageDelivered.fields = keys /\ DOMAIN PackageDeliveredCodec.payload = keys
  BY DEF PackageDelivered, Codec, PackageDeliveredCodec
<1>2. DOMAIN MapPackageDelivered.payload = keys
  BY DEF MapPackageDelivered, Descriptor, Shown, PackageProgress, AsId, As, AsValue, AsTime, ++
<1>3. PackageDeliveredCodec.event_version = PackageDelivered.version
  BY DEF PackageDelivered, PackageDeliveredCodec, Codec
<1>4. \A d \in Codecs :
        d.event_class = "PackageDelivered" \/ d.event_type = "package_delivered"
          => d = PackageDeliveredCodec
  BY CodecIdentities DEF Codecs
<1>5. Fits("package_id") /\ Fits("route_id") /\ Fits("previous_status") /\ Fits("new_status") /\
          Fits("previous_location") /\ Fits("new_location") /\ Fits("scheduled_arrival")
  BY Enumerations, Converters DEF TextKeys, ItemStatuses, PackageDelivered, Codec,
      PackageDeliveredCodec
<1>6. /\ MapPackageDelivered.resource_type \in DOMAIN AuditResourceType
      /\ MapPackageDelivered.action \in Actions
  BY DEF AuditResourceType, Actions, MapPackageDelivered, Descriptor
<1>7. Tells("package_id") /\ Tells("route_id") /\ Tells("previous_status") /\
          Tells("new_status") /\ Tells("previous_location") /\ Tells("new_location") /\
          Tells("scheduled_arrival")
  BY Enumerations, Entries DEF ItemStatuses, PackageDelivered, MapPackageDelivered, Descriptor,
      Shown, PackageProgress, AsId, As, AsValue, AsTime, ++
<1>8. \A k \in keys : Fits(k)
  BY <1>5
<1>9. \A k \in keys : Tells(k)
  BY <1>7
<1>10. "reasons" \in keys => "PackageDelivered" = "PackageStateReconciled"
  OBVIOUS
<1> HIDE DEF keys
<1> QED
  BY <1>1, <1>2, <1>3, <1>4, <1>6, <1>8, <1>9, <1>10, CatalogueEntries, MappingEntries,
      CodecIdentities DEF CodecFits, AuditFits

LEMMA RouteCreatedFits ==
  CodecFits("RouteCreated", RouteCreatedCodec) /\ AuditFits("RouteCreated")
<1> DEFINE keys == {"route_id", "locations", "departure_time", "initial_status",
                 "expected_completion_time"}
           Fits(k) == FieldFits(RouteCreatedCodec.payload[k], RouteCreated.fields[k], k)
           Tells(k) == FieldShown(MapRouteCreated.payload[k], RouteCreated.fields[k])
<1>1. DOMAIN RouteCreated.fields = keys /\ DOMAIN RouteCreatedCodec.payload = keys
  BY DEF RouteCreated, Codec, RouteCreatedCodec
<1>2. DOMAIN MapRouteCreated.payload = keys
  BY DEF MapRouteCreated, Descriptor, Shown, AsId, As, AsValue, AsTime, ++
<1>3. RouteCreatedCodec.event_version = RouteCreated.version
  BY DEF RouteCreated, RouteCreatedCodec, Codec
<1>4. \A d \in Codecs :
        d.event_class = "RouteCreated" \/ d.event_type = "route_created"
          => d = RouteCreatedCodec
  BY CodecIdentities DEF Codecs
<1>5. Fits("route_id") /\ Fits("locations") /\ Fits("departure_time") /\ Fits("initial_status")
          /\ Fits("expected_completion_time")
  BY Enumerations, Converters, ListConverters DEF TextKeys, RouteStatuses, RouteCreated, Codec,
      RouteCreatedCodec
<1>6. /\ MapRouteCreated.resource_type \in DOMAIN AuditResourceType
      /\ MapRouteCreated.action \in Actions
  BY DEF AuditResourceType, Actions, MapRouteCreated, Descriptor
<1>7. Tells("route_id") /\ Tells("locations") /\ Tells("departure_time") /\
          Tells("initial_status") /\ Tells("expected_completion_time")
  BY Enumerations, Entries DEF RouteStatuses, RouteCreated, MapRouteCreated, Descriptor, Shown,
      AsId, As, AsValue, AsTime, ++
<1>8. \A k \in keys : Fits(k)
  BY <1>5
<1>9. \A k \in keys : Tells(k)
  BY <1>7
<1>10. "reasons" \in keys => "RouteCreated" = "PackageStateReconciled"
  OBVIOUS
<1> HIDE DEF keys
<1> QED
  BY <1>1, <1>2, <1>3, <1>4, <1>6, <1>8, <1>9, <1>10, CatalogueEntries, MappingEntries,
      CodecIdentities DEF CodecFits, AuditFits

LEMMA RouteScheduledFits ==
  CodecFits("RouteScheduled", RouteScheduledCodec) /\ AuditFits("RouteScheduled")
<1> DEFINE keys == {"route_id", "previous_status", "new_status", "previous_departure_time",
                 "new_departure_time", "previous_expected_completion_time",
                 "new_expected_completion_time"}
           Fits(k) == FieldFits(RouteScheduledCodec.payload[k], RouteScheduled.fields[k], k)
           Tells(k) == FieldShown(MapRouteScheduled.payload[k], RouteScheduled.fields[k])
<1>1. DOMAIN RouteScheduled.fields = keys /\ DOMAIN RouteScheduledCodec.payload = keys
  BY DEF RouteScheduled, Codec, RouteScheduledCodec
<1>2. DOMAIN MapRouteScheduled.payload = keys
  BY DEF MapRouteScheduled, Descriptor, Shown, AsId, AsValue, AsTime, ++
<1>3. RouteScheduledCodec.event_version = RouteScheduled.version
  BY DEF RouteScheduled, RouteScheduledCodec, Codec
<1>4. \A d \in Codecs :
        d.event_class = "RouteScheduled" \/ d.event_type = "route_scheduled"
          => d = RouteScheduledCodec
  BY CodecIdentities DEF Codecs
<1>5. Fits("route_id") /\ Fits("previous_status") /\ Fits("new_status") /\
          Fits("previous_departure_time") /\ Fits("new_departure_time") /\
          Fits("previous_expected_completion_time") /\ Fits("new_expected_completion_time")
  BY Enumerations, Converters DEF TextKeys, RouteStatuses, RouteScheduled, Codec,
      RouteScheduledCodec
<1>6. /\ MapRouteScheduled.resource_type \in DOMAIN AuditResourceType
      /\ MapRouteScheduled.action \in Actions
  BY DEF AuditResourceType, Actions, MapRouteScheduled, Descriptor
<1>7. Tells("route_id") /\ Tells("previous_status") /\ Tells("new_status") /\
          Tells("previous_departure_time") /\ Tells("new_departure_time") /\
          Tells("previous_expected_completion_time") /\ Tells("new_expected_completion_time")
  BY Enumerations, Entries DEF RouteStatuses, RouteScheduled, MapRouteScheduled, Descriptor,
      Shown, AsId, AsValue, AsTime, ++
<1>8. \A k \in keys : Fits(k)
  BY <1>5
<1>9. \A k \in keys : Tells(k)
  BY <1>7
<1>10. "reasons" \in keys => "RouteScheduled" = "PackageStateReconciled"
  OBVIOUS
<1> HIDE DEF keys
<1> QED
  BY <1>1, <1>2, <1>3, <1>4, <1>6, <1>8, <1>9, <1>10, CatalogueEntries, MappingEntries,
      CodecIdentities DEF CodecFits, AuditFits

LEMMA PackageAssignedToRouteFits ==
  CodecFits("PackageAssignedToRoute", PackageAssignedToRouteCodec) /\ AuditFits("PackageAssignedToRoute")
<1> DEFINE keys == {"package_id", "previous_route_id", "new_route_id",
                 "previous_expected_arrival", "new_expected_arrival"}
           Fits(k) == FieldFits(PackageAssignedToRouteCodec.payload[k], PackageAssignedToRoute.fields[k], k)
           Tells(k) == FieldShown(MapPackageAssignedToRoute.payload[k], PackageAssignedToRoute.fields[k])
<1>1. DOMAIN PackageAssignedToRoute.fields = keys /\ DOMAIN PackageAssignedToRouteCodec.payload = keys
  BY DEF PackageAssignedToRoute, Codec, PackageAssignedToRouteCodec
<1>2. DOMAIN MapPackageAssignedToRoute.payload = keys
  BY DEF MapPackageAssignedToRoute, Descriptor, Shown, AsId, AsTime, ++
<1>3. PackageAssignedToRouteCodec.event_version = PackageAssignedToRoute.version
  BY DEF PackageAssignedToRoute, PackageAssignedToRouteCodec, Codec
<1>4. \A d \in Codecs :
        d.event_class = "PackageAssignedToRoute" \/ d.event_type = "package_assigned_to_route"
          => d = PackageAssignedToRouteCodec
  BY CodecIdentities DEF Codecs
<1>5. Fits("package_id") /\ Fits("previous_route_id") /\ Fits("new_route_id") /\
          Fits("previous_expected_arrival") /\ Fits("new_expected_arrival")
  BY Enumerations, Converters DEF TextKeys, PackageAssignedToRoute, Codec,
      PackageAssignedToRouteCodec
<1>6. /\ MapPackageAssignedToRoute.resource_type \in DOMAIN AuditResourceType
      /\ MapPackageAssignedToRoute.action \in Actions
  BY DEF AuditResourceType, Actions, MapPackageAssignedToRoute, Descriptor
<1>7. Tells("package_id") /\ Tells("previous_route_id") /\ Tells("new_route_id") /\
          Tells("previous_expected_arrival") /\ Tells("new_expected_arrival")
  BY Enumerations, Entries DEF PackageAssignedToRoute, MapPackageAssignedToRoute, Descriptor,
      Shown, AsId, AsTime, ++
<1>8. \A k \in keys : Fits(k)
  BY <1>5
<1>9. \A k \in keys : Tells(k)
  BY <1>7
<1>10. "reasons" \in keys => "PackageAssignedToRoute" = "PackageStateReconciled"
  OBVIOUS
<1> HIDE DEF keys
<1> QED
  BY <1>1, <1>2, <1>3, <1>4, <1>6, <1>8, <1>9, <1>10, CatalogueEntries, MappingEntries,
      CodecIdentities DEF CodecFits, AuditFits

LEMMA PackageDetachedFromRouteFits ==
  CodecFits("PackageDetachedFromRoute", PackageDetachedFromRouteCodec) /\ AuditFits("PackageDetachedFromRoute")
<1> DEFINE keys == {"package_id", "previous_route_id", "new_route_id", "previous_status",
                 "new_status", "previous_location", "new_location", "previous_expected_arrival",
                 "new_expected_arrival", "reason"}
           Fits(k) == FieldFits(PackageDetachedFromRouteCodec.payload[k], PackageDetachedFromRoute.fields[k], k)
           Tells(k) == FieldShown(MapPackageDetachedFromRoute.payload[k], PackageDetachedFromRoute.fields[k])
<1>1. DOMAIN PackageDetachedFromRoute.fields = keys /\ DOMAIN PackageDetachedFromRouteCodec.payload = keys
  BY DEF PackageDetachedFromRoute, Codec, PackageDetachedFromRouteCodec
<1>2. DOMAIN MapPackageDetachedFromRoute.payload = keys
  BY DEF MapPackageDetachedFromRoute, Descriptor, Shown, AsId, As, AsValue, AsTime, ++
<1>3. PackageDetachedFromRouteCodec.event_version = PackageDetachedFromRoute.version
  BY DEF PackageDetachedFromRoute, PackageDetachedFromRouteCodec, Codec
<1>4. \A d \in Codecs :
        d.event_class = "PackageDetachedFromRoute" \/ d.event_type = "package_detached_from_route"
          => d = PackageDetachedFromRouteCodec
  BY CodecIdentities DEF Codecs
<1>5. Fits("package_id") /\ Fits("previous_route_id") /\ Fits("new_route_id") /\
          Fits("previous_status") /\ Fits("new_status") /\ Fits("previous_location") /\
          Fits("new_location") /\ Fits("previous_expected_arrival") /\
          Fits("new_expected_arrival") /\ Fits("reason")
  BY Enumerations, Converters DEF TextKeys, ItemStatuses, PackageDetachedFromRoute, Codec,
      PackageDetachedFromRouteCodec
<1>6. /\ MapPackageDetachedFromRoute.resource_type \in DOMAIN AuditResourceType
      /\ MapPackageDetachedFromRoute.action \in Actions
  BY DEF AuditResourceType, Actions, MapPackageDetachedFromRoute, Descriptor
<1>7. Tells("package_id") /\ Tells("previous_route_id") /\ Tells("new_route_id") /\
          Tells("previous_status") /\ Tells("new_status") /\ Tells("previous_location") /\
          Tells("new_location") /\ Tells("previous_expected_arrival") /\
          Tells("new_expected_arrival") /\ Tells("reason")
  BY Enumerations, Entries DEF ItemStatuses, PackageDetachedFromRoute,
      MapPackageDetachedFromRoute, Descriptor, Shown, AsId, As, AsValue, AsTime, ++
<1>8. \A k \in keys : Fits(k)
  BY <1>5
<1>9. \A k \in keys : Tells(k)
  BY <1>7
<1>10. "reasons" \in keys => "PackageDetachedFromRoute" = "PackageStateReconciled"
  OBVIOUS
<1> HIDE DEF keys
<1> QED
  BY <1>1, <1>2, <1>3, <1>4, <1>6, <1>8, <1>9, <1>10, CatalogueEntries, MappingEntries,
      CodecIdentities DEF CodecFits, AuditFits

LEMMA TruckAssignedToRouteFits ==
  CodecFits("TruckAssignedToRoute", TruckAssignedToRouteCodec) /\ AuditFits("TruckAssignedToRoute")
<1> DEFINE keys == {"truck_id", "previous_route_id", "new_route_id", "previous_status",
                 "new_status", "previous_location", "new_location", "previous_busy_from",
                 "new_busy_from", "previous_busy_until", "new_busy_until"}
           Fits(k) == FieldFits(TruckAssignedToRouteCodec.payload[k], TruckAssignedToRoute.fields[k], k)
           Tells(k) == FieldShown(MapTruckAssignedToRoute.payload[k], TruckAssignedToRoute.fields[k])
<1>1. DOMAIN TruckAssignedToRoute.fields = keys /\ DOMAIN TruckAssignedToRouteCodec.payload = keys
  BY DEF TruckAssignedToRoute, Codec, TruckAssignedToRouteCodec
<1>2. DOMAIN MapTruckAssignedToRoute.payload = keys
  BY DEF MapTruckAssignedToRoute, Descriptor, Shown, TruckBinding, AsId, As, AsValue, AsTime, ++
<1>3. TruckAssignedToRouteCodec.event_version = TruckAssignedToRoute.version
  BY DEF TruckAssignedToRoute, TruckAssignedToRouteCodec, Codec
<1>4. \A d \in Codecs :
        d.event_class = "TruckAssignedToRoute" \/ d.event_type = "truck_assigned_to_route"
          => d = TruckAssignedToRouteCodec
  BY CodecIdentities DEF Codecs
<1>5. Fits("truck_id") /\ Fits("previous_route_id") /\ Fits("new_route_id") /\
          Fits("previous_status") /\ Fits("new_status") /\ Fits("previous_location") /\
          Fits("new_location") /\ Fits("previous_busy_from") /\ Fits("new_busy_from") /\
          Fits("previous_busy_until") /\ Fits("new_busy_until")
  BY Enumerations, Converters DEF TextKeys, TruckStatuses, TruckAssignedToRoute, Codec,
      TruckAssignedToRouteCodec
<1>6. /\ MapTruckAssignedToRoute.resource_type \in DOMAIN AuditResourceType
      /\ MapTruckAssignedToRoute.action \in Actions
  BY DEF AuditResourceType, Actions, MapTruckAssignedToRoute, Descriptor
<1>7. Tells("truck_id") /\ Tells("previous_route_id") /\ Tells("new_route_id") /\
          Tells("previous_status") /\ Tells("new_status") /\ Tells("previous_location") /\
          Tells("new_location") /\ Tells("previous_busy_from") /\ Tells("new_busy_from") /\
          Tells("previous_busy_until") /\ Tells("new_busy_until")
  BY Enumerations, Entries DEF TruckStatuses, TruckAssignedToRoute, MapTruckAssignedToRoute,
      Descriptor, Shown, TruckBinding, AsId, As, AsValue, AsTime, ++
<1>8. \A k \in keys : Fits(k)
  BY <1>5
<1>9. \A k \in keys : Tells(k)
  BY <1>7
<1>10. "reasons" \in keys => "TruckAssignedToRoute" = "PackageStateReconciled"
  OBVIOUS
<1> HIDE DEF keys
<1> QED
  BY <1>1, <1>2, <1>3, <1>4, <1>6, <1>8, <1>9, <1>10, CatalogueEntries, MappingEntries,
      CodecIdentities DEF CodecFits, AuditFits

LEMMA TruckReleasedFromRouteFits ==
  CodecFits("TruckReleasedFromRoute", TruckReleasedFromRouteCodec) /\ AuditFits("TruckReleasedFromRoute")
<1> DEFINE keys == {"truck_id", "previous_route_id", "new_route_id", "previous_status",
                 "new_status", "previous_location", "new_location", "previous_busy_from",
                 "new_busy_from", "previous_busy_until", "new_busy_until", "reason"}
           Fits(k) == FieldFits(TruckReleasedFromRouteCodec.payload[k], TruckReleasedFromRoute.fields[k], k)
           Tells(k) == FieldShown(MapTruckReleasedFromRoute.payload[k], TruckReleasedFromRoute.fields[k])
<1>1. DOMAIN TruckReleasedFromRoute.fields = keys /\ DOMAIN TruckReleasedFromRouteCodec.payload = keys
  BY DEF TruckReleasedFromRoute, Codec, TruckReleasedFromRouteCodec
<1>2. DOMAIN MapTruckReleasedFromRoute.payload = keys
  BY DEF MapTruckReleasedFromRoute, Descriptor, Shown, TruckBinding, AsId, As, AsValue, AsTime,
      ++
<1>3. TruckReleasedFromRouteCodec.event_version = TruckReleasedFromRoute.version
  BY DEF TruckReleasedFromRoute, TruckReleasedFromRouteCodec, Codec
<1>4. \A d \in Codecs :
        d.event_class = "TruckReleasedFromRoute" \/ d.event_type = "truck_released_from_route"
          => d = TruckReleasedFromRouteCodec
  BY CodecIdentities DEF Codecs
<1>5. Fits("truck_id") /\ Fits("previous_route_id") /\ Fits("new_route_id") /\
          Fits("previous_status") /\ Fits("new_status") /\ Fits("previous_location") /\
          Fits("new_location") /\ Fits("previous_busy_from") /\ Fits("new_busy_from") /\
          Fits("previous_busy_until") /\ Fits("new_busy_until") /\ Fits("reason")
  BY Enumerations, Converters DEF TextKeys, TruckStatuses, TruckReleasedFromRoute, Codec,
      TruckReleasedFromRouteCodec
<1>6. /\ MapTruckReleasedFromRoute.resource_type \in DOMAIN AuditResourceType
      /\ MapTruckReleasedFromRoute.action \in Actions
  BY DEF AuditResourceType, Actions, MapTruckReleasedFromRoute, Descriptor
<1>7. Tells("truck_id") /\ Tells("previous_route_id") /\ Tells("new_route_id") /\
          Tells("previous_status") /\ Tells("new_status") /\ Tells("previous_location") /\
          Tells("new_location") /\ Tells("previous_busy_from") /\ Tells("new_busy_from") /\
          Tells("previous_busy_until") /\ Tells("new_busy_until") /\ Tells("reason")
  BY Enumerations, Entries DEF TruckStatuses, TruckReleasedFromRoute, MapTruckReleasedFromRoute,
      Descriptor, Shown, TruckBinding, AsId, As, AsValue, AsTime, ++
<1>8. \A k \in keys : Fits(k)
  BY <1>5
<1>9. \A k \in keys : Tells(k)
  BY <1>7
<1>10. "reasons" \in keys => "TruckReleasedFromRoute" = "PackageStateReconciled"
  OBVIOUS
<1> HIDE DEF keys
<1> QED
  BY <1>1, <1>2, <1>3, <1>4, <1>6, <1>8, <1>9, <1>10, CatalogueEntries, MappingEntries,
      CodecIdentities DEF CodecFits, AuditFits

LEMMA RouteStartedFits ==
  CodecFits("RouteStarted", RouteStartedCodec) /\ AuditFits("RouteStarted")
<1> DEFINE keys == {"route_id", "previous_status", "new_status"}
           Fits(k) == FieldFits(RouteStartedCodec.payload[k], RouteStarted.fields[k], k)
           Tells(k) == FieldShown(MapRouteStarted.payload[k], RouteStarted.fields[k])
<1>1. DOMAIN RouteStarted.fields = keys /\ DOMAIN RouteStartedCodec.payload = keys
  BY DEF RouteStarted, Codec, RouteStartedCodec
<1>2. DOMAIN MapRouteStarted.payload = keys
  BY DEF MapRouteStarted, Descriptor, Shown, AsId, AsValue, ++
<1>3. RouteStartedCodec.event_version = RouteStarted.version
  BY DEF RouteStarted, RouteStartedCodec, Codec
<1>4. \A d \in Codecs :
        d.event_class = "RouteStarted" \/ d.event_type = "route_started"
          => d = RouteStartedCodec
  BY CodecIdentities DEF Codecs
<1>5. Fits("route_id") /\ Fits("previous_status") /\ Fits("new_status")
  BY Enumerations, Converters DEF TextKeys, RouteStatuses, RouteStarted, Codec,
      RouteStartedCodec
<1>6. /\ MapRouteStarted.resource_type \in DOMAIN AuditResourceType
      /\ MapRouteStarted.action \in Actions
  BY DEF AuditResourceType, Actions, MapRouteStarted, Descriptor
<1>7. Tells("route_id") /\ Tells("previous_status") /\ Tells("new_status")
  BY Enumerations, Entries DEF RouteStatuses, RouteStarted, MapRouteStarted, Descriptor, Shown,
      AsId, AsValue, ++
<1>8. \A k \in keys : Fits(k)
  BY <1>5
<1>9. \A k \in keys : Tells(k)
  BY <1>7
<1>10. "reasons" \in keys => "RouteStarted" = "PackageStateReconciled"
  OBVIOUS
<1> HIDE DEF keys
<1> QED
  BY <1>1, <1>2, <1>3, <1>4, <1>6, <1>8, <1>9, <1>10, CatalogueEntries, MappingEntries,
      CodecIdentities DEF CodecFits, AuditFits

LEMMA RouteCompletedFits ==
  CodecFits("RouteCompleted", RouteCompletedCodec) /\ AuditFits("RouteCompleted")
<1> DEFINE keys == {"route_id", "previous_status", "new_status", "departure_time",
                 "expected_completion_time"}
           Fits(k) == FieldFits(RouteCompletedCodec.payload[k], RouteCompleted.fields[k], k)
           Tells(k) == FieldShown(MapRouteCompleted.payload[k], RouteCompleted.fields[k])
<1>1. DOMAIN RouteCompleted.fields = keys /\ DOMAIN RouteCompletedCodec.payload = keys
  BY DEF RouteCompleted, Codec, RouteCompletedCodec
<1>2. DOMAIN MapRouteCompleted.payload = keys
  BY DEF MapRouteCompleted, Descriptor, Shown, AsId, AsValue, AsTime, ++
<1>3. RouteCompletedCodec.event_version = RouteCompleted.version
  BY DEF RouteCompleted, RouteCompletedCodec, Codec
<1>4. \A d \in Codecs :
        d.event_class = "RouteCompleted" \/ d.event_type = "route_completed"
          => d = RouteCompletedCodec
  BY CodecIdentities DEF Codecs
<1>5. Fits("route_id") /\ Fits("previous_status") /\ Fits("new_status") /\
          Fits("departure_time") /\ Fits("expected_completion_time")
  BY Enumerations, Converters DEF TextKeys, RouteStatuses, RouteCompleted, Codec,
      RouteCompletedCodec
<1>6. /\ MapRouteCompleted.resource_type \in DOMAIN AuditResourceType
      /\ MapRouteCompleted.action \in Actions
  BY DEF AuditResourceType, Actions, MapRouteCompleted, Descriptor
<1>7. Tells("route_id") /\ Tells("previous_status") /\ Tells("new_status") /\
          Tells("departure_time") /\ Tells("expected_completion_time")
  BY Enumerations, Entries DEF RouteStatuses, RouteCompleted, MapRouteCompleted, Descriptor,
      Shown, AsId, AsValue, AsTime, ++
<1>8. \A k \in keys : Fits(k)
  BY <1>5
<1>9. \A k \in keys : Tells(k)
  BY <1>7
<1>10. "reasons" \in keys => "RouteCompleted" = "PackageStateReconciled"
  OBVIOUS
<1> HIDE DEF keys
<1> QED
  BY <1>1, <1>2, <1>3, <1>4, <1>6, <1>8, <1>9, <1>10, CatalogueEntries, MappingEntries,
      CodecIdentities DEF CodecFits, AuditFits

LEMMA RouteRemovedFits ==
  CodecFits("RouteRemoved", RouteRemovedCodec) /\ AuditFits("RouteRemoved")
<1> DEFINE keys == {"route_id", "previous_status", "previous_locations",
                 "previous_departure_time", "previous_expected_completion_time",
                 "detached_package_ids", "released_truck_id"}
           Fits(k) == FieldFits(RouteRemovedCodec.payload[k], RouteRemoved.fields[k], k)
           Tells(k) == FieldShown(MapRouteRemoved.payload[k], RouteRemoved.fields[k])
<1>1. DOMAIN RouteRemoved.fields = keys /\ DOMAIN RouteRemovedCodec.payload = keys
  BY DEF RouteRemoved, Codec, RouteRemovedCodec
<1>2. DOMAIN MapRouteRemoved.payload = keys \ {"previous_departure_time"}
  BY DEF MapRouteRemoved, Descriptor, Shown, AsId, AsValue, As, AsIds, AsTime, ++
<1>3. RouteRemovedCodec.event_version = RouteRemoved.version
  BY DEF RouteRemoved, RouteRemovedCodec, Codec
<1>4. \A d \in Codecs :
        d.event_class = "RouteRemoved" \/ d.event_type = "route_removed"
          => d = RouteRemovedCodec
  BY CodecIdentities DEF Codecs
<1>5. Fits("route_id") /\ Fits("previous_status") /\ Fits("previous_locations") /\
          Fits("previous_departure_time") /\ Fits("previous_expected_completion_time") /\
          Fits("detached_package_ids") /\ Fits("released_truck_id")
  BY Enumerations, Converters, ListConverters DEF TextKeys, RouteStatuses, RouteRemoved, Codec,
      RouteRemovedCodec
<1>6. /\ MapRouteRemoved.resource_type \in DOMAIN AuditResourceType
      /\ MapRouteRemoved.action \in Actions
  BY DEF AuditResourceType, Actions, MapRouteRemoved, Descriptor
<1>7. Tells("route_id") /\ Tells("previous_status") /\ Tells("previous_locations") /\
          Tells("previous_expected_completion_time") /\ Tells("detached_package_ids") /\
          Tells("released_truck_id")
  BY Enumerations, Entries DEF RouteStatuses, RouteRemoved, MapRouteRemoved, Descriptor, Shown,
      AsId, AsValue, As, AsIds, AsTime, ++
<1>8. \A k \in keys : Fits(k)
  BY <1>5
<1>9. \A k \in keys : Tells(k) \/ <<"RouteRemoved", k>> \in Omitted
  BY <1>7 DEF Omitted
<1>10. "reasons" \in keys => "RouteRemoved" = "PackageStateReconciled"
  OBVIOUS
<1> HIDE DEF keys
<1> QED
  BY <1>1, <1>2, <1>3, <1>4, <1>6, <1>8, <1>9, <1>10, CatalogueEntries, MappingEntries,
      CodecIdentities DEF CodecFits, AuditFits, Omitted

LEMMA UserRegisteredFits ==
  CodecFits("UserRegistered", UserRegisteredCodec) /\ AuditFits("UserRegistered")
<1> DEFINE keys == {"user_id", "username", "role"}
           Fits(k) == FieldFits(UserRegisteredCodec.payload[k], UserRegistered.fields[k], k)
           Tells(k) == FieldShown(MapUserRegistered.payload[k], UserRegistered.fields[k])
<1>1. DOMAIN UserRegistered.fields = keys /\ DOMAIN UserRegisteredCodec.payload = keys
  BY DEF UserRegistered, UserNamed, ++, Codec, UserRegisteredCodec
<1>2. DOMAIN MapUserRegistered.payload = keys
  BY DEF MapUserRegistered, Descriptor, Shown, UserIdentity, AsId, As, AsValue, ++
<1>3. UserRegisteredCodec.event_version = UserRegistered.version
  BY DEF UserRegistered, UserRegisteredCodec, Codec
<1>4. \A d \in Codecs :
        d.event_class = "UserRegistered" \/ d.event_type = "user_registered"
          => d = UserRegisteredCodec
  BY CodecIdentities DEF Codecs
<1>5. Fits("user_id") /\ Fits("username") /\ Fits("role")
  BY Enumerations, Converters DEF TextKeys, UserRegistered, UserNamed, ++, Codec,
      UserRegisteredCodec
<1>6. /\ MapUserRegistered.resource_type \in DOMAIN AuditResourceType
      /\ MapUserRegistered.action \in Actions
  BY DEF AuditResourceType, Actions, MapUserRegistered, Descriptor
<1>7. Tells("user_id") /\ Tells("username") /\ Tells("role")
  BY Enumerations, Entries DEF UserRegistered, UserNamed, ++, MapUserRegistered, Descriptor,
      Shown, UserIdentity, AsId, As, AsValue
<1>8. \A k \in keys : Fits(k)
  BY <1>5
<1>9. \A k \in keys : Tells(k)
  BY <1>7
<1>10. "reasons" \in keys => "UserRegistered" = "PackageStateReconciled"
  OBVIOUS
<1> HIDE DEF keys
<1> QED
  BY <1>1, <1>2, <1>3, <1>4, <1>6, <1>8, <1>9, <1>10, CatalogueEntries, MappingEntries,
      CodecIdentities DEF CodecFits, AuditFits

LEMMA UserRegistrationRejectedFits ==
  CodecFits("UserRegistrationRejected", UserRegistrationRejectedCodec) /\ AuditFits("UserRegistrationRejected")
<1> DEFINE keys == {"username", "reason"}
           Fits(k) == FieldFits(UserRegistrationRejectedCodec.payload[k], UserRegistrationRejected.fields[k], k)
           Tells(k) == FieldShown(MapUserRegistrationRejected.payload[k], UserRegistrationRejected.fields[k])
<1>1. DOMAIN UserRegistrationRejected.fields = keys /\ DOMAIN UserRegistrationRejectedCodec.payload = keys
  BY DEF UserRegistrationRejected, Codec, UserRegistrationRejectedCodec
<1>2. DOMAIN MapUserRegistrationRejected.payload = keys
  BY DEF MapUserRegistrationRejected, Descriptor, Shown, As, AsValue, ++
<1>3. UserRegistrationRejectedCodec.event_version = UserRegistrationRejected.version
  BY DEF UserRegistrationRejected, UserRegistrationRejectedCodec, Codec
<1>4. \A d \in Codecs :
        d.event_class = "UserRegistrationRejected" \/ d.event_type = "user_registration_rejected"
          => d = UserRegistrationRejectedCodec
  BY CodecIdentities DEF Codecs
<1>5. Fits("username") /\ Fits("reason")
  BY Enumerations, Converters DEF TextKeys, UserRegistrationRejected, Codec,
      UserRegistrationRejectedCodec
<1>6. /\ MapUserRegistrationRejected.resource_type \in DOMAIN AuditResourceType
      /\ MapUserRegistrationRejected.action \in Actions
  BY DEF AuditResourceType, Actions, MapUserRegistrationRejected, Descriptor
<1>7. Tells("username") /\ Tells("reason")
  BY Enumerations, Entries DEF UserRegistrationRejected, MapUserRegistrationRejected,
      Descriptor, Shown, As, AsValue, ++
<1>8. \A k \in keys : Fits(k)
  BY <1>5
<1>9. \A k \in keys : Tells(k)
  BY <1>7
<1>10. "reasons" \in keys => "UserRegistrationRejected" = "PackageStateReconciled"
  OBVIOUS
<1> HIDE DEF keys
<1> QED
  BY <1>1, <1>2, <1>3, <1>4, <1>6, <1>8, <1>9, <1>10, CatalogueEntries, MappingEntries,
      CodecIdentities DEF CodecFits, AuditFits

LEMMA UserPasswordChangedFits ==
  CodecFits("UserPasswordChanged", UserPasswordChangedCodec) /\ AuditFits("UserPasswordChanged")
<1> DEFINE keys == {"user_id", "username"}
           Fits(k) == FieldFits(UserPasswordChangedCodec.payload[k], UserPasswordChanged.fields[k], k)
           Tells(k) == FieldShown(MapUserPasswordChanged.payload[k], UserPasswordChanged.fields[k])
<1>1. DOMAIN UserPasswordChanged.fields = keys /\ DOMAIN UserPasswordChangedCodec.payload = keys
  BY DEF UserPasswordChanged, UserNamed, Codec, UserPasswordChangedCodec
<1>2. DOMAIN MapUserPasswordChanged.payload = keys
  BY DEF MapUserPasswordChanged, Descriptor, Shown, UserIdentity, AsId, As, ++
<1>3. UserPasswordChangedCodec.event_version = UserPasswordChanged.version
  BY DEF UserPasswordChanged, UserPasswordChangedCodec, Codec
<1>4. \A d \in Codecs :
        d.event_class = "UserPasswordChanged" \/ d.event_type = "user_password_changed"
          => d = UserPasswordChangedCodec
  BY CodecIdentities DEF Codecs
<1>5. Fits("user_id") /\ Fits("username")
  BY Enumerations, Converters DEF TextKeys, UserPasswordChanged, UserNamed, Codec,
      UserPasswordChangedCodec
<1>6. /\ MapUserPasswordChanged.resource_type \in DOMAIN AuditResourceType
      /\ MapUserPasswordChanged.action \in Actions
  BY DEF AuditResourceType, Actions, MapUserPasswordChanged, Descriptor
<1>7. Tells("user_id") /\ Tells("username")
  BY Enumerations, Entries DEF UserPasswordChanged, UserNamed, MapUserPasswordChanged,
      Descriptor, Shown, UserIdentity, AsId, As, ++
<1>8. \A k \in keys : Fits(k)
  BY <1>5
<1>9. \A k \in keys : Tells(k)
  BY <1>7
<1>10. "reasons" \in keys => "UserPasswordChanged" = "PackageStateReconciled"
  OBVIOUS
<1> HIDE DEF keys
<1> QED
  BY <1>1, <1>2, <1>3, <1>4, <1>6, <1>8, <1>9, <1>10, CatalogueEntries, MappingEntries,
      CodecIdentities DEF CodecFits, AuditFits

LEMMA UserPasswordChangeRejectedFits ==
  CodecFits("UserPasswordChangeRejected", UserPasswordChangeRejectedCodec) /\ AuditFits("UserPasswordChangeRejected")
<1> DEFINE keys == {"user_id", "username", "reason"}
           Fits(k) == FieldFits(UserPasswordChangeRejectedCodec.payload[k], UserPasswordChangeRejected.fields[k], k)
           Tells(k) == FieldShown(MapUserPasswordChangeRejected.payload[k], UserPasswordChangeRejected.fields[k])
<1>1. DOMAIN UserPasswordChangeRejected.fields = keys /\ DOMAIN UserPasswordChangeRejectedCodec.payload = keys
  BY DEF UserPasswordChangeRejected, UserNamed, MaybeUserNamed, ++, Codec,
      UserPasswordChangeRejectedCodec
<1>2. DOMAIN MapUserPasswordChangeRejected.payload = keys
  BY DEF MapUserPasswordChangeRejected, Descriptor, Shown, UserIdentity, AsId, As, AsValue, ++
<1>3. UserPasswordChangeRejectedCodec.event_version = UserPasswordChangeRejected.version
  BY DEF UserPasswordChangeRejected, UserPasswordChangeRejectedCodec, Codec
<1>4. \A d \in Codecs :
        d.event_class = "UserPasswordChangeRejected" \/ d.event_type = "user_password_change_rejected"
          => d = UserPasswordChangeRejectedCodec
  BY CodecIdentities DEF Codecs
<1>5. Fits("user_id") /\ Fits("username") /\ Fits("reason")
  BY Enumerations, Converters DEF TextKeys, UserPasswordChangeRejected, UserNamed,
      MaybeUserNamed, ++, Codec, UserPasswordChangeRejectedCodec
<1>6. /\ MapUserPasswordChangeRejected.resource_type \in DOMAIN AuditResourceType
      /\ MapUserPasswordChangeRejected.action \in Actions
  BY DEF AuditResourceType, Actions, MapUserPasswordChangeRejected, Descriptor
<1>7. Tells("user_id") /\ Tells("username") /\ Tells("reason")
  BY Enumerations, Entries DEF UserPasswordChangeRejected, UserNamed, MaybeUserNamed, ++,
      MapUserPasswordChangeRejected, Descriptor, Shown, UserIdentity, AsId, As, AsValue
<1>8. \A k \in keys : Fits(k)
  BY <1>5
<1>9. \A k \in keys : Tells(k)
  BY <1>7
<1>10. "reasons" \in keys => "UserPasswordChangeRejected" = "PackageStateReconciled"
  OBVIOUS
<1> HIDE DEF keys
<1> QED
  BY <1>1, <1>2, <1>3, <1>4, <1>6, <1>8, <1>9, <1>10, CatalogueEntries, MappingEntries,
      CodecIdentities DEF CodecFits, AuditFits

LEMMA UserPasswordResetFits ==
  CodecFits("UserPasswordReset", UserPasswordResetCodec) /\ AuditFits("UserPasswordReset")
<1> DEFINE keys == {"user_id", "username"}
           Fits(k) == FieldFits(UserPasswordResetCodec.payload[k], UserPasswordReset.fields[k], k)
           Tells(k) == FieldShown(MapUserPasswordReset.payload[k], UserPasswordReset.fields[k])
<1>1. DOMAIN UserPasswordReset.fields = keys /\ DOMAIN UserPasswordResetCodec.payload = keys
  BY DEF UserPasswordReset, UserNamed, Codec, UserPasswordResetCodec
<1>2. DOMAIN MapUserPasswordReset.payload = keys
  BY DEF MapUserPasswordReset, Descriptor, Shown, UserIdentity, AsId, As, ++
<1>3. UserPasswordResetCodec.event_version = UserPasswordReset.version
  BY DEF UserPasswordReset, UserPasswordResetCodec, Codec
<1>4. \A d \in Codecs :
        d.event_class = "UserPasswordReset" \/ d.event_type = "user_password_reset"
          => d = UserPasswordResetCodec
  BY CodecIdentities DEF Codecs
<1>5. Fits("user_id") /\ Fits("username")
  BY Enumerations, Converters DEF TextKeys, UserPasswordReset, UserNamed, Codec,
      UserPasswordResetCodec
<1>6. /\ MapUserPasswordReset.resource_type \in DOMAIN AuditResourceType
      /\ MapUserPasswordReset.action \in Actions
  BY DEF AuditResourceType, Actions, MapUserPasswordReset, Descriptor
<1>7. Tells("user_id") /\ Tells("username")
  BY Enumerations, Entries DEF UserPasswordReset, UserNamed, MapUserPasswordReset, Descriptor,
      Shown, UserIdentity, AsId, As, ++
<1>8. \A k \in keys : Fits(k)
  BY <1>5
<1>9. \A k \in keys : Tells(k)
  BY <1>7
<1>10. "reasons" \in keys => "UserPasswordReset" = "PackageStateReconciled"
  OBVIOUS
<1> HIDE DEF keys
<1> QED
  BY <1>1, <1>2, <1>3, <1>4, <1>6, <1>8, <1>9, <1>10, CatalogueEntries, MappingEntries,
      CodecIdentities DEF CodecFits, AuditFits

LEMMA UserPasswordResetRejectedFits ==
  CodecFits("UserPasswordResetRejected", UserPasswordResetRejectedCodec) /\ AuditFits("UserPasswordResetRejected")
<1> DEFINE keys == {"user_id", "username", "reason"}
           Fits(k) == FieldFits(UserPasswordResetRejectedCodec.payload[k], UserPasswordResetRejected.fields[k], k)
           Tells(k) == FieldShown(MapUserPasswordResetRejected.payload[k], UserPasswordResetRejected.fields[k])
<1>1. DOMAIN UserPasswordResetRejected.fields = keys /\ DOMAIN UserPasswordResetRejectedCodec.payload = keys
  BY DEF UserPasswordResetRejected, UserNamed, MaybeUserNamed, ++, Codec,
      UserPasswordResetRejectedCodec
<1>2. DOMAIN MapUserPasswordResetRejected.payload = keys
  BY DEF MapUserPasswordResetRejected, Descriptor, Shown, UserIdentity, AsId, As, AsValue, ++
<1>3. UserPasswordResetRejectedCodec.event_version = UserPasswordResetRejected.version
  BY DEF UserPasswordResetRejected, UserPasswordResetRejectedCodec, Codec
<1>4. \A d \in Codecs :
        d.event_class = "UserPasswordResetRejected" \/ d.event_type = "user_password_reset_rejected"
          => d = UserPasswordResetRejectedCodec
  BY CodecIdentities DEF Codecs
<1>5. Fits("user_id") /\ Fits("username") /\ Fits("reason")
  BY Enumerations, Converters DEF TextKeys, UserPasswordResetRejected, UserNamed,
      MaybeUserNamed, ++, Codec, UserPasswordResetRejectedCodec
<1>6. /\ MapUserPasswordResetRejected.resource_type \in DOMAIN AuditResourceType
      /\ MapUserPasswordResetRejected.action \in Actions
  BY DEF AuditResourceType, Actions, MapUserPasswordResetRejected, Descriptor
<1>7. Tells("user_id") /\ Tells("username") /\ Tells("reason")
  BY Enumerations, Entries DEF UserPasswordResetRejected, UserNamed, MaybeUserNamed, ++,
      MapUserPasswordResetRejected, Descriptor, Shown, UserIdentity, AsId, As, AsValue
<1>8. \A k \in keys : Fits(k)
  BY <1>5
<1>9. \A k \in keys : Tells(k)
  BY <1>7
<1>10. "reasons" \in keys => "UserPasswordResetRejected" = "PackageStateReconciled"
  OBVIOUS
<1> HIDE DEF keys
<1> QED
  BY <1>1, <1>2, <1>3, <1>4, <1>6, <1>8, <1>9, <1>10, CatalogueEntries, MappingEntries,
      CodecIdentities DEF CodecFits, AuditFits

LEMMA UserAuthenticatedFits ==
  CodecFits("UserAuthenticated", UserAuthenticatedCodec) /\ AuditFits("UserAuthenticated")
<1> DEFINE keys == {"user_id", "username", "role"}
           Fits(k) == FieldFits(UserAuthenticatedCodec.payload[k], UserAuthenticated.fields[k], k)
           Tells(k) == FieldShown(MapUserAuthenticated.payload[k], UserAuthenticated.fields[k])
<1>1. DOMAIN UserAuthenticated.fields = keys /\ DOMAIN UserAuthenticatedCodec.payload = keys
  BY DEF UserAuthenticated, UserNamed, ++, Codec, UserAuthenticatedCodec
<1>2. DOMAIN MapUserAuthenticated.payload = keys
  BY DEF MapUserAuthenticated, Descriptor, Shown, UserIdentity, AsId, As, AsValue, ++
<1>3. UserAuthenticatedCodec.event_version = UserAuthenticated.version
  BY DEF UserAuthenticated, UserAuthenticatedCodec, Codec
<1>4. \A d \in Codecs :
        d.event_class = "UserAuthenticated" \/ d.event_type = "user_authenticated"
          => d = UserAuthenticatedCodec
  BY CodecIdentities DEF Codecs
<1>5. Fits("user_id") /\ Fits("username") /\ Fits("role")
  BY Enumerations, Converters DEF TextKeys, UserAuthenticated, UserNamed, ++, Codec,
      UserAuthenticatedCodec
<1>6. /\ MapUserAuthenticated.resource_type \in DOMAIN AuditResourceType
      /\ MapUserAuthenticated.action \in Actions
  BY DEF AuditResourceType, Actions, MapUserAuthenticated, Descriptor
<1>7. Tells("user_id") /\ Tells("username") /\ Tells("role")
  BY Enumerations, Entries DEF UserAuthenticated, UserNamed, ++, MapUserAuthenticated,
      Descriptor, Shown, UserIdentity, AsId, As, AsValue
<1>8. \A k \in keys : Fits(k)
  BY <1>5
<1>9. \A k \in keys : Tells(k)
  BY <1>7
<1>10. "reasons" \in keys => "UserAuthenticated" = "PackageStateReconciled"
  OBVIOUS
<1> HIDE DEF keys
<1> QED
  BY <1>1, <1>2, <1>3, <1>4, <1>6, <1>8, <1>9, <1>10, CatalogueEntries, MappingEntries,
      CodecIdentities DEF CodecFits, AuditFits

LEMMA UserLoginRejectedFits ==
  CodecFits("UserLoginRejected", UserLoginRejectedCodec) /\ AuditFits("UserLoginRejected")
<1> DEFINE keys == {"user_id", "username", "reason"}
           Fits(k) == FieldFits(UserLoginRejectedCodec.payload[k], UserLoginRejected.fields[k], k)
           Tells(k) == FieldShown(MapUserLoginRejected.payload[k], UserLoginRejected.fields[k])
<1>1. DOMAIN UserLoginRejected.fields = keys /\ DOMAIN UserLoginRejectedCodec.payload = keys
  BY DEF UserLoginRejected, UserNamed, MaybeUserNamed, ++, Codec, UserLoginRejectedCodec
<1>2. DOMAIN MapUserLoginRejected.payload = keys
  BY DEF MapUserLoginRejected, Descriptor, Shown, UserIdentity, AsId, As, AsValue, ++
<1>3. UserLoginRejectedCodec.event_version = UserLoginRejected.version
  BY DEF UserLoginRejected, UserLoginRejectedCodec, Codec
<1>4. \A d \in Codecs :
        d.event_class = "UserLoginRejected" \/ d.event_type = "user_login_rejected"
          => d = UserLoginRejectedCodec
  BY CodecIdentities DEF Codecs
<1>5. Fits("user_id") /\ Fits("username") /\ Fits("reason")
  BY Enumerations, Converters DEF TextKeys, UserLoginRejected, UserNamed, MaybeUserNamed, ++,
      Codec, UserLoginRejectedCodec
<1>6. /\ MapUserLoginRejected.resource_type \in DOMAIN AuditResourceType
      /\ MapUserLoginRejected.action \in Actions
  BY DEF AuditResourceType, Actions, MapUserLoginRejected, Descriptor
<1>7. Tells("user_id") /\ Tells("username") /\ Tells("reason")
  BY Enumerations, Entries DEF UserLoginRejected, UserNamed, MaybeUserNamed, ++,
      MapUserLoginRejected, Descriptor, Shown, UserIdentity, AsId, As, AsValue
<1>8. \A k \in keys : Fits(k)
  BY <1>5
<1>9. \A k \in keys : Tells(k)
  BY <1>7
<1>10. "reasons" \in keys => "UserLoginRejected" = "PackageStateReconciled"
  OBVIOUS
<1> HIDE DEF keys
<1> QED
  BY <1>1, <1>2, <1>3, <1>4, <1>6, <1>8, <1>9, <1>10, CatalogueEntries, MappingEntries,
      CodecIdentities DEF CodecFits, AuditFits

LEMMA UserSessionEndedFits ==
  CodecFits("UserSessionEnded", UserSessionEndedCodec) /\ AuditFits("UserSessionEnded")
<1> DEFINE keys == {"user_id", "username"}
           Fits(k) == FieldFits(UserSessionEndedCodec.payload[k], UserSessionEnded.fields[k], k)
           Tells(k) == FieldShown(MapUserSessionEnded.payload[k], UserSessionEnded.fields[k])
<1>1. DOMAIN UserSessionEnded.fields = keys /\ DOMAIN UserSessionEndedCodec.payload = keys
  BY DEF UserSessionEnded, UserNamed, Codec, UserSessionEndedCodec
<1>2. DOMAIN MapUserSessionEnded.payload = keys
  BY DEF MapUserSessionEnded, Descriptor, Shown, UserIdentity, AsId, As, ++
<1>3. UserSessionEndedCodec.event_version = UserSessionEnded.version
  BY DEF UserSessionEnded, UserSessionEndedCodec, Codec
<1>4. \A d \in Codecs :
        d.event_class = "UserSessionEnded" \/ d.event_type = "user_session_ended"
          => d = UserSessionEndedCodec
  BY CodecIdentities DEF Codecs
<1>5. Fits("user_id") /\ Fits("username")
  BY Enumerations, Converters DEF TextKeys, UserSessionEnded, UserNamed, Codec,
      UserSessionEndedCodec
<1>6. /\ MapUserSessionEnded.resource_type \in DOMAIN AuditResourceType
      /\ MapUserSessionEnded.action \in Actions
  BY DEF AuditResourceType, Actions, MapUserSessionEnded, Descriptor
<1>7. Tells("user_id") /\ Tells("username")
  BY Enumerations, Entries DEF UserSessionEnded, UserNamed, MapUserSessionEnded, Descriptor,
      Shown, UserIdentity, AsId, As, ++
<1>8. \A k \in keys : Fits(k)
  BY <1>5
<1>9. \A k \in keys : Tells(k)
  BY <1>7
<1>10. "reasons" \in keys => "UserSessionEnded" = "PackageStateReconciled"
  OBVIOUS
<1> HIDE DEF keys
<1> QED
  BY <1>1, <1>2, <1>3, <1>4, <1>6, <1>8, <1>9, <1>10, CatalogueEntries, MappingEntries,
      CodecIdentities DEF CodecFits, AuditFits

LEMMA UserTokensRevokedFits ==
  CodecFits("UserTokensRevoked", UserTokensRevokedCodec) /\ AuditFits("UserTokensRevoked")
<1> DEFINE keys == {"user_id", "username", "reason"}
           Fits(k) == FieldFits(UserTokensRevokedCodec.payload[k], UserTokensRevoked.fields[k], k)
           Tells(k) == FieldShown(MapUserTokensRevoked.payload[k], UserTokensRevoked.fields[k])
<1>1. DOMAIN UserTokensRevoked.fields = keys /\ DOMAIN UserTokensRevokedCodec.payload = keys
  BY DEF UserTokensRevoked, UserNamed, ++, Codec, UserTokensRevokedCodec
<1>2. DOMAIN MapUserTokensRevoked.payload = keys
  BY DEF MapUserTokensRevoked, Descriptor, Shown, UserIdentity, AsId, As, AsValue, ++
<1>3. UserTokensRevokedCodec.event_version = UserTokensRevoked.version
  BY DEF UserTokensRevoked, UserTokensRevokedCodec, Codec
<1>4. \A d \in Codecs :
        d.event_class = "UserTokensRevoked" \/ d.event_type = "user_tokens_revoked"
          => d = UserTokensRevokedCodec
  BY CodecIdentities DEF Codecs
<1>5. Fits("user_id") /\ Fits("username") /\ Fits("reason")
  BY Enumerations, Converters DEF TextKeys, UserTokensRevoked, UserNamed, ++, Codec,
      UserTokensRevokedCodec
<1>6. /\ MapUserTokensRevoked.resource_type \in DOMAIN AuditResourceType
      /\ MapUserTokensRevoked.action \in Actions
  BY DEF AuditResourceType, Actions, MapUserTokensRevoked, Descriptor
<1>7. Tells("user_id") /\ Tells("username") /\ Tells("reason")
  BY Enumerations, Entries DEF UserTokensRevoked, UserNamed, ++, MapUserTokensRevoked,
      Descriptor, Shown, UserIdentity, AsId, As, AsValue
<1>8. \A k \in keys : Fits(k)
  BY <1>5
<1>9. \A k \in keys : Tells(k)
  BY <1>7
<1>10. "reasons" \in keys => "UserTokensRevoked" = "PackageStateReconciled"
  OBVIOUS
<1> HIDE DEF keys
<1> QED
  BY <1>1, <1>2, <1>3, <1>4, <1>6, <1>8, <1>9, <1>10, CatalogueEntries, MappingEntries,
      CodecIdentities DEF CodecFits, AuditFits

LEMMA AuthorizationDeniedFits ==
  CodecFits("AuthorizationDenied", AuthorizationDeniedCodec) /\ AuditFits("AuthorizationDenied")
<1> DEFINE keys == {"attempted_operation", "target_resource_type", "target_resource_id",
                 "required_permissions"}
           Fits(k) == FieldFits(AuthorizationDeniedCodec.payload[k], AuthorizationDenied.fields[k], k)
           Tells(k) == FieldShown(MapAuthorizationDenied.payload[k], AuthorizationDenied.fields[k])
<1>1. DOMAIN AuthorizationDenied.fields = keys /\ DOMAIN AuthorizationDeniedCodec.payload = keys
  BY DEF AuthorizationDenied, Codec, AuthorizationDeniedCodec
<1>2. DOMAIN MapAuthorizationDenied.payload = keys \ {"target_resource_type", "target_resource_id"}
  BY DEF MapAuthorizationDenied, Descriptor, Shown, AsValue, As, ++
<1>3. AuthorizationDeniedCodec.event_version = AuthorizationDenied.version
  BY DEF AuthorizationDenied, AuthorizationDeniedCodec, Codec
<1>4. \A d \in Codecs :
        d.event_class = "AuthorizationDenied" \/ d.event_type = "authorization_denied"
          => d = AuthorizationDeniedCodec
  BY CodecIdentities DEF Codecs
<1>5. Fits("attempted_operation") /\ Fits("target_resource_type") /\ Fits("target_resource_id")
          /\ Fits("required_permissions")
  BY Enumerations, Converters, ListConverters DEF TextKeys, AuthorizationDenied, Codec,
      AuthorizationDeniedCodec
<1>6. /\ MapAuthorizationDenied.resource_type \in DOMAIN AuditResourceType
      /\ MapAuthorizationDenied.action \in Actions
  BY DEF AuditResourceType, Actions, MapAuthorizationDenied, Descriptor
<1>7. Tells("attempted_operation") /\ Tells("required_permissions")
  BY Enumerations, Entries DEF AuthorizationDenied, MapAuthorizationDenied, Descriptor, Shown,
      AsValue, As, ++
<1>8. \A k \in keys : Fits(k)
  BY <1>5
<1>9. \A k \in keys : Tells(k) \/ IsTarget("AuthorizationDenied", k)
  BY <1>7 DEF IsTarget
<1>10. "reasons" \in keys => "AuthorizationDenied" = "PackageStateReconciled"
  OBVIOUS
<1> HIDE DEF keys
<1> QED
  BY <1>1, <1>2, <1>3, <1>4, <1>6, <1>8, <1>9, <1>10, CatalogueEntries, MappingEntries,
      CodecIdentities DEF CodecFits, AuditFits, IsTarget

LEMMA FleetSeededFits ==
  CodecFits("FleetSeeded", FleetSeededCodec) /\ AuditFits("FleetSeeded")
<1> DEFINE keys == {"seeded_truck_ids", "backend"}
           Fits(k) == FieldFits(FleetSeededCodec.payload[k], FleetSeeded.fields[k], k)
           Tells(k) == FieldShown(MapFleetSeeded.payload[k], FleetSeeded.fields[k])
<1>1. DOMAIN FleetSeeded.fields = keys /\ DOMAIN FleetSeededCodec.payload = keys
  BY DEF FleetSeeded, Codec, FleetSeededCodec
<1>2. DOMAIN MapFleetSeeded.payload = keys
  BY DEF MapFleetSeeded, Descriptor, Shown, As
<1>3. FleetSeededCodec.event_version = FleetSeeded.version
  BY DEF FleetSeeded, FleetSeededCodec, Codec
<1>4. \A d \in Codecs :
        d.event_class = "FleetSeeded" \/ d.event_type = "fleet_seeded"
          => d = FleetSeededCodec
  BY CodecIdentities DEF Codecs
<1>5. Fits("seeded_truck_ids") /\ Fits("backend")
  BY Enumerations, Converters, ListConverters DEF TextKeys, FleetSeeded, Codec, FleetSeededCodec
<1>6. /\ MapFleetSeeded.resource_type \in DOMAIN AuditResourceType
      /\ MapFleetSeeded.action \in Actions
  BY DEF AuditResourceType, Actions, MapFleetSeeded, Descriptor
<1>7. Tells("seeded_truck_ids") /\ Tells("backend")
  BY Enumerations, Entries DEF FleetSeeded, MapFleetSeeded, Descriptor, Shown, As
<1>8. \A k \in keys : Fits(k)
  BY <1>5
<1>9. \A k \in keys : Tells(k)
  BY <1>7
<1>10. "reasons" \in keys => "FleetSeeded" = "PackageStateReconciled"
  OBVIOUS
<1> HIDE DEF keys
<1> QED
  BY <1>1, <1>2, <1>3, <1>4, <1>6, <1>8, <1>9, <1>10, CatalogueEntries, MappingEntries,
      CodecIdentities DEF CodecFits, AuditFits

LEMMA WorldStateExportedFits ==
  CodecFits("WorldStateExported", WorldStateExportedCodec) /\ AuditFits("WorldStateExported")
<1> DEFINE keys == {"snapshot_path", "schema_version", "customer_count", "package_count",
                 "route_count", "truck_count"}
           Fits(k) == FieldFits(WorldStateExportedCodec.payload[k], WorldStateExported.fields[k], k)
           Tells(k) == FieldShown(MapWorldStateExported.payload[k], WorldStateExported.fields[k])
<1>1. DOMAIN WorldStateExported.fields = keys /\ DOMAIN WorldStateExportedCodec.payload = keys
  BY DEF WorldStateExported, EntityCounts, SnapshotAt, ++, Codec, WorldStateExportedCodec,
      EntityCountCodec
<1>2. DOMAIN MapWorldStateExported.payload = keys
  BY DEF MapWorldStateExported, Descriptor, Shown, WorldStateDescriptor, SnapshotShown, As, ++,
      SnapshotAt, EntityCounts
<1>3. WorldStateExportedCodec.event_version = WorldStateExported.version
  BY DEF WorldStateExported, WorldStateExportedCodec, Codec
<1>4. \A d \in Codecs :
        d.event_class = "WorldStateExported" \/ d.event_type = "world_state_exported"
          => d = WorldStateExportedCodec
  BY CodecIdentities DEF Codecs
<1>5. Fits("snapshot_path") /\ Fits("schema_version") /\ Fits("customer_count") /\
          Fits("package_count") /\ Fits("route_count") /\ Fits("truck_count")
  BY Enumerations, Converters DEF TextKeys, WorldStateExported, EntityCounts, SnapshotAt, ++,
      Codec, WorldStateExportedCodec, EntityCountCodec
<1>6. /\ MapWorldStateExported.resource_type \in DOMAIN AuditResourceType
      /\ MapWorldStateExported.action \in Actions
  BY DEF AuditResourceType, Actions, MapWorldStateExported, Descriptor, WorldStateDescriptor
<1>7. Tells("snapshot_path") /\ Tells("schema_version") /\ Tells("customer_count") /\
          Tells("package_count") /\ Tells("route_count") /\ Tells("truck_count")
  BY Enumerations, Entries DEF WorldStateExported, EntityCounts, SnapshotAt, ++,
      MapWorldStateExported, Descriptor, Shown, WorldStateDescriptor, SnapshotShown, As
<1>8. \A k \in keys : Fits(k)
  BY <1>5
<1>9. \A k \in keys : Tells(k)
  BY <1>7
<1>10. "reasons" \in keys => "WorldStateExported" = "PackageStateReconciled"
  OBVIOUS
<1> HIDE DEF keys
<1> QED
  BY <1>1, <1>2, <1>3, <1>4, <1>6, <1>8, <1>9, <1>10, CatalogueEntries, MappingEntries,
      CodecIdentities DEF CodecFits, AuditFits

LEMMA WorldStateExportFailedFits ==
  CodecFits("WorldStateExportFailed", WorldStateExportFailedCodec) /\ AuditFits("WorldStateExportFailed")
<1> DEFINE keys == {"snapshot_path", "schema_version", "reason"}
           Fits(k) == FieldFits(WorldStateExportFailedCodec.payload[k], WorldStateExportFailed.fields[k], k)
           Tells(k) == FieldShown(MapWorldStateExportFailed.payload[k], WorldStateExportFailed.fields[k])
<1>1. DOMAIN WorldStateExportFailed.fields = keys /\ DOMAIN WorldStateExportFailedCodec.payload = keys
  BY DEF WorldStateExportFailed, SnapshotFailure, Codec, WorldStateExportFailedCodec
<1>2. DOMAIN MapWorldStateExportFailed.payload = keys
  BY DEF MapWorldStateExportFailed, Descriptor, Shown, WorldStateDescriptor, FailureShown,
      SnapshotShown, As, SnapshotAt, AsValue, ++, SnapshotFailure
<1>3. WorldStateExportFailedCodec.event_version = WorldStateExportFailed.version
  BY DEF WorldStateExportFailed, WorldStateExportFailedCodec, Codec
<1>4. \A d \in Codecs :
        d.event_class = "WorldStateExportFailed" \/ d.event_type = "world_state_export_failed"
          => d = WorldStateExportFailedCodec
  BY CodecIdentities DEF Codecs
<1>5. Fits("snapshot_path") /\ Fits("schema_version") /\ Fits("reason")
  BY Enumerations, Converters DEF TextKeys, WorldStateExportFailed, SnapshotFailure, Codec,
      WorldStateExportFailedCodec
<1>6. /\ MapWorldStateExportFailed.resource_type \in DOMAIN AuditResourceType
      /\ MapWorldStateExportFailed.action \in Actions
  BY DEF AuditResourceType, Actions, MapWorldStateExportFailed, Descriptor, WorldStateDescriptor
<1>7. Tells("snapshot_path") /\ Tells("schema_version") /\ Tells("reason")
  BY Enumerations, Entries DEF WorldStateExportFailed, SnapshotFailure,
      MapWorldStateExportFailed, Descriptor, Shown, WorldStateDescriptor, FailureShown,
      SnapshotShown, As, SnapshotAt, AsValue, ++
<1>8. \A k \in keys : Fits(k)
  BY <1>5
<1>9. \A k \in keys : Tells(k)
  BY <1>7
<1>10. "reasons" \in keys => "WorldStateExportFailed" = "PackageStateReconciled"
  OBVIOUS
<1> HIDE DEF keys
<1> QED
  BY <1>1, <1>2, <1>3, <1>4, <1>6, <1>8, <1>9, <1>10, CatalogueEntries, MappingEntries,
      CodecIdentities DEF CodecFits, AuditFits

LEMMA WorldStateImportedFits ==
  CodecFits("WorldStateImported", WorldStateImportedCodec) /\ AuditFits("WorldStateImported")
<1> DEFINE keys == {"snapshot_path", "schema_version", "previous_customer_count",
                 "previous_package_count", "previous_route_count", "previous_truck_count",
                 "new_customer_count", "new_package_count", "new_route_count",
                 "new_truck_count"}
           Fits(k) == FieldFits(WorldStateImportedCodec.payload[k], WorldStateImported.fields[k], k)
           Tells(k) == FieldShown(MapWorldStateImported.payload[k], WorldStateImported.fields[k])
<1>1. DOMAIN WorldStateImported.fields = keys /\ DOMAIN WorldStateImportedCodec.payload = keys
  BY DEF WorldStateImported, PreviousAndNewCounts, SnapshotAt, ++, Codec,
      WorldStateImportedCodec, PrefixedEntityCountCodec
<1>2. DOMAIN MapWorldStateImported.payload = keys
  BY DEF MapWorldStateImported, Descriptor, Shown, WorldStateDescriptor, SnapshotShown, As, ++,
      SnapshotAt, PreviousAndNewCounts
<1>3. WorldStateImportedCodec.event_version = WorldStateImported.version
  BY DEF WorldStateImported, WorldStateImportedCodec, Codec
<1>4. \A d \in Codecs :
        d.event_class = "WorldStateImported" \/ d.event_type = "world_state_imported"
          => d = WorldStateImportedCodec
  BY CodecIdentities DEF Codecs
<1>5. Fits("snapshot_path") /\ Fits("schema_version") /\ Fits("previous_customer_count") /\
          Fits("previous_package_count") /\ Fits("previous_route_count") /\
          Fits("previous_truck_count") /\ Fits("new_customer_count") /\
          Fits("new_package_count") /\ Fits("new_route_count") /\ Fits("new_truck_count")
  BY Enumerations, Converters DEF TextKeys, WorldStateImported, PreviousAndNewCounts,
      SnapshotAt, ++, Codec, WorldStateImportedCodec, PrefixedEntityCountCodec
<1>6. /\ MapWorldStateImported.resource_type \in DOMAIN AuditResourceType
      /\ MapWorldStateImported.action \in Actions
  BY DEF AuditResourceType, Actions, MapWorldStateImported, Descriptor, WorldStateDescriptor
<1>7. Tells("snapshot_path") /\ Tells("schema_version") /\ Tells("previous_customer_count") /\
          Tells("previous_package_count") /\ Tells("previous_route_count") /\
          Tells("previous_truck_count") /\ Tells("new_customer_count") /\
          Tells("new_package_count") /\ Tells("new_route_count") /\ Tells("new_truck_count")
  BY Enumerations, Entries DEF WorldStateImported, PreviousAndNewCounts, SnapshotAt, ++,
      MapWorldStateImported, Descriptor, Shown, WorldStateDescriptor, SnapshotShown, As
<1>8. \A k \in keys : Fits(k)
  BY <1>5
<1>9. \A k \in keys : Tells(k)
  BY <1>7
<1>10. "reasons" \in keys => "WorldStateImported" = "PackageStateReconciled"
  OBVIOUS
<1> HIDE DEF keys
<1> QED
  BY <1>1, <1>2, <1>3, <1>4, <1>6, <1>8, <1>9, <1>10, CatalogueEntries, MappingEntries,
      CodecIdentities DEF CodecFits, AuditFits

LEMMA WorldStateImportFailedFits ==
  CodecFits("WorldStateImportFailed", WorldStateImportFailedCodec) /\ AuditFits("WorldStateImportFailed")
<1> DEFINE keys == {"snapshot_path", "schema_version", "reason"}
           Fits(k) == FieldFits(WorldStateImportFailedCodec.payload[k], WorldStateImportFailed.fields[k], k)
           Tells(k) == FieldShown(MapWorldStateImportFailed.payload[k], WorldStateImportFailed.fields[k])
<1>1. DOMAIN WorldStateImportFailed.fields = keys /\ DOMAIN WorldStateImportFailedCodec.payload = keys
  BY DEF WorldStateImportFailed, SnapshotFailure, Codec, WorldStateImportFailedCodec
<1>2. DOMAIN MapWorldStateImportFailed.payload = keys
  BY DEF MapWorldStateImportFailed, Descriptor, Shown, WorldStateDescriptor, FailureShown,
      SnapshotShown, As, SnapshotAt, AsValue, ++, SnapshotFailure
<1>3. WorldStateImportFailedCodec.event_version = WorldStateImportFailed.version
  BY DEF WorldStateImportFailed, WorldStateImportFailedCodec, Codec
<1>4. \A d \in Codecs :
        d.event_class = "WorldStateImportFailed" \/ d.event_type = "world_state_import_failed"
          => d = WorldStateImportFailedCodec
  BY CodecIdentities DEF Codecs
<1>5. Fits("snapshot_path") /\ Fits("schema_version") /\ Fits("reason")
  BY Enumerations, Converters DEF TextKeys, WorldStateImportFailed, SnapshotFailure, Codec,
      WorldStateImportFailedCodec
<1>6. /\ MapWorldStateImportFailed.resource_type \in DOMAIN AuditResourceType
      /\ MapWorldStateImportFailed.action \in Actions
  BY DEF AuditResourceType, Actions, MapWorldStateImportFailed, Descriptor, WorldStateDescriptor
<1>7. Tells("snapshot_path") /\ Tells("schema_version") /\ Tells("reason")
  BY Enumerations, Entries DEF WorldStateImportFailed, SnapshotFailure,
      MapWorldStateImportFailed, Descriptor, Shown, WorldStateDescriptor, FailureShown,
      SnapshotShown, As, SnapshotAt, AsValue, ++
<1>8. \A k \in keys : Fits(k)
  BY <1>5
<1>9. \A k \in keys : Tells(k)
  BY <1>7
<1>10. "reasons" \in keys => "WorldStateImportFailed" = "PackageStateReconciled"
  OBVIOUS
<1> HIDE DEF keys
<1> QED
  BY <1>1, <1>2, <1>3, <1>4, <1>6, <1>8, <1>9, <1>10, CatalogueEntries, MappingEntries,
      CodecIdentities DEF CodecFits, AuditFits

LEMMA WorldStateCorruptionDetectedFits ==
  CodecFits("WorldStateCorruptionDetected", WorldStateCorruptionDetectedCodec) /\ AuditFits("WorldStateCorruptionDetected")
<1> DEFINE keys == {"snapshot_path", "reason"}
           Fits(k) == FieldFits(WorldStateCorruptionDetectedCodec.payload[k], WorldStateCorruptionDetected.fields[k], k)
           Tells(k) == FieldShown(MapWorldStateCorruptionDetected.payload[k], WorldStateCorruptionDetected.fields[k])
<1>1. DOMAIN WorldStateCorruptionDetected.fields = keys /\ DOMAIN WorldStateCorruptionDetectedCodec.payload = keys
  BY DEF WorldStateCorruptionDetected, Codec, WorldStateCorruptionDetectedCodec
<1>2. DOMAIN MapWorldStateCorruptionDetected.payload = keys
  BY DEF MapWorldStateCorruptionDetected, Descriptor, Shown, WorldStateDescriptor, As, AsValue,
      ++
<1>3. WorldStateCorruptionDetectedCodec.event_version = WorldStateCorruptionDetected.version
  BY DEF WorldStateCorruptionDetected, WorldStateCorruptionDetectedCodec, Codec
<1>4. \A d \in Codecs :
        d.event_class = "WorldStateCorruptionDetected" \/ d.event_type = "world_state_corruption_detected"
          => d = WorldStateCorruptionDetectedCodec
  BY CodecIdentities DEF Codecs
<1>5. Fits("snapshot_path") /\ Fits("reason")
  BY Enumerations, Converters DEF TextKeys, WorldStateCorruptionDetected, Codec,
      WorldStateCorruptionDetectedCodec
<1>6. /\ MapWorldStateCorruptionDetected.resource_type \in DOMAIN AuditResourceType
      /\ MapWorldStateCorruptionDetected.action \in Actions
  BY DEF AuditResourceType, Actions, MapWorldStateCorruptionDetected, Descriptor,
      WorldStateDescriptor
<1>7. Tells("snapshot_path") /\ Tells("reason")
  BY Enumerations, Entries DEF WorldStateCorruptionDetected, MapWorldStateCorruptionDetected,
      Descriptor, Shown, WorldStateDescriptor, As, AsValue, ++
<1>8. \A k \in keys : Fits(k)
  BY <1>5
<1>9. \A k \in keys : Tells(k)
  BY <1>7
<1>10. "reasons" \in keys => "WorldStateCorruptionDetected" = "PackageStateReconciled"
  OBVIOUS
<1> HIDE DEF keys
<1> QED
  BY <1>1, <1>2, <1>3, <1>4, <1>6, <1>8, <1>9, <1>10, CatalogueEntries, MappingEntries,
      CodecIdentities DEF CodecFits, AuditFits

LEMMA WorldStateSnapshotQuarantinedFits ==
  CodecFits("WorldStateSnapshotQuarantined", WorldStateSnapshotQuarantinedCodec) /\ AuditFits("WorldStateSnapshotQuarantined")
<1> DEFINE keys == {"original_path", "quarantined_path", "reason"}
           Fits(k) == FieldFits(WorldStateSnapshotQuarantinedCodec.payload[k], WorldStateSnapshotQuarantined.fields[k], k)
           Tells(k) == FieldShown(MapWorldStateSnapshotQuarantined.payload[k], WorldStateSnapshotQuarantined.fields[k])
<1>1. DOMAIN WorldStateSnapshotQuarantined.fields = keys /\ DOMAIN WorldStateSnapshotQuarantinedCodec.payload = keys
  BY DEF WorldStateSnapshotQuarantined, Codec, WorldStateSnapshotQuarantinedCodec
<1>2. DOMAIN MapWorldStateSnapshotQuarantined.payload = keys
  BY DEF MapWorldStateSnapshotQuarantined, Descriptor, Shown, WorldStateDescriptor, As, AsValue,
      ++
<1>3. WorldStateSnapshotQuarantinedCodec.event_version = WorldStateSnapshotQuarantined.version
  BY DEF WorldStateSnapshotQuarantined, WorldStateSnapshotQuarantinedCodec, Codec
<1>4. \A d \in Codecs :
        d.event_class = "WorldStateSnapshotQuarantined" \/ d.event_type = "world_state_snapshot_quarantined"
          => d = WorldStateSnapshotQuarantinedCodec
  BY CodecIdentities DEF Codecs
<1>5. Fits("original_path") /\ Fits("quarantined_path") /\ Fits("reason")
  BY Enumerations, Converters DEF TextKeys, WorldStateSnapshotQuarantined, Codec,
      WorldStateSnapshotQuarantinedCodec
<1>6. /\ MapWorldStateSnapshotQuarantined.resource_type \in DOMAIN AuditResourceType
      /\ MapWorldStateSnapshotQuarantined.action \in Actions
  BY DEF AuditResourceType, Actions, MapWorldStateSnapshotQuarantined, Descriptor,
      WorldStateDescriptor
<1>7. Tells("original_path") /\ Tells("quarantined_path") /\ Tells("reason")
  BY Enumerations, Entries DEF WorldStateSnapshotQuarantined, MapWorldStateSnapshotQuarantined,
      Descriptor, Shown, WorldStateDescriptor, As, AsValue, ++
<1>8. \A k \in keys : Fits(k)
  BY <1>5
<1>9. \A k \in keys : Tells(k)
  BY <1>7
<1>10. "reasons" \in keys => "WorldStateSnapshotQuarantined" = "PackageStateReconciled"
  OBVIOUS
<1> HIDE DEF keys
<1> QED
  BY <1>1, <1>2, <1>3, <1>4, <1>6, <1>8, <1>9, <1>10, CatalogueEntries, MappingEntries,
      CodecIdentities DEF CodecFits, AuditFits

LEMMA WorldStateRuntimeSwappedFits ==
  CodecFits("WorldStateRuntimeSwapped", WorldStateRuntimeSwappedCodec) /\ AuditFits("WorldStateRuntimeSwapped")
<1> DEFINE keys == {"snapshot_path", "schema_version", "previous_customer_count",
                 "previous_package_count", "previous_route_count", "previous_truck_count",
                 "new_customer_count", "new_package_count", "new_route_count",
                 "new_truck_count"}
           Fits(k) == FieldFits(WorldStateRuntimeSwappedCodec.payload[k], WorldStateRuntimeSwapped.fields[k], k)
           Tells(k) == FieldShown(MapWorldStateRuntimeSwapped.payload[k], WorldStateRuntimeSwapped.fields[k])
<1>1. DOMAIN WorldStateRuntimeSwapped.fields = keys /\ DOMAIN WorldStateRuntimeSwappedCodec.payload = keys
  BY DEF WorldStateRuntimeSwapped, PreviousAndNewCounts, SnapshotAt, ++, Codec,
      WorldStateRuntimeSwappedCodec, PrefixedEntityCountCodec
<1>2. DOMAIN MapWorldStateRuntimeSwapped.payload = keys
  BY DEF MapWorldStateRuntimeSwapped, Descriptor, Shown, WorldStateDescriptor, SnapshotShown,
      As, ++, SnapshotAt, PreviousAndNewCounts
<1>3. WorldStateRuntimeSwappedCodec.event_version = WorldStateRuntimeSwapped.version
  BY DEF WorldStateRuntimeSwapped, WorldStateRuntimeSwappedCodec, Codec
<1>4. \A d \in Codecs :
        d.event_class = "WorldStateRuntimeSwapped" \/ d.event_type = "world_state_runtime_swapped"
          => d = WorldStateRuntimeSwappedCodec
  BY CodecIdentities DEF Codecs
<1>5. Fits("snapshot_path") /\ Fits("schema_version") /\ Fits("previous_customer_count") /\
          Fits("previous_package_count") /\ Fits("previous_route_count") /\
          Fits("previous_truck_count") /\ Fits("new_customer_count") /\
          Fits("new_package_count") /\ Fits("new_route_count") /\ Fits("new_truck_count")
  BY Enumerations, Converters DEF TextKeys, WorldStateRuntimeSwapped, PreviousAndNewCounts,
      SnapshotAt, ++, Codec, WorldStateRuntimeSwappedCodec, PrefixedEntityCountCodec
<1>6. /\ MapWorldStateRuntimeSwapped.resource_type \in DOMAIN AuditResourceType
      /\ MapWorldStateRuntimeSwapped.action \in Actions
  BY DEF AuditResourceType, Actions, MapWorldStateRuntimeSwapped, Descriptor,
      WorldStateDescriptor
<1>7. Tells("snapshot_path") /\ Tells("schema_version") /\ Tells("previous_customer_count") /\
          Tells("previous_package_count") /\ Tells("previous_route_count") /\
          Tells("previous_truck_count") /\ Tells("new_customer_count") /\
          Tells("new_package_count") /\ Tells("new_route_count") /\ Tells("new_truck_count")
  BY Enumerations, Entries DEF WorldStateRuntimeSwapped, PreviousAndNewCounts, SnapshotAt, ++,
      MapWorldStateRuntimeSwapped, Descriptor, Shown, WorldStateDescriptor, SnapshotShown, As
<1>8. \A k \in keys : Fits(k)
  BY <1>5
<1>9. \A k \in keys : Tells(k)
  BY <1>7
<1>10. "reasons" \in keys => "WorldStateRuntimeSwapped" = "PackageStateReconciled"
  OBVIOUS
<1> HIDE DEF keys
<1> QED
  BY <1>1, <1>2, <1>3, <1>4, <1>6, <1>8, <1>9, <1>10, CatalogueEntries, MappingEntries,
      CodecIdentities DEF CodecFits, AuditFits

LEMMA WorldStateStartupRestoredFits ==
  CodecFits("WorldStateStartupRestored", WorldStateStartupRestoredCodec) /\ AuditFits("WorldStateStartupRestored")
<1> DEFINE keys == {"snapshot_path", "schema_version", "previous_customer_count",
                 "previous_package_count", "previous_route_count", "previous_truck_count",
                 "new_customer_count", "new_package_count", "new_route_count",
                 "new_truck_count"}
           Fits(k) == FieldFits(WorldStateStartupRestoredCodec.payload[k], WorldStateStartupRestored.fields[k], k)
           Tells(k) == FieldShown(MapWorldStateStartupRestored.payload[k], WorldStateStartupRestored.fields[k])
<1>1. DOMAIN WorldStateStartupRestored.fields = keys /\ DOMAIN WorldStateStartupRestoredCodec.payload = keys
  BY DEF WorldStateStartupRestored, PreviousAndNewCounts, SnapshotAt, ++, Codec,
      WorldStateStartupRestoredCodec, PrefixedEntityCountCodec
<1>2. DOMAIN MapWorldStateStartupRestored.payload = keys
  BY DEF MapWorldStateStartupRestored, Descriptor, Shown, WorldStateDescriptor, SnapshotShown,
      As, ++, SnapshotAt, PreviousAndNewCounts
<1>3. WorldStateStartupRestoredCodec.event_version = WorldStateStartupRestored.version
  BY DEF WorldStateStartupRestored, WorldStateStartupRestoredCodec, Codec
<1>4. \A d \in Codecs :
        d.event_class = "WorldStateStartupRestored" \/ d.event_type = "world_state_startup_restored"
          => d = WorldStateStartupRestoredCodec
  BY CodecIdentities DEF Codecs
<1>5. Fits("snapshot_path") /\ Fits("schema_version") /\ Fits("previous_customer_count") /\
          Fits("previous_package_count") /\ Fits("previous_route_count") /\
          Fits("previous_truck_count") /\ Fits("new_customer_count") /\
          Fits("new_package_count") /\ Fits("new_route_count") /\ Fits("new_truck_count")
  BY Enumerations, Converters DEF TextKeys, WorldStateStartupRestored, PreviousAndNewCounts,
      SnapshotAt, ++, Codec, WorldStateStartupRestoredCodec, PrefixedEntityCountCodec
<1>6. /\ MapWorldStateStartupRestored.resource_type \in DOMAIN AuditResourceType
      /\ MapWorldStateStartupRestored.action \in Actions
  BY DEF AuditResourceType, Actions, MapWorldStateStartupRestored, Descriptor,
      WorldStateDescriptor
<1>7. Tells("snapshot_path") /\ Tells("schema_version") /\ Tells("previous_customer_count") /\
          Tells("previous_package_count") /\ Tells("previous_route_count") /\
          Tells("previous_truck_count") /\ Tells("new_customer_count") /\
          Tells("new_package_count") /\ Tells("new_route_count") /\ Tells("new_truck_count")
  BY Enumerations, Entries DEF WorldStateStartupRestored, PreviousAndNewCounts, SnapshotAt, ++,
      MapWorldStateStartupRestored, Descriptor, Shown, WorldStateDescriptor, SnapshotShown, As
<1>8. \A k \in keys : Fits(k)
  BY <1>5
<1>9. \A k \in keys : Tells(k)
  BY <1>7
<1>10. "reasons" \in keys => "WorldStateStartupRestored" = "PackageStateReconciled"
  OBVIOUS
<1> HIDE DEF keys
<1> QED
  BY <1>1, <1>2, <1>3, <1>4, <1>6, <1>8, <1>9, <1>10, CatalogueEntries, MappingEntries,
      CodecIdentities DEF CodecFits, AuditFits

LEMMA WorldStateStartupRestoreSkippedFits ==
  CodecFits("WorldStateStartupRestoreSkipped", WorldStateStartupRestoreSkippedCodec) /\ AuditFits("WorldStateStartupRestoreSkipped")
<1> DEFINE keys == {"reason"}
           Fits(k) == FieldFits(WorldStateStartupRestoreSkippedCodec.payload[k], WorldStateStartupRestoreSkipped.fields[k], k)
           Tells(k) == FieldShown(MapWorldStateStartupRestoreSkipped.payload[k], WorldStateStartupRestoreSkipped.fields[k])
<1>1. DOMAIN WorldStateStartupRestoreSkipped.fields = keys /\ DOMAIN WorldStateStartupRestoreSkippedCodec.payload = keys
  BY DEF WorldStateStartupRestoreSkipped, Codec, WorldStateStartupRestoreSkippedCodec
<1>2. DOMAIN MapWorldStateStartupRestoreSkipped.payload = keys
  BY DEF MapWorldStateStartupRestoreSkipped, Descriptor, Shown, WorldStateDescriptor, AsValue
<1>3. WorldStateStartupRestoreSkippedCodec.event_version = WorldStateStartupRestoreSkipped.version
  BY DEF WorldStateStartupRestoreSkipped, WorldStateStartupRestoreSkippedCodec, Codec
<1>4. \A d \in Codecs :
        d.event_class = "WorldStateStartupRestoreSkipped" \/ d.event_type = "world_state_startup_restore_skipped"
          => d = WorldStateStartupRestoreSkippedCodec
  BY CodecIdentities DEF Codecs
<1>5. Fits("reason")
  BY Enumerations, Converters DEF TextKeys, WorldStateStartupRestoreSkipped, Codec,
      WorldStateStartupRestoreSkippedCodec
<1>6. /\ MapWorldStateStartupRestoreSkipped.resource_type \in DOMAIN AuditResourceType
      /\ MapWorldStateStartupRestoreSkipped.action \in Actions
  BY DEF AuditResourceType, Actions, MapWorldStateStartupRestoreSkipped, Descriptor,
      WorldStateDescriptor
<1>7. Tells("reason")
  BY Enumerations, Entries DEF WorldStateStartupRestoreSkipped,
      MapWorldStateStartupRestoreSkipped, Descriptor, Shown, WorldStateDescriptor, AsValue
<1>8. \A k \in keys : Fits(k)
  BY <1>5
<1>9. \A k \in keys : Tells(k)
  BY <1>7
<1>10. "reasons" \in keys => "WorldStateStartupRestoreSkipped" = "PackageStateReconciled"
  OBVIOUS
<1> HIDE DEF keys
<1> QED
  BY <1>1, <1>2, <1>3, <1>4, <1>6, <1>8, <1>9, <1>10, CatalogueEntries, MappingEntries,
      CodecIdentities DEF CodecFits, AuditFits

LEMMA WorldStateStartupRestoreFailedFits ==
  CodecFits("WorldStateStartupRestoreFailed", WorldStateStartupRestoreFailedCodec) /\ AuditFits("WorldStateStartupRestoreFailed")
<1> DEFINE keys == {"snapshot_path", "schema_version", "reason"}
           Fits(k) == FieldFits(WorldStateStartupRestoreFailedCodec.payload[k], WorldStateStartupRestoreFailed.fields[k], k)
           Tells(k) == FieldShown(MapWorldStateStartupRestoreFailed.payload[k], WorldStateStartupRestoreFailed.fields[k])
<1>1. DOMAIN WorldStateStartupRestoreFailed.fields = keys /\ DOMAIN WorldStateStartupRestoreFailedCodec.payload = keys
  BY DEF WorldStateStartupRestoreFailed, SnapshotFailure, Codec,
      WorldStateStartupRestoreFailedCodec
<1>2. DOMAIN MapWorldStateStartupRestoreFailed.payload = keys
  BY DEF MapWorldStateStartupRestoreFailed, Descriptor, Shown, WorldStateDescriptor,
      FailureShown, SnapshotShown, As, SnapshotAt, AsValue, ++, SnapshotFailure
<1>3. WorldStateStartupRestoreFailedCodec.event_version = WorldStateStartupRestoreFailed.version
  BY DEF WorldStateStartupRestoreFailed, WorldStateStartupRestoreFailedCodec, Codec
<1>4. \A d \in Codecs :
        d.event_class = "WorldStateStartupRestoreFailed" \/ d.event_type = "world_state_startup_restore_failed"
          => d = WorldStateStartupRestoreFailedCodec
  BY CodecIdentities DEF Codecs
<1>5. Fits("snapshot_path") /\ Fits("schema_version") /\ Fits("reason")
  BY Enumerations, Converters DEF TextKeys, WorldStateStartupRestoreFailed, SnapshotFailure,
      Codec, WorldStateStartupRestoreFailedCodec
<1>6. /\ MapWorldStateStartupRestoreFailed.resource_type \in DOMAIN AuditResourceType
      /\ MapWorldStateStartupRestoreFailed.action \in Actions
  BY DEF AuditResourceType, Actions, MapWorldStateStartupRestoreFailed, Descriptor,
      WorldStateDescriptor
<1>7. Tells("snapshot_path") /\ Tells("schema_version") /\ Tells("reason")
  BY Enumerations, Entries DEF WorldStateStartupRestoreFailed, SnapshotFailure,
      MapWorldStateStartupRestoreFailed, Descriptor, Shown, WorldStateDescriptor, FailureShown,
      SnapshotShown, As, SnapshotAt, AsValue, ++
<1>8. \A k \in keys : Fits(k)
  BY <1>5
<1>9. \A k \in keys : Tells(k)
  BY <1>7
<1>10. "reasons" \in keys => "WorldStateStartupRestoreFailed" = "PackageStateReconciled"
  OBVIOUS
<1> HIDE DEF keys
<1> QED
  BY <1>1, <1>2, <1>3, <1>4, <1>6, <1>8, <1>9, <1>10, CatalogueEntries, MappingEntries,
      CodecIdentities DEF CodecFits, AuditFits

LEMMA WorldStateAdvancedFits ==
  CodecFits("WorldStateAdvanced", WorldStateAdvancedCodec) /\ AuditFits("WorldStateAdvanced")
<1> DEFINE keys == {"routes_updated", "packages_updated", "trucks_moved", "trucks_released",
                 "trucks_reconciled"}
           Fits(k) == FieldFits(WorldStateAdvancedCodec.payload[k], WorldStateAdvanced.fields[k], k)
           Tells(k) == FieldShown(MapWorldStateAdvanced.payload[k], WorldStateAdvanced.fields[k])
<1>1. DOMAIN WorldStateAdvanced.fields = keys /\ DOMAIN WorldStateAdvancedCodec.payload = keys
  BY DEF WorldStateAdvanced, Codec, WorldStateAdvancedCodec
<1>2. DOMAIN MapWorldStateAdvanced.payload = keys
  BY DEF MapWorldStateAdvanced, Descriptor, Shown, WorldStateDescriptor, As
<1>3. WorldStateAdvancedCodec.event_version = WorldStateAdvanced.version
  BY DEF WorldStateAdvanced, WorldStateAdvancedCodec, Codec
<1>4. \A d \in Codecs :
        d.event_class = "WorldStateAdvanced" \/ d.event_type = "world_state_advanced"
          => d = WorldStateAdvancedCodec
  BY CodecIdentities DEF Codecs
<1>5. Fits("routes_updated") /\ Fits("packages_updated") /\ Fits("trucks_moved") /\
          Fits("trucks_released") /\ Fits("trucks_reconciled")
  BY Enumerations, Converters DEF TextKeys, WorldStateAdvanced, Codec, WorldStateAdvancedCodec
<1>6. /\ MapWorldStateAdvanced.resource_type \in DOMAIN AuditResourceType
      /\ MapWorldStateAdvanced.action \in Actions
  BY DEF AuditResourceType, Actions, MapWorldStateAdvanced, Descriptor, WorldStateDescriptor
<1>7. Tells("routes_updated") /\ Tells("packages_updated") /\ Tells("trucks_moved") /\
          Tells("trucks_released") /\ Tells("trucks_reconciled")
  BY Enumerations, Entries DEF WorldStateAdvanced, MapWorldStateAdvanced, Descriptor, Shown,
      WorldStateDescriptor, As
<1>8. \A k \in keys : Fits(k)
  BY <1>5
<1>9. \A k \in keys : Tells(k)
  BY <1>7
<1>10. "reasons" \in keys => "WorldStateAdvanced" = "PackageStateReconciled"
  OBVIOUS
<1> HIDE DEF keys
<1> QED
  BY <1>1, <1>2, <1>3, <1>4, <1>6, <1>8, <1>9, <1>10, CatalogueEntries, MappingEntries,
      CodecIdentities DEF CodecFits, AuditFits

LEMMA RouteStateReconciledFits ==
  CodecFits("RouteStateReconciled", RouteStateReconciledCodec) /\ AuditFits("RouteStateReconciled")
<1> DEFINE keys == {"route_id", "previous_status", "new_status", "departure_time",
                 "expected_completion_time", "reason"}
           Fits(k) == FieldFits(RouteStateReconciledCodec.payload[k], RouteStateReconciled.fields[k], k)
           Tells(k) == FieldShown(MapRouteStateReconciled.payload[k], RouteStateReconciled.fields[k])
<1>1. DOMAIN RouteStateReconciled.fields = keys /\ DOMAIN RouteStateReconciledCodec.payload = keys
  BY DEF RouteStateReconciled, Codec, RouteStateReconciledCodec
<1>2. DOMAIN MapRouteStateReconciled.payload = keys
  BY DEF MapRouteStateReconciled, Descriptor, Shown, AsId, AsValue, AsTime, ++
<1>3. RouteStateReconciledCodec.event_version = RouteStateReconciled.version
  BY DEF RouteStateReconciled, RouteStateReconciledCodec, Codec
<1>4. \A d \in Codecs :
        d.event_class = "RouteStateReconciled" \/ d.event_type = "route_state_reconciled"
          => d = RouteStateReconciledCodec
  BY CodecIdentities DEF Codecs
<1>5. Fits("route_id") /\ Fits("previous_status") /\ Fits("new_status") /\
          Fits("departure_time") /\ Fits("expected_completion_time") /\ Fits("reason")
  BY Enumerations, Converters DEF TextKeys, RouteStatuses, RouteStateReconciled, Codec,
      RouteStateReconciledCodec
<1>6. /\ MapRouteStateReconciled.resource_type \in DOMAIN AuditResourceType
      /\ MapRouteStateReconciled.action \in Actions
  BY DEF AuditResourceType, Actions, MapRouteStateReconciled, Descriptor
<1>7. Tells("route_id") /\ Tells("previous_status") /\ Tells("new_status") /\
          Tells("departure_time") /\ Tells("expected_completion_time") /\ Tells("reason")
  BY Enumerations, Entries DEF RouteStatuses, RouteStateReconciled, MapRouteStateReconciled,
      Descriptor, Shown, AsId, AsValue, AsTime, ++
<1>8. \A k \in keys : Fits(k)
  BY <1>5
<1>9. \A k \in keys : Tells(k)
  BY <1>7
<1>10. "reasons" \in keys => "RouteStateReconciled" = "PackageStateReconciled"
  OBVIOUS
<1> HIDE DEF keys
<1> QED
  BY <1>1, <1>2, <1>3, <1>4, <1>6, <1>8, <1>9, <1>10, CatalogueEntries, MappingEntries,
      CodecIdentities DEF CodecFits, AuditFits

LEMMA PackageStateReconciledFits ==
  CodecFits("PackageStateReconciled", PackageStateReconciledCodec) /\ AuditFits("PackageStateReconciled")
<1> DEFINE keys == {"package_id", "route_id", "previous_status", "new_status",
                 "previous_location", "new_location", "previous_expected_arrival",
                 "new_expected_arrival", "scheduled_pickup_time", "scheduled_delivery_time",
                 "reasons"}
           Fits(k) == FieldFits(PackageStateReconciledCodec.payload[k], PackageStateReconciled.fields[k], k)
           Tells(k) == FieldShown(MapPackageStateReconciled.payload[k], PackageStateReconciled.fields[k])
<1>1. DOMAIN PackageStateReconciled.fields = keys /\ DOMAIN PackageStateReconciledCodec.payload = keys
  BY DEF PackageStateReconciled, Codec, PackageStateReconciledCodec
<1>2. DOMAIN MapPackageStateReconciled.payload = keys
  BY DEF MapPackageStateReconciled, Descriptor, Shown, AsId, AsValue, As, AsTime, AsValues, ++
<1>3. PackageStateReconciledCodec.event_version = PackageStateReconciled.version
  BY DEF PackageStateReconciled, PackageStateReconciledCodec, Codec
<1>4. \A d \in Codecs :
        d.event_class = "PackageStateReconciled" \/ d.event_type = "package_state_reconciled"
          => d = PackageStateReconciledCodec
  BY CodecIdentities DEF Codecs
<1>5. Fits("package_id") /\ Fits("route_id") /\ Fits("previous_status") /\ Fits("new_status") /\
          Fits("previous_location") /\ Fits("new_location") /\ Fits("previous_expected_arrival")
          /\ Fits("new_expected_arrival") /\ Fits("scheduled_pickup_time") /\
          Fits("scheduled_delivery_time") /\ Fits("reasons")
  BY Enumerations, Converters, ListConverters DEF TextKeys, ItemStatuses,
      PackageStateReconciled, Codec, PackageStateReconciledCodec
<1>6. /\ MapPackageStateReconciled.resource_type \in DOMAIN AuditResourceType
      /\ MapPackageStateReconciled.action \in Actions
  BY DEF AuditResourceType, Actions, MapPackageStateReconciled, Descriptor
<1>7. Tells("package_id") /\ Tells("route_id") /\ Tells("previous_status") /\
          Tells("new_status") /\ Tells("previous_location") /\ Tells("new_location") /\
          Tells("previous_expected_arrival") /\ Tells("new_expected_arrival") /\
          Tells("scheduled_pickup_time") /\ Tells("scheduled_delivery_time") /\ Tells("reasons")
  BY Enumerations, Entries DEF ItemStatuses, PackageStateReconciled, MapPackageStateReconciled,
      Descriptor, Shown, AsId, AsValue, As, AsTime, AsValues, ++
<1>8. \A k \in keys : Fits(k)
  BY <1>5
<1>9. \A k \in keys : Tells(k)
  BY <1>7
<1>10. "reasons" \in keys => "PackageStateReconciled" = "PackageStateReconciled"
  OBVIOUS
<1> HIDE DEF keys
<1> QED
  BY <1>1, <1>2, <1>3, <1>4, <1>6, <1>8, <1>9, <1>10, CatalogueEntries, MappingEntries,
      CodecIdentities DEF CodecFits, AuditFits

LEMMA TruckPositionReconciledFits ==
  CodecFits("TruckPositionReconciled", TruckPositionReconciledCodec) /\ AuditFits("TruckPositionReconciled")
<1> DEFINE keys == {"truck_id", "route_id", "previous_location", "new_location",
                 "previous_in_transit_to", "new_in_transit_to", "position_kind"}
           Fits(k) == FieldFits(TruckPositionReconciledCodec.payload[k], TruckPositionReconciled.fields[k], k)
           Tells(k) == FieldShown(MapTruckPositionReconciled.payload[k], TruckPositionReconciled.fields[k])
<1>1. DOMAIN TruckPositionReconciled.fields = keys /\ DOMAIN TruckPositionReconciledCodec.payload = keys
  BY DEF TruckPositionReconciled, Codec, TruckPositionReconciledCodec
<1>2. DOMAIN MapTruckPositionReconciled.payload = keys
  BY DEF MapTruckPositionReconciled, Descriptor, Shown, AsId, As, AsValue, ++
<1>3. TruckPositionReconciledCodec.event_version = TruckPositionReconciled.version
  BY DEF TruckPositionReconciled, TruckPositionReconciledCodec, Codec
<1>4. \A d \in Codecs :
        d.event_class = "TruckPositionReconciled" \/ d.event_type = "truck_position_reconciled"
          => d = TruckPositionReconciledCodec
  BY CodecIdentities DEF Codecs
<1>5. Fits("truck_id") /\ Fits("route_id") /\ Fits("previous_location") /\ Fits("new_location")
          /\ Fits("previous_in_transit_to") /\ Fits("new_in_transit_to") /\
          Fits("position_kind")
  BY Enumerations, Converters DEF TextKeys, TruckPositionReconciled, Codec,
      TruckPositionReconciledCodec
<1>6. /\ MapTruckPositionReconciled.resource_type \in DOMAIN AuditResourceType
      /\ MapTruckPositionReconciled.action \in Actions
  BY DEF AuditResourceType, Actions, MapTruckPositionReconciled, Descriptor
<1>7. Tells("truck_id") /\ Tells("route_id") /\ Tells("previous_location") /\
          Tells("new_location") /\ Tells("previous_in_transit_to") /\ Tells("new_in_transit_to")
          /\ Tells("position_kind")
  BY Enumerations, Entries DEF TruckPositionReconciled, MapTruckPositionReconciled, Descriptor,
      Shown, AsId, As, AsValue, ++
<1>8. \A k \in keys : Fits(k)
  BY <1>5
<1>9. \A k \in keys : Tells(k)
  BY <1>7
<1>10. "reasons" \in keys => "TruckPositionReconciled" = "PackageStateReconciled"
  OBVIOUS
<1> HIDE DEF keys
<1> QED
  BY <1>1, <1>2, <1>3, <1>4, <1>6, <1>8, <1>9, <1>10, CatalogueEntries, MappingEntries,
      CodecIdentities DEF CodecFits, AuditFits

LEMMA TruckRouteReferenceReconciledFits ==
  CodecFits("TruckRouteReferenceReconciled", TruckRouteReferenceReconciledCodec) /\ AuditFits("TruckRouteReferenceReconciled")
<1> DEFINE keys == {"truck_id", "previous_route_id", "new_route_id"}
           Fits(k) == FieldFits(TruckRouteReferenceReconciledCodec.payload[k], TruckRouteReferenceReconciled.fields[k], k)
           Tells(k) == FieldShown(MapTruckRouteReferenceReconciled.payload[k], TruckRouteReferenceReconciled.fields[k])
<1>1. DOMAIN TruckRouteReferenceReconciled.fields = keys /\ DOMAIN TruckRouteReferenceReconciledCodec.payload = keys
  BY DEF TruckRouteReferenceReconciled, Codec, TruckRouteReferenceReconciledCodec
<1>2. DOMAIN MapTruckRouteReferenceReconciled.payload = keys
  BY DEF MapTruckRouteReferenceReconciled, Descriptor, Shown, AsId
<1>3. TruckRouteReferenceReconciledCodec.event_version = TruckRouteReferenceReconciled.version
  BY DEF TruckRouteReferenceReconciled, TruckRouteReferenceReconciledCodec, Codec
<1>4. \A d \in Codecs :
        d.event_class = "TruckRouteReferenceReconciled" \/ d.event_type = "truck_route_reference_reconciled"
          => d = TruckRouteReferenceReconciledCodec
  BY CodecIdentities DEF Codecs
<1>5. Fits("truck_id") /\ Fits("previous_route_id") /\ Fits("new_route_id")
  BY Enumerations, Converters DEF TextKeys, TruckRouteReferenceReconciled, Codec,
      TruckRouteReferenceReconciledCodec
<1>6. /\ MapTruckRouteReferenceReconciled.resource_type \in DOMAIN AuditResourceType
      /\ MapTruckRouteReferenceReconciled.action \in Actions
  BY DEF AuditResourceType, Actions, MapTruckRouteReferenceReconciled, Descriptor
<1>7. Tells("truck_id") /\ Tells("previous_route_id") /\ Tells("new_route_id")
  BY Enumerations, Entries DEF TruckRouteReferenceReconciled, MapTruckRouteReferenceReconciled,
      Descriptor, Shown, AsId
<1>8. \A k \in keys : Fits(k)
  BY <1>5
<1>9. \A k \in keys : Tells(k)
  BY <1>7
<1>10. "reasons" \in keys => "TruckRouteReferenceReconciled" = "PackageStateReconciled"
  OBVIOUS
<1> HIDE DEF keys
<1> QED
  BY <1>1, <1>2, <1>3, <1>4, <1>6, <1>8, <1>9, <1>10, CatalogueEntries, MappingEntries,
      CodecIdentities DEF CodecFits, AuditFits


-----------------------------------------------------------------------------
\* The codec of each class and the class of each codec; every class is described.
LEMMA Fitness ==
  /\ \A c \in Codecs : CodecFits(c.event_class, c)
  /\ \A class \in DOMAIN Catalogue : \E c \in Codecs : c.event_class = class
  /\ \A class \in DOMAIN Catalogue : AuditFits(class)
<1>1. ASSUME NEW c \in Codecs PROVE CodecFits(c.event_class, c)
  <2>1. /\ CodecFits("CustomerCreated", CustomerCreatedCodec)
        /\ CodecFits("PackageCreated", PackageCreatedCodec)
        /\ CodecFits("PackageRemoved", PackageRemovedCodec)
        /\ CodecFits("PackagePickedUp", PackagePickedUpCodec)
        /\ CodecFits("PackageDelivered", PackageDeliveredCodec)
        /\ CodecFits("RouteCreated", RouteCreatedCodec)
        /\ CodecFits("RouteScheduled", RouteScheduledCodec)
        /\ CodecFits("PackageAssignedToRoute", PackageAssignedToRouteCodec)
        /\ CodecFits("PackageDetachedFromRoute", PackageDetachedFromRouteCodec)
        /\ CodecFits("TruckAssignedToRoute", TruckAssignedToRouteCodec)
        /\ CodecFits("TruckReleasedFromRoute", TruckReleasedFromRouteCodec)
        /\ CodecFits("RouteStarted", RouteStartedCodec)
        /\ CodecFits("RouteCompleted", RouteCompletedCodec)
        /\ CodecFits("RouteRemoved", RouteRemovedCodec)
        /\ CodecFits("UserRegistered", UserRegisteredCodec)
        /\ CodecFits("UserRegistrationRejected", UserRegistrationRejectedCodec)
        /\ CodecFits("UserPasswordChanged", UserPasswordChangedCodec)
        /\ CodecFits("UserPasswordChangeRejected", UserPasswordChangeRejectedCodec)
        /\ CodecFits("UserPasswordReset", UserPasswordResetCodec)
        /\ CodecFits("UserPasswordResetRejected", UserPasswordResetRejectedCodec)
        /\ CodecFits("UserAuthenticated", UserAuthenticatedCodec)
        /\ CodecFits("UserLoginRejected", UserLoginRejectedCodec)
        /\ CodecFits("UserSessionEnded", UserSessionEndedCodec)
        /\ CodecFits("UserTokensRevoked", UserTokensRevokedCodec)
        /\ CodecFits("AuthorizationDenied", AuthorizationDeniedCodec)
        /\ CodecFits("FleetSeeded", FleetSeededCodec)
        /\ CodecFits("WorldStateExported", WorldStateExportedCodec)
        /\ CodecFits("WorldStateExportFailed", WorldStateExportFailedCodec)
        /\ CodecFits("WorldStateImported", WorldStateImportedCodec)
        /\ CodecFits("WorldStateImportFailed", WorldStateImportFailedCodec)
        /\ CodecFits("WorldStateCorruptionDetected", WorldStateCorruptionDetectedCodec)
        /\ CodecFits("WorldStateSnapshotQuarantined", WorldStateSnapshotQuarantinedCodec)
        /\ CodecFits("WorldStateRuntimeSwapped", WorldStateRuntimeSwappedCodec)
        /\ CodecFits("WorldStateStartupRestored", WorldStateStartupRestoredCodec)
        /\ CodecFits("WorldStateStartupRestoreSkipped", WorldStateStartupRestoreSkippedCodec)
        /\ CodecFits("WorldStateStartupRestoreFailed", WorldStateStartupRestoreFailedCodec)
        /\ CodecFits("WorldStateAdvanced", WorldStateAdvancedCodec)
        /\ CodecFits("RouteStateReconciled", RouteStateReconciledCodec)
        /\ CodecFits("PackageStateReconciled", PackageStateReconciledCodec)
        /\ CodecFits("TruckPositionReconciled", TruckPositionReconciledCodec)
        /\ CodecFits("TruckRouteReferenceReconciled", TruckRouteReferenceReconciledCodec)
    BY CustomerCreatedFits, PackageCreatedFits, PackageRemovedFits, PackagePickedUpFits,
        PackageDeliveredFits, RouteCreatedFits, RouteScheduledFits, PackageAssignedToRouteFits,
        PackageDetachedFromRouteFits, TruckAssignedToRouteFits, TruckReleasedFromRouteFits,
        RouteStartedFits, RouteCompletedFits, RouteRemovedFits, UserRegisteredFits,
        UserRegistrationRejectedFits, UserPasswordChangedFits, UserPasswordChangeRejectedFits,
        UserPasswordResetFits, UserPasswordResetRejectedFits, UserAuthenticatedFits,
        UserLoginRejectedFits, UserSessionEndedFits, UserTokensRevokedFits,
        AuthorizationDeniedFits, FleetSeededFits, WorldStateExportedFits,
        WorldStateExportFailedFits, WorldStateImportedFits, WorldStateImportFailedFits,
        WorldStateCorruptionDetectedFits, WorldStateSnapshotQuarantinedFits,
        WorldStateRuntimeSwappedFits, WorldStateStartupRestoredFits,
        WorldStateStartupRestoreSkippedFits, WorldStateStartupRestoreFailedFits,
        WorldStateAdvancedFits, RouteStateReconciledFits, PackageStateReconciledFits,
        TruckPositionReconciledFits, TruckRouteReferenceReconciledFits
  <2>2. \A k : CodecFits(k, c) => c.event_class = k
    BY DEF CodecFits
  <2> QED BY <2>1, <2>2 DEF Codecs
<1>2. ASSUME NEW class \in DOMAIN Catalogue PROVE \E c \in Codecs : c.event_class = class
  BY CodecIdentities DEF Codecs, Catalogue
<1>3. ASSUME NEW class \in DOMAIN Catalogue PROVE AuditFits(class)
  <2>1. /\ AuditFits("CustomerCreated")
        /\ AuditFits("PackageCreated")
        /\ AuditFits("PackageRemoved")
        /\ AuditFits("PackagePickedUp")
        /\ AuditFits("PackageDelivered")
        /\ AuditFits("RouteCreated")
        /\ AuditFits("RouteScheduled")
        /\ AuditFits("PackageAssignedToRoute")
        /\ AuditFits("PackageDetachedFromRoute")
        /\ AuditFits("TruckAssignedToRoute")
        /\ AuditFits("TruckReleasedFromRoute")
        /\ AuditFits("RouteStarted")
        /\ AuditFits("RouteCompleted")
        /\ AuditFits("RouteRemoved")
        /\ AuditFits("UserRegistered")
        /\ AuditFits("UserRegistrationRejected")
        /\ AuditFits("UserPasswordChanged")
        /\ AuditFits("UserPasswordChangeRejected")
        /\ AuditFits("UserPasswordReset")
        /\ AuditFits("UserPasswordResetRejected")
        /\ AuditFits("UserAuthenticated")
        /\ AuditFits("UserLoginRejected")
        /\ AuditFits("UserSessionEnded")
        /\ AuditFits("UserTokensRevoked")
        /\ AuditFits("AuthorizationDenied")
        /\ AuditFits("FleetSeeded")
        /\ AuditFits("WorldStateExported")
        /\ AuditFits("WorldStateExportFailed")
        /\ AuditFits("WorldStateImported")
        /\ AuditFits("WorldStateImportFailed")
        /\ AuditFits("WorldStateCorruptionDetected")
        /\ AuditFits("WorldStateSnapshotQuarantined")
        /\ AuditFits("WorldStateRuntimeSwapped")
        /\ AuditFits("WorldStateStartupRestored")
        /\ AuditFits("WorldStateStartupRestoreSkipped")
        /\ AuditFits("WorldStateStartupRestoreFailed")
        /\ AuditFits("WorldStateAdvanced")
        /\ AuditFits("RouteStateReconciled")
        /\ AuditFits("PackageStateReconciled")
        /\ AuditFits("TruckPositionReconciled")
        /\ AuditFits("TruckRouteReferenceReconciled")
    BY CustomerCreatedFits, PackageCreatedFits, PackageRemovedFits, PackagePickedUpFits,
        PackageDeliveredFits, RouteCreatedFits, RouteScheduledFits, PackageAssignedToRouteFits,
        PackageDetachedFromRouteFits, TruckAssignedToRouteFits, TruckReleasedFromRouteFits,
        RouteStartedFits, RouteCompletedFits, RouteRemovedFits, UserRegisteredFits,
        UserRegistrationRejectedFits, UserPasswordChangedFits, UserPasswordChangeRejectedFits,
        UserPasswordResetFits, UserPasswordResetRejectedFits, UserAuthenticatedFits,
        UserLoginRejectedFits, UserSessionEndedFits, UserTokensRevokedFits,
        AuthorizationDeniedFits, FleetSeededFits, WorldStateExportedFits,
        WorldStateExportFailedFits, WorldStateImportedFits, WorldStateImportFailedFits,
        WorldStateCorruptionDetectedFits, WorldStateSnapshotQuarantinedFits,
        WorldStateRuntimeSwappedFits, WorldStateStartupRestoredFits,
        WorldStateStartupRestoreSkippedFits, WorldStateStartupRestoreFailedFits,
        WorldStateAdvancedFits, RouteStateReconciledFits, PackageStateReconciledFits,
        TruckPositionReconciledFits, TruckRouteReferenceReconciledFits
  <2>2. class \in {"CustomerCreated", "PackageCreated", "PackageRemoved", "PackagePickedUp",
                  "PackageDelivered", "RouteCreated", "RouteScheduled",
                  "PackageAssignedToRoute", "PackageDetachedFromRoute",
                  "TruckAssignedToRoute", "TruckReleasedFromRoute", "RouteStarted",
                  "RouteCompleted", "RouteRemoved", "UserRegistered",
                  "UserRegistrationRejected", "UserPasswordChanged",
                  "UserPasswordChangeRejected", "UserPasswordReset",
                  "UserPasswordResetRejected", "UserAuthenticated", "UserLoginRejected",
                  "UserSessionEnded", "UserTokensRevoked", "AuthorizationDenied",
                  "FleetSeeded", "WorldStateExported", "WorldStateExportFailed",
                  "WorldStateImported", "WorldStateImportFailed",
                  "WorldStateCorruptionDetected", "WorldStateSnapshotQuarantined",
                  "WorldStateRuntimeSwapped", "WorldStateStartupRestored",
                  "WorldStateStartupRestoreSkipped", "WorldStateStartupRestoreFailed",
                  "WorldStateAdvanced", "RouteStateReconciled", "PackageStateReconciled",
                  "TruckPositionReconciled", "TruckRouteReferenceReconciled"}
    BY DEF Catalogue
  <2> QED BY <2>1, <2>2
<1> QED BY <1>1, <1>2, <1>3

-----------------------------------------------------------------------------
(* The JSON values a stored payload can hold, and what the converters make  *)
(* of them.                                                                 *)

\* A value that is not a list, under the key k: only an attribute that is no
\* free text can hold a text that is not one of Strings.
ScalarAt(k, j) == j \in Scalars \/ (k \notin TextKeys /\ \E x : j = Text(x))

\* A list of n of them.
ListAt(k, n, j) ==
  /\ j = <<"list", [i \in 1 .. n |-> j[2][i]]>>
  /\ \A i \in 1 .. n : ScalarAt(k, j[2][i])

AdmissibleAt(k, j) == ScalarAt(k, j) \/ \E n \in 0 .. ItemBound(k) : ListAt(k, n, j)

LEMMA Values ==
  /\ \A i \in Ids : i \in Nat /\ i >= 1 /\ i > 0 /\ 10 * i \in Tenths
  /\ \A w \in Tenths : w \in Nat /\ w > 0
  /\ \A n \in Counts : n \in Nat /\ n >= 0
  /\ \A n \in Ids \cup {-1, 0} : n >= 0 => n \in Counts
  /\ \A n \in Ids \cup {-1, 0} : n > 0 \/ n >= 1 => n \in Ids
  /\ \A w \in Tenths \cup {0} : w > 0 => w \in Tenths
<1>1. \A i \in Ids : i \in Nat \ {0} /\ 10 * i \in Tenths
  BY EventTypesAssumption
<1>2. \A w \in Tenths : w \in Nat \ {0}
  BY EventTypesAssumption
<1>3. \A i \in Nat \ {0} : i >= 1 /\ i > 0
  OBVIOUS
<1>4. \A i \in Ids : i \in Nat /\ i >= 1 /\ i > 0 /\ 10 * i \in Tenths
  BY <1>1, <1>3
<1>5. \A w \in Tenths : w \in Nat /\ w > 0
  BY <1>2, <1>3
<1>6. \A n \in Counts : n \in Nat /\ n >= 0
  BY <1>4 DEF Counts
<1>7. \A n \in Ids \cup {-1, 0} : n >= 0 => n \in Counts
  BY DEF Counts
<1> QED BY <1>4, <1>5, <1>6, <1>7

LEMMA ScalarShapes ==
  /\ \A n \in Counts : <<"int", n>> \in Scalars
  /\ \A w \in Tenths : <<"float", w>> \in Scalars
  /\ \A s \in Strings : <<"str", s>> \in Scalars
  /\ Null \in Scalars
  /\ \A j \in Scalars :
       \/ j = <<"null", 0>> \/ j = <<"bool", 1>>
       \/ \E n \in Ids \cup {-1, 0} : j = <<"int", n>>
       \/ \E w \in Tenths \cup {0} : j = <<"float", w>>
       \/ \E s \in Strings : j = <<"str", s>>
BY DEF Scalars, Json, Null, Counts

LEMMA ScalarTags ==
  ASSUME NEW k, NEW j, ScalarAt(k, j)
  PROVE  /\ j[1] \in {"null", "bool", "int", "float", "str"}
         /\ j[1] = "null" => j = Null
         /\ j[1] = "int" => j[2] \in Ids \cup {-1, 0}
         /\ j[1] = "float" => j[2] \in Tenths \cup {0}
         /\ j[1] = "str" /\ k \in TextKeys => j[2] \in Strings
         /\ j[1] = "str" => j[2] \in Strings \/ j[2][1] = "text"
         /\ IsJson(j)
<1>1. CASE j \in Scalars
  BY <1>1, ScalarShapes DEF IsJson, Null, Json
<1>2. CASE k \notin TextKeys /\ \E x : j = Text(x)
  BY <1>2 DEF IsJson, Text, Json
<1> QED BY <1>1, <1>2 DEF ScalarAt

LEMMA LocationsAreStrings ==
  \A v \in Locations : v \in Strings /\ Normal[v] = v /\ v # Blank
BY EventTypesAssumption DEF Locations

\* No attribute value is None unless its class says so, nor is a list of them.
LEMMA ItemValues ==
  ASSUME NEW conv, NEW S, NEW k, ItemFits(conv, S, k)
  PROVE  /\ S \subseteq Nat \cup Times \cup Strings \cup Members
         /\ S # {} /\ None \notin S /\ conv.how # "list"
<1>1. S \subseteq Nat \cup Times \cup Strings \cup Members
  <2>1. Ids \subseteq Nat /\ Counts \subseteq Nat /\ Tenths \subseteq Nat /\ Locations \subseteq Strings
    BY Values, LocationsAreStrings
  <2> QED BY <2>1 DEF ItemFits, IsEnum
<1>2. S # {}
  <2>1. Ids # {} /\ Counts # {} /\ Tenths # {} /\ Times # {} /\ Strings # {}
    BY EventTypesAssumption DEF Counts
  <2>2. Locations # {}
    BY EventTypesAssumption DEF Locations
  <2> QED BY <2>1, <2>2 DEF ItemFits, IsEnum
<1>3. conv.how # "list"
  BY DEF ItemFits
<1> QED BY <1>1, <1>2, <1>3, NoneAssumption

\* An item is read back as it was written.
LEMMA ItemRoundTrip ==
  ASSUME NEW conv, NEW S, NEW k, ItemFits(conv, S, k), NEW v \in S
  PROVE  /\ Readable(conv, Written(conv, v))
         /\ ReadAs(conv, Written(conv, v)) = v
         /\ ScalarAt(k, Written(conv, v))
         /\ Written(conv, v)[1] \notin {"null", "list"}
<1> DEFINE j == Written(conv, v)
<1>1. CASE conv.how = "positive int" /\ S = Ids
  <2>1. j = <<"int", v>>
    BY <1>1 DEF Written, Json
  <2>2. v \in Counts /\ v >= 1
    BY <1>1, Values DEF Counts
  <2>3. j[1] = "int" /\ j[2] = v
    BY <2>1
  <2> QED BY <2>3, <1>1, <2>1, <2>2, ScalarShapes DEF Readable, ReadAs, ScalarAt, IsInt
<1>2. CASE conv.how = "non-negative int" /\ S = Counts
  <2>1. j = <<"int", v>>
    BY <1>2 DEF Written, Json
  <2>2. v >= 0
    BY <1>2, Values
  <2>3. j[1] = "int" /\ j[2] = v
    BY <2>1
  <2> QED BY <2>3, <1>2, <2>1, <2>2, ScalarShapes DEF Readable, ReadAs, ScalarAt, IsInt
<1>3. CASE conv.how = "positive float" /\ S = Tenths
  <2>1. j = <<"float", v>>
    BY <1>3 DEF Written, Json
  <2>2. v > 0
    BY <1>3, Values
  <2>3. j[1] = "float" /\ j[2] = v
    BY <2>1
  <2> QED BY <2>3, <1>3, <2>1, <2>2, ScalarShapes DEF Readable, ReadAs, ScalarAt, IsInt, InTenths
<1>4. CASE conv.how = "str" /\ S = Strings
  <2>1. j = <<"str", v>>
    BY <1>4 DEF Written, Json
  <2> QED BY <1>4, <2>1, ScalarShapes DEF Readable, ReadAs, ScalarAt
<1>5. CASE conv.how = "location" /\ S = Locations
  <2>1. j = <<"str", v>>
    BY <1>5 DEF Written, Json
  <2> QED BY <1>5, <2>1, ScalarShapes, LocationsAreStrings DEF Readable, ReadAs, ScalarAt
<1>6. CASE conv.how = "naive time" /\ S = Times
  <2>1. j = <<"str", <<"iso", v>>>>
    BY <1>6 DEF Written, Json
  <2>2. <<"iso", v>> \in Strings
    BY <1>6, EventTypesAssumption
  <2>3. j[1] = "str" /\ j[2] = <<"iso", v>> /\ j[2][1] = "iso" /\ j[2][2] = v
    BY <2>1
  <2> QED BY <1>6, <2>1, <2>2, <2>3, ScalarShapes DEF Readable, ReadAs, ScalarAt
<1>7. CASE conv.how = "enum value" /\ IsEnum(conv.of) /\ S = DOMAIN conv.of /\ k \notin TextKeys
  <2>1. j = Text(conv.of[v])
    BY <1>7 DEF Written
  <2>2. \A x, y : Text(x) = Text(y) => x = y
    BY DEF Text, Json
  <2>3. \A m \in DOMAIN conv.of : j = Text(conv.of[m]) => m = v
    BY <1>7, <2>1, <2>2 DEF IsEnum
  <2>4. ReadAs(conv, j) = CHOOSE m \in DOMAIN conv.of : j = Text(conv.of[m])
    BY <1>7 DEF ReadAs
  <2>5. ReadAs(conv, j) = v
    BY <1>7, <2>1, <2>3, <2>4
  <2>6. j[1] = "str"
    BY <2>1 DEF Text, Json
  <2> QED BY <1>7, <2>1, <2>5, <2>6 DEF Readable, ScalarAt
<1> QED BY <1>1, <1>2, <1>3, <1>4, <1>5, <1>6, <1>7 DEF ItemFits

\* What an item is read as is a value its attribute can hold.
LEMMA ItemSound ==
  ASSUME NEW conv, NEW S, NEW k, ItemFits(conv, S, k),
         NEW j, ScalarAt(k, j), Readable(conv, j)
  PROVE  ReadAs(conv, j) \in S
<1>1. CASE conv.how = "positive int" /\ S = Ids
  <2>1. j[2] \in Ids \cup {-1, 0} /\ j[2] >= 1
    BY <1>1, ScalarTags DEF Readable, IsInt
  <2> QED BY <1>1, <2>1, Values DEF ReadAs
<1>2. CASE conv.how = "non-negative int" /\ S = Counts
  <2>1. j[2] \in Ids \cup {-1, 0} /\ j[2] >= 0
    BY <1>2, ScalarTags DEF Readable, IsInt
  <2>2. j[2] \in Counts
    BY <2>1, Values
  <2> QED BY <1>2, <2>2 DEF ReadAs
<1>3. CASE conv.how = "positive float" /\ S = Tenths
  <2>1. ReadAs(conv, j) = InTenths(j)
    BY <1>3 DEF ReadAs
  <2>2. j[1] \in {"int", "float"} /\ j[2] > 0
    BY <1>3 DEF Readable
  <2>3. CASE j[1] = "int"
    <3>1. j[2] \in Ids
      BY <2>2, <2>3, ScalarTags, Values
    <3> QED BY <1>3, <2>1, <2>3, <3>1, Values DEF InTenths, IsInt
  <2>4. CASE j[1] = "float"
    BY <1>3, <2>1, <2>2, <2>4, ScalarTags, Values DEF InTenths, IsInt
  <2> QED BY <2>2, <2>3, <2>4
<1>4. CASE conv.how = "str" /\ S = Strings /\ k \in TextKeys
  BY <1>4, ScalarTags DEF Readable, ReadAs
<1>5. CASE conv.how = "location" /\ S = Locations /\ k \in TextKeys
  BY <1>5, ScalarTags DEF Readable, ReadAs, Locations
<1>6. CASE conv.how = "naive time" /\ S = Times
  BY <1>6, ScalarTags, EventTypesAssumption DEF Readable, ReadAs
<1>7. CASE conv.how = "enum value" /\ IsEnum(conv.of) /\ S = DOMAIN conv.of
  BY <1>7 DEF Readable, ReadAs
<1> QED BY <1>1, <1>2, <1>3, <1>4, <1>5, <1>6, <1>7 DEF ItemFits

\* The lists of at most n items of T.
LEMMA Lists ==
  ASSUME NEW T, NEW n
  PROVE  \A v : v \in BoundedSeq(T, n) <=> \E m \in 0 .. n : v \in [1 .. m -> T]
BY DEF BoundedSeq, SeqOf

LEMMA Bounds ==
  ASSUME NEW k
  PROVE  ItemBound(k) \in Nat
BY EventTypesAssumption DEF ItemBound

\* A list that is nobody's None.
LEMMA ListIsSomething ==
  ASSUME NEW conv, NEW T, NEW k, ItemFits(conv, T, k), NEW m \in Nat, NEW v \in [1 .. m -> T]
  PROVE  v # None
<1>1. v \in Seq(Nat \cup Times \cup Strings \cup Members)
  <2>1. T \subseteq Nat \cup Times \cup Strings \cup Members
    BY ItemValues
  <2>2. v \in [1 .. m -> Nat \cup Times \cup Strings \cup Members]
    BY <2>1
  <2> QED BY <2>2
<1> QED BY <1>1, NoneAssumption

\* An attribute is read back as it was written.
LEMMA FieldRoundTrip ==
  ASSUME NEW conv, NEW S, NEW k, FieldFits(conv, S, k), NEW v \in S
  PROVE  /\ DecodableField(conv, EncodeField(conv, v))
         /\ DecodeField(conv, EncodeField(conv, v)) = v
         /\ AdmissibleAt(k, EncodeField(conv, v))
<1> DEFINE j == EncodeField(conv, v)
<1>1. Null[1] = "null" /\ Null = <<"null", 0>>
  BY DEF Null, Json
<1>2. ASSUME NEW T, ItemFits(conv, T, k), v \in T
      PROVE  DecodableField(conv, j) /\ DecodeField(conv, j) = v /\ AdmissibleAt(k, j)
  <2>1. v # None /\ conv.how # "list"
    BY <1>2, ItemValues
  <2>2. j = Written(conv, v)
    BY <2>1 DEF EncodeField
  <2>3. /\ Readable(conv, j) /\ ReadAs(conv, j) = v
        /\ ScalarAt(k, j) /\ j[1] \notin {"null", "list"}
    BY <1>2, <2>2, ItemRoundTrip
  <2>4. DecodableField(conv, j)
    BY <2>1, <2>3 DEF DecodableField
  <2>5. DecodeField(conv, j) = v
    BY <1>1, <2>1, <2>3 DEF DecodeField
  <2> QED BY <2>3, <2>4, <2>5 DEF AdmissibleAt
<1>3. CASE conv.null = {} /\ ItemFits(conv, S, k)
  BY <1>2, <1>3
<1>4. CASE conv.null = {Null} /\ \E T : S = Optional(T) /\ ItemFits(conv, T, k)
  <2>1. PICK T : S = Optional(T) /\ ItemFits(conv, T, k)
    BY <1>4
  <2>2. CASE v \in T
    BY <1>2, <2>1, <2>2
  <2>3. CASE v = None
    <3>1. j = Null
      BY <2>3 DEF EncodeField
    <3>2. DecodableField(conv, j)
      BY <1>4, <3>1 DEF DecodableField
    <3>3. DecodeField(conv, j) = v
      BY <2>3, <3>1 DEF DecodeField
    <3> QED BY <3>1, <3>2, <3>3, ScalarShapes DEF AdmissibleAt, ScalarAt
  <2> QED BY <2>1, <2>2, <2>3 DEF Optional
<1>5. CASE /\ conv.how = "list" /\ conv.null = {}
           /\ \E T : ItemFits(conv.of, T, k) /\ IsListSet(S, T, k)
  <2>1. PICK T : ItemFits(conv.of, T, k) /\ IsListSet(S, T, k)
    BY <1>5
  <2>2. v \in BoundedSeq(T, ItemBound(k))
    BY <2>1 DEF IsListSet
  <2>3. PICK m \in 0 .. ItemBound(k) : v \in [1 .. m -> T]
    BY <2>2, Lists
  <2>4. m \in Nat
    BY Bounds
  <2>5. v # None
    BY <2>1, <2>3, <2>4, ListIsSomething
  <2>6. /\ DOMAIN v = 1 .. m /\ v = [i \in 1 .. m |-> v[i]]
        /\ \A i \in 1 .. m : v[i] \in T
    BY <2>3
  <2>7. j = Json("list", [i \in DOMAIN v |-> Written(conv.of, v[i])])
    BY <1>5, <2>5 DEF EncodeField
  <2>8. j = <<"list", [i \in 1 .. m |-> Written(conv.of, v[i])]>>
    BY <2>6, <2>7 DEF Json
  <2>9. /\ j[1] = "list" /\ DOMAIN j[2] = 1 .. m
        /\ \A i \in 1 .. m : j[2][i] = Written(conv.of, v[i])
    BY <2>8
  <2>10. \A i \in 1 .. m : /\ Readable(conv.of, j[2][i]) /\ ReadAs(conv.of, j[2][i]) = v[i]
                           /\ ScalarAt(k, j[2][i])
    BY <2>1, <2>6, <2>9, ItemRoundTrip
  <2>11. DecodableField(conv, j)
    BY <1>5, <2>9, <2>10 DEF DecodableField
  <2>12. DecodeField(conv, j) = [i \in DOMAIN j[2] |-> ReadAs(conv.of, j[2][i])]
    BY <1>1, <1>5, <2>9 DEF DecodeField
  <2>13. DecodeField(conv, j) = v
    BY <2>6, <2>9, <2>10, <2>12
  <2>14. ListAt(k, m, j)
    BY <2>8, <2>9, <2>10 DEF ListAt
  <2> QED BY <2>11, <2>13, <2>14 DEF AdmissibleAt
<1> QED BY <1>3, <1>4, <1>5 DEF FieldFits

\* What a decodable value is read as is a value its attribute can hold.
LEMMA FieldSound ==
  ASSUME NEW conv, NEW S, NEW k, FieldFits(conv, S, k),
         NEW j, AdmissibleAt(k, j), DecodableField(conv, j),
         k = "reasons" => UniqueReasons(DecodeField(conv, j))
  PROVE  DecodeField(conv, j) \in S
<1>1. Null[1] = "null" /\ Null = <<"null", 0>>
  BY DEF Null, Json
<1>2. ASSUME NEW T, ItemFits(conv, T, k), j \notin conv.null
      PROVE  DecodeField(conv, j) \in T
  <2>1. conv.how # "list"
    BY <1>2, ItemValues
  <2>2. j[1] \notin {"null", "list"} /\ Readable(conv, j)
    BY <1>2, <2>1 DEF DecodableField
  <2>3. ScalarAt(k, j)
    BY <2>2 DEF AdmissibleAt, ListAt
  <2>4. ReadAs(conv, j) \in T
    BY <1>2, <2>2, <2>3, ItemSound
  <2> QED BY <1>1, <2>1, <2>2, <2>4 DEF DecodeField
<1>3. CASE conv.null = {} /\ ItemFits(conv, S, k)
  BY <1>2, <1>3
<1>4. CASE conv.null = {Null} /\ \E T : S = Optional(T) /\ ItemFits(conv, T, k)
  <2>1. PICK T : S = Optional(T) /\ ItemFits(conv, T, k)
    BY <1>4
  <2>2. CASE j = Null
    BY <2>1, <2>2 DEF DecodeField, Optional
  <2>3. CASE j # Null
    BY <1>2, <1>4, <2>1, <2>3 DEF Optional
  <2> QED BY <2>2, <2>3
<1>5. CASE /\ conv.how = "list" /\ conv.null = {}
           /\ \E T : ItemFits(conv.of, T, k) /\ IsListSet(S, T, k)
  <2>1. PICK T : ItemFits(conv.of, T, k) /\ IsListSet(S, T, k)
    BY <1>5
  <2>2. j[1] = "list" /\ \A i \in DOMAIN j[2] : Readable(conv.of, j[2][i])
    BY <1>5 DEF DecodableField
  <2>3. PICK m \in 0 .. ItemBound(k) : ListAt(k, m, j)
    <3>1. ~ScalarAt(k, j)
      BY <2>2, ScalarTags
    <3> QED BY <3>1 DEF AdmissibleAt
  <2>4. DOMAIN j[2] = 1 .. m /\ \A i \in 1 .. m : ScalarAt(k, j[2][i])
    BY <2>3 DEF ListAt
  <2>5. DecodeField(conv, j) = [i \in 1 .. m |-> ReadAs(conv.of, j[2][i])]
    BY <1>1, <1>5, <2>2, <2>4 DEF DecodeField
  <2>6. \A i \in 1 .. m : ReadAs(conv.of, j[2][i]) \in T
    BY <2>1, <2>2, <2>4, ItemSound
  <2>7. DecodeField(conv, j) \in [1 .. m -> T]
    BY <2>5, <2>6
  <2>8. DecodeField(conv, j) \in BoundedSeq(T, ItemBound(k))
    BY <2>7, Lists
  <2> QED BY <2>1, <2>8 DEF IsListSet
<1> QED BY <1>3, <1>4, <1>5 DEF FieldFits

\* An admissible value is a value of JSON.
LEMMA AdmissibleIsJson ==
  ASSUME NEW k, NEW j, AdmissibleAt(k, j)
  PROVE  IsJson(j)
<1>1. CASE ScalarAt(k, j)
  BY <1>1, ScalarTags
<1>2. CASE \E n \in 0 .. ItemBound(k) : ListAt(k, n, j)
  <2>1. PICK n \in 0 .. ItemBound(k) : ListAt(k, n, j)
    BY <1>2
  <2>2. j[1] = "list" /\ DOMAIN j[2] = 1 .. n /\ \A i \in 1 .. n : ScalarAt(k, j[2][i])
    BY <2>1 DEF ListAt
  <2> QED BY <2>2, ScalarTags DEF IsJson
<1> QED BY <1>1, <1>2 DEF AdmissibleAt

\* Every attribute has a value.
LEMMA FieldInhabited ==
  ASSUME NEW conv, NEW S, NEW k, FieldFits(conv, S, k)
  PROVE  S # {}
<1>1. CASE ItemFits(conv, S, k)
  BY <1>1, ItemValues
<1>2. CASE \E T : S = Optional(T) /\ ItemFits(conv, T, k)
  BY <1>2 DEF Optional
<1>3. CASE \E T : ItemFits(conv.of, T, k) /\ IsListSet(S, T, k)
  <2>1. PICK T : ItemFits(conv.of, T, k) /\ IsListSet(S, T, k)
    BY <1>3
  <2>2. PICK t : t \in T
    BY <2>1, ItemValues
  <2>3. CASE S = BoundedSeq(T, ItemBound(k))
    <3>1. <<>> \in [1 .. 0 -> T]
      OBVIOUS
    <3>2. 0 \in 0 .. ItemBound(k)
      BY Bounds
    <3> QED BY <2>3, <3>1, <3>2, Lists
  <2>4. CASE k = "reasons" /\ S = {r \in BoundedSeq(T, ItemBound(k)) : UniqueReasons(r)}
    <3>1. <<t>> \in [1 .. 1 -> T]
      BY <2>2
    <3>2. 1 \in 0 .. ItemBound(k)
      BY <2>4, EventTypesAssumption DEF ItemBound
    <3>3. <<t>> \in BoundedSeq(T, ItemBound(k))
      BY <3>1, <3>2, Lists
    <3>4. UniqueReasons(<<t>>)
      BY DEF UniqueReasons, IsInjective
    <3> QED BY <2>4, <3>3, <3>4
  <2> QED BY <2>1, <2>3, <2>4 DEF IsListSet
<1> QED BY <1>1, <1>2, <1>3 DEF FieldFits

-----------------------------------------------------------------------------
(* The recorded event.                                                      *)

\* An event of the catalogue, with a record of data.
Recorded(e) ==
  /\ e = [class |-> e.class, data |-> [f \in DOMAIN e.data |-> e.data[f]]]
  /\ EventOf(e.class, e.data)

EventInv == event = None \/ Recorded(event)

LEMMA ExemplarsAreEvents ==
  ASSUME NEW class \in DOMAIN Catalogue
  PROVE  /\ DOMAIN Exemplar[class] = DOMAIN Catalogue[class].fields
         /\ Exemplar[class] = [f \in DOMAIN Exemplar[class] |-> Exemplar[class][f]]
         /\ \A f \in DOMAIN Exemplar[class] : Exemplar[class][f] \in Catalogue[class].fields[f]
<1> DEFINE fields == Catalogue[class].fields
<1>1. Exemplar[class] = [f \in DOMAIN fields |-> CHOOSE v \in fields[f] : TRUE]
  BY DEF Exemplar
<1>2. ASSUME NEW f \in DOMAIN fields PROVE fields[f] # {}
  <2>1. PICK c \in Codecs : c.event_class = class
    BY Fitness
  <2>2. CodecFits(class, c)
    BY <2>1, Fitness
  <2>3. FieldFits(c.payload[f], fields[f], f)
    BY <1>2, <2>2 DEF CodecFits
  <2> QED BY <2>3, FieldInhabited
<1> QED BY <1>1, <1>2

LEMMA ExploredAreEvents ==
  ASSUME NEW class \in DOMAIN Catalogue, NEW data \in Explored(class)
  PROVE  Recorded([class |-> class, data |-> data])
<1> DEFINE fields == Catalogue[class].fields
<1>1. PICK f \in DOMAIN fields, g \in DOMAIN fields :
        \E u \in fields[f], v \in fields[g] : data = [Exemplar[class] EXCEPT ![f] = u, ![g] = v]
  BY DEF Explored
<1>2. DOMAIN data = DOMAIN fields /\ data = [h \in DOMAIN data |-> data[h]]
  BY <1>1, ExemplarsAreEvents
<1>3. \A h \in DOMAIN data : data[h] \in fields[h]
  BY <1>1, <1>2, ExemplarsAreEvents
<1>4. EventOf(class, data)
  BY <1>2, <1>3 DEF EventOf
<1> QED BY <1>2, <1>4 DEF Recorded

\* The event is one of the catalogue from the moment it is recorded, and is
\* never another.
LEMMA RecordedEvents == Spec => []EventInv
<1>1. Init => EventInv
  BY DEF Init, EventInv
<1>2. EventInv /\ [Next]_vars => EventInv'
  <2> SUFFICES ASSUME EventInv, [Next]_vars PROVE EventInv'
    OBVIOUS
  <2>1. ASSUME NEW class \in DOMAIN Catalogue, Record(class) PROVE EventInv'
    BY <2>1, ExploredAreEvents DEF Record, EventInv
  <2>2. ASSUME UNCHANGED event PROVE EventInv'
    BY <2>2 DEF EventInv, Recorded
  <2>3. Alter => UNCHANGED event
    BY DEF Alter, DropKey, AddKey, SetValue, RepeatItem, SetIdentity, SetMetadata, AlterRow
  <2> QED BY <2>1, <2>2, <2>3 DEF Next, Store, Read, vars
<1> QED BY <1>1, <1>2, PTL DEF Spec

-----------------------------------------------------------------------------
(* The audit draft of an event.                                             *)

\* Different values of an attribute are shown differently.
LEMMA ShownApart ==
  ASSUME NEW entry, NEW S, FieldShown(entry, S), NEW u \in S, NEW v \in S, u # v
  PROVE  Show(entry, u) # Show(entry, v)
<1>1. \A x : x = None => Show(entry, x) = <<"null", 0>>
  BY DEF Show
<1>2. CASE entry.how = "id"
  <2>1. \A x : x # None => Show(entry, x) = <<"str", <<"id", x>>>>
    BY <1>2 DEF Show
  <2> QED BY <1>1, <2>1
<1>3. CASE entry.how = "time"
  <2>1. \A x : x # None => Show(entry, x) = <<"str", <<"iso", x>>>>
    BY <1>3 DEF Show
  <2> QED BY <1>1, <2>1
<1>4. CASE entry.how = "as it is"
  <2>1. \A x : x # None => Show(entry, x) = <<"plain", x>>
    BY <1>4 DEF Show
  <2> QED BY <1>1, <2>1
<1>5. CASE entry.how = "value" /\ IsEnum(entry.enum) /\ S = DOMAIN entry.enum
  <2>1. \A x : x # None => Show(entry, x) = <<"str", <<"text", entry.enum[x]>>>>
    BY <1>5 DEF Show
  <2>2. entry.enum[u] # entry.enum[v]
    BY <1>5 DEF IsEnum
  <2> QED BY <1>1, <2>1, <2>2
<1>6. CASE entry.how = "ids" /\ S = ListsOf(Ids)
  <2>1. \A x : x # None => Show(entry, x) = <<"list", [i \in DOMAIN x |-> <<"id", x[i]>>]>>
    BY <1>6 DEF Show
  <2>2. PICK m, n \in Int : u \in [1 .. m -> Ids] /\ v \in [1 .. n -> Ids]
    BY <1>6, Lists DEF ListsOf
  <2>3. ASSUME [i \in DOMAIN u |-> <<"id", u[i]>>] = [i \in DOMAIN v |-> <<"id", v[i]>>]
        PROVE  FALSE
    <3>1. DOMAIN u = DOMAIN v
      BY <2>3
    <3>2. \A i \in DOMAIN u : u[i] = v[i]
      BY <2>3, <3>1
    <3> QED BY <2>2, <3>1, <3>2
  <2> QED BY <1>1, <2>1, <2>3
<1>7. CASE entry.how = "values" /\ IsEnum(entry.enum) /\ S \subseteq ListsOf(DOMAIN entry.enum)
  <2> DEFINE T == DOMAIN entry.enum
             text(m) == <<"text", entry.enum[m]>>
  <2>1. \A x : x # None => Show(entry, x) = <<"list", [i \in DOMAIN x |-> text(x[i])]>>
    BY <1>7 DEF Show
  <2>2. PICK m, n \in Int : u \in [1 .. m -> T] /\ v \in [1 .. n -> T]
    BY <1>7, Lists DEF ListsOf
  <2>3. ASSUME [i \in DOMAIN u |-> text(u[i])] = [i \in DOMAIN v |-> text(v[i])]
        PROVE  FALSE
    <3>1. DOMAIN u = DOMAIN v
      BY <2>3
    <3>2. \A i \in DOMAIN u : text(u[i]) = text(v[i])
      BY <2>3, <3>1
    <3>3. \A i \in DOMAIN u : u[i] \in T /\ v[i] \in T
      BY <2>2, <3>1
    <3>4. \A i \in DOMAIN u : u[i] = v[i]
      BY <1>7, <3>2, <3>3 DEF IsEnum
    <3> QED BY <2>2, <3>1, <3>4
  <2> QED BY <1>1, <2>1, <2>3
<1> QED BY <1>2, <1>3, <1>4, <1>5, <1>6, <1>7 DEF FieldShown

\* The draft of an event names a known resource and action, and a resource
\* that is not blank.
LEMMA DraftsAreAccepted ==
  ASSUME NEW e, Recorded(e), Recordable(e)
  PROVE  DraftAccepted(Draft(e.class, e.data))
<1> DEFINE class == e.class
           data == e.data
           d == AuditMappings[class]
           draft == Draft(class, data)
           denied == class = "AuthorizationDenied"
<1>1. /\ class \in DOMAIN Catalogue /\ AuditFits(class)
      /\ DOMAIN data = DOMAIN Catalogue[class].fields
      /\ \A f \in DOMAIN data : data[f] \in Catalogue[class].fields[f]
  BY Fitness DEF Recorded, EventOf
<1>2. draft.action \in Actions
  BY <1>1 DEF Draft, AuditFits
<1>3. /\ denied => /\ data.target_resource_type \in DOMAIN AuditResourceType
                   /\ data.target_resource_id \in DenialTargetsNamed
  <2> SUFFICES ASSUME denied PROVE /\ data.target_resource_type \in DOMAIN AuditResourceType
                                   /\ data.target_resource_id \in DenialTargetsNamed
    OBVIOUS
  <2>1. Catalogue[class].fields = AuthorizationDenied.fields
    BY CatalogueEntries
  <2>2. /\ "target_resource_type" \in DOMAIN AuthorizationDenied.fields
        /\ AuthorizationDenied.fields["target_resource_type"] = DOMAIN AuditResourceType
    BY DEF AuthorizationDenied
  <2> QED BY <1>1, <2>1, <2>2 DEF Recordable
<1>4. draft.resource_type \in {AuditResourceType[t] : t \in DOMAIN AuditResourceType}
  <2>1. CASE denied
    BY <1>3, <2>1 DEF Draft
  <2>2. CASE ~denied
    BY <1>1, <2>2 DEF Draft, AuditFits
  <2> QED BY <2>1, <2>2
<1>5. draft.resource_id # Blank
  <2>1. Blank # None /\ Blank[1] = "text"
    BY EventTypesAssumption, NoneAssumption
  <2>2. \A x : <<"id", x>> # Blank
    BY <2>1
  <2>3. \A s \in Strings : ResolvedTarget(s) # Blank
    BY <2>1 DEF ResolvedTarget
  <2>4. denied => data.target_resource_id # Blank
    BY <1>3, <2>1, <2>2, <2>3 DEF DenialTargetsNamed
  <2>5. \/ draft.resource_id = None
        \/ draft.resource_id = <<"id", data[d.resource]>>
        \/ denied /\ draft.resource_id = data.target_resource_id
    <3>1. CASE d.resource = None \/ data[d.resource] = None
      BY <3>1 DEF Draft
    <3>2. CASE ~(d.resource = None \/ data[d.resource] = None) /\ denied
      BY <3>2 DEF Draft
    <3>3. CASE ~(d.resource = None \/ data[d.resource] = None) /\ ~denied
      BY <3>3 DEF Draft
    <3> QED BY <3>1, <3>2, <3>3
  <2> QED BY <2>1, <2>2, <2>4, <2>5
<1> QED BY <1>2, <1>4, <1>5 DEF DraftAccepted

\* The draft of an event tells every attribute but those left out.
LEMMA DraftsAreTelling ==
  ASSUME NEW e, Recorded(e), NEW a \in DOMAIN e.data, <<e.class, a>> \notin Omitted,
         NEW v \in Catalogue[e.class].fields[a] \ {e.data[a]}
  PROVE  Draft(e.class, [e.data EXCEPT ![a] = v]) # Draft(e.class, e.data)
<1> DEFINE class == e.class
           data == e.data
           other == [data EXCEPT ![a] = v]
           d == AuditMappings[class]
           S == Catalogue[class].fields[a]
<1>1. /\ class \in DOMAIN Catalogue /\ AuditFits(class)
      /\ DOMAIN data = DOMAIN Catalogue[class].fields /\ data[a] \in S
  BY Fitness DEF Recorded, EventOf
<1>2. other[a] = v /\ v # data[a]
  OBVIOUS
<1>3. CASE a \in DOMAIN d.payload /\ FieldShown(d.payload[a], S)
  <2>1. Show(d.payload[a], v) # Show(d.payload[a], data[a])
    BY <1>1, <1>2, <1>3, ShownApart
  <2>2. /\ Draft(class, data).payload[a] = Show(d.payload[a], data[a])
        /\ Draft(class, other).payload[a] = Show(d.payload[a], other[a])
    BY <1>3 DEF Draft
  <2> QED BY <1>2, <2>1, <2>2
<1>4. CASE IsTarget(class, a)
  <2>1. class = "AuthorizationDenied" /\ a \in {"target_resource_type", "target_resource_id"}
    BY <1>4 DEF IsTarget
  <2>2. S = AuthorizationDenied.fields[a] /\ d = MapAuthorizationDenied
    BY <2>1, CatalogueEntries, MappingEntries
  <2>3. CASE a = "target_resource_type"
    <3>1. v \in DOMAIN AuditResourceType /\ data[a] \in DOMAIN AuditResourceType
      BY <1>1, <2>2, <2>3 DEF AuthorizationDenied
    <3>2. AuditResourceType[v] # AuditResourceType[data[a]]
      BY <1>2, <3>1, Enumerations DEF IsEnum
    <3>3. /\ Draft(class, data).resource_type = AuditResourceType[data[a]]
          /\ Draft(class, other).resource_type = AuditResourceType[other[a]]
      BY <2>1, <2>3 DEF Draft
    <3> QED BY <1>2, <3>2, <3>3
  <2>4. CASE a = "target_resource_id"
    <3>1. d.resource = a /\ d.resource # None
      <4>1. d.resource = a
        BY <2>2, <2>4 DEF MapAuthorizationDenied, Descriptor
      <4>2. a # None
        BY <1>1, NoneAssumption
      <4> QED BY <4>1, <4>2
    <3>2. \A x : Draft(class, x).resource_id = x[a]
      BY <2>1, <2>4, <3>1 DEF Draft
    <3> QED BY <1>2, <3>2
  <2> QED BY <2>1, <2>3, <2>4
<1> QED BY <1>1, <1>3, <1>4 DEF AuditFits

-----------------------------------------------------------------------------
(* Encoding and decoding.                                                   *)

\* A row of the store.
Row(type, version, metadata, payload) ==
  [event_type |-> type, event_version |-> version, metadata |-> metadata, payload |-> payload]

\* What the codec c writes for the event e.
WrittenBy(c, e) ==
  Row(c.event_type, c.event_version, SoundMetadata,
      [k \in DOMAIN c.payload |-> EncodeField(c.payload[k], e.data[k])])

\* A row that is read as an event is read by a codec of its identity.
LEMMA DecodedBy ==
  ASSUME NEW stored, Decode(stored) # Refused
  PROVE  \E c \in ForIdentity(stored) :
           /\ stored.metadata = SoundMetadata /\ DecodablePayload(c, stored.payload)
           /\ Decode(stored) = [class |-> c.event_class, data |-> DecodePayload(c, stored.payload)]
           /\ Constructible(Decode(stored).class, Decode(stored).data)
<1> DEFINE readers == {c \in ForIdentity(stored) : /\ stored.metadata = SoundMetadata
                                                   /\ DecodablePayload(c, stored.payload)}
           made == {[class |-> c.event_class, data |-> DecodePayload(c, stored.payload)]
                      : c \in readers}
           valid == {e \in made : Constructible(e.class, e.data)}
<1>1. Decode(stored) = IF valid = {} THEN Refused ELSE CHOOSE e \in valid : TRUE
  BY DEF Decode
<1>2. valid # {}
  BY <1>1
<1>3. Decode(stored) \in valid
  BY <1>1, <1>2
<1> QED BY <1>3

\* A row that one codec reads is the event that codec makes of it.
LEMMA DecodedAs ==
  ASSUME NEW stored, NEW c, ForIdentity(stored) = {c}, stored.metadata = SoundMetadata,
         DecodablePayload(c, stored.payload), NEW e,
         e = [class |-> c.event_class, data |-> DecodePayload(c, stored.payload)],
         Constructible(e.class, e.data)
  PROVE  Decode(stored) = e
<1> DEFINE readers == {d \in ForIdentity(stored) : /\ stored.metadata = SoundMetadata
                                                   /\ DecodablePayload(d, stored.payload)}
           made == {[class |-> d.event_class, data |-> DecodePayload(d, stored.payload)]
                      : d \in readers}
           valid == {x \in made : Constructible(x.class, x.data)}
<1>1. Decode(stored) = IF valid = {} THEN Refused ELSE CHOOSE x \in valid : TRUE
  BY DEF Decode
<1>2. readers = {c}
  OBVIOUS
<1>3. made = {e}
  BY <1>2
<1>4. valid = {e}
  BY <1>3
<1> QED BY <1>1, <1>4

\* Every codec is registered.
LEMMA AllRegistered == Registered = Codecs
<1>1. ASSUME NEW c \in Codecs PROVE c.event_version = Catalogue[c.event_class].version
  BY Fitness DEF CodecFits
<1> QED BY <1>1 DEF Registered

\* encode accepts every event of the catalogue and decode reads it back.
LEMMA EncodedAndDecoded ==
  ASSUME NEW e, Recorded(e)
  PROVE  \E c \in Codecs : /\ CodecFits(e.class, c)
                           /\ Encode(e) = WrittenBy(c, e)
                           /\ Decode(WrittenBy(c, e)) = e
<1>1. /\ e.class \in DOMAIN Catalogue /\ DOMAIN e.data = DOMAIN Catalogue[e.class].fields
      /\ \A f \in DOMAIN e.data : e.data[f] \in Catalogue[e.class].fields[f]
  BY DEF Recorded, EventOf
<1>2. PICK c \in Codecs : c.event_class = e.class
  BY <1>1, Fitness
<1>3. CodecFits(e.class, c)
  BY <1>2, Fitness
<1> DEFINE r == WrittenBy(c, e)
<1>4. /\ r.event_type = c.event_type /\ r.event_version = c.event_version
      /\ r.metadata = SoundMetadata
      /\ r.payload = [k \in DOMAIN c.payload |-> EncodeField(c.payload[k], e.data[k])]
  BY DEF WrittenBy, Row
<1>5. ForEvent(e) = {c}
  BY <1>2, <1>3, AllRegistered DEF ForEvent, CodecFits
<1>6. ForIdentity(r) = {c}
  <2>1. ASSUME NEW d \in ForIdentity(r) PROVE d = c
    <3>1. d \in Codecs /\ d.event_type = c.event_type
      BY <1>4, AllRegistered DEF ForIdentity
    <3> QED BY <1>3, <3>1 DEF CodecFits
  <2>2. c \in ForIdentity(r)
    BY <1>4, AllRegistered DEF ForIdentity
  <2> QED BY <2>1, <2>2
<1>7. /\ DOMAIN r.payload = DOMAIN c.payload /\ DOMAIN c.payload = DOMAIN e.data
      /\ \A k \in DOMAIN c.payload :
           /\ r.payload[k] = EncodeField(c.payload[k], e.data[k])
           /\ FieldFits(c.payload[k], Catalogue[e.class].fields[k], k)
           /\ e.data[k] \in Catalogue[e.class].fields[k]
  BY <1>1, <1>3, <1>4 DEF CodecFits
<1>8. \A k \in DOMAIN c.payload :
        /\ DecodableField(c.payload[k], r.payload[k])
        /\ DecodeField(c.payload[k], r.payload[k]) = e.data[k]
  BY <1>7, FieldRoundTrip
<1> HIDE DEF r
<1>9. DecodablePayload(c, r.payload)
  BY <1>7, <1>8 DEF DecodablePayload
<1>10. DecodePayload(c, r.payload) = e.data
  <2>1. DecodePayload(c, r.payload) = [k \in DOMAIN e.data |-> e.data[k]]
    BY <1>7, <1>8 DEF DecodePayload
  <2>2. e.data = [k \in DOMAIN e.data |-> e.data[k]]
    BY DEF Recorded
  <2> QED BY <2>1, <2>2
<1>11. Constructible(e.class, e.data)
  <2>1. ASSUME e.class = "PackageStateReconciled" PROVE UniqueReasons(e.data.reasons)
    <3>1. Catalogue[e.class].fields = PackageStateReconciled.fields
      BY <2>1, CatalogueEntries
    <3>2. /\ "reasons" \in DOMAIN PackageStateReconciled.fields
          /\ \A x \in PackageStateReconciled.fields["reasons"] : UniqueReasons(x)
      BY DEF PackageStateReconciled
    <3> QED BY <1>1, <3>1, <3>2
  <2> QED BY <2>1 DEF Constructible
<1>12. e = [class |-> c.event_class, data |-> DecodePayload(c, r.payload)]
  <2>1. e = [class |-> e.class, data |-> e.data]
    BY DEF Recorded
  <2> QED BY <1>2, <1>10, <2>1
<1>13. Decode(r) = e
  BY <1>4, <1>6, <1>9, <1>11, <1>12, DecodedAs
<1>14. Encode(e) = r
  <2> DEFINE rows == {[event_type |-> d.event_type, event_version |-> d.event_version,
                       metadata |-> SoundMetadata,
                       payload |-> [k \in DOMAIN d.payload |-> EncodeField(d.payload[k], e.data[k])]]
                        : d \in ForEvent(e)}
             kept == {stored \in rows : Decode(stored) = e}
  <2>1. rows = {r}
    BY <1>5 DEF r, WrittenBy, Row
  <2>2. kept = {r}
    BY <1>13, <2>1
  <2>3. Encode(e) = IF kept = {} THEN Refused ELSE CHOOSE stored \in kept : TRUE
    BY DEF Encode
  <2> QED BY <2>2, <2>3
<1> QED BY <1>2, <1>3, <1>13, <1>14 DEF r

\* What is read from an admissible row is an event its class can hold.
LEMMA DecodedIsSound ==
  ASSUME NEW stored, \A k \in DOMAIN stored.payload : AdmissibleAt(k, stored.payload[k]),
         NEW e, e = Decode(stored), e # Refused
  PROVE  /\ EventOf(e.class, e.data) /\ stored.metadata = SoundMetadata
         /\ \E c \in Codecs :
              /\ c.event_class = e.class
              /\ <<c.event_type, c.event_version>> = <<stored.event_type, stored.event_version>>
         /\ Catalogue[e.class].version = stored.event_version
         /\ DOMAIN stored.payload = DOMAIN e.data
<1>1. PICK c \in ForIdentity(stored) :
        /\ stored.metadata = SoundMetadata /\ DecodablePayload(c, stored.payload)
        /\ e = [class |-> c.event_class, data |-> DecodePayload(c, stored.payload)]
        /\ Constructible(e.class, e.data)
  BY DecodedBy
<1>2. /\ c \in Codecs /\ c.event_class = e.class /\ e.data = DecodePayload(c, stored.payload)
      /\ <<c.event_type, c.event_version>> = <<stored.event_type, stored.event_version>>
  BY <1>1, AllRegistered DEF ForIdentity
<1>3. CodecFits(e.class, c)
  BY <1>2, Fitness
<1>4. /\ DOMAIN e.data = DOMAIN stored.payload /\ DOMAIN stored.payload = DOMAIN c.payload
      /\ DOMAIN c.payload = DOMAIN Catalogue[e.class].fields
      /\ \A k \in DOMAIN e.data :
           /\ e.data[k] = DecodeField(c.payload[k], stored.payload[k])
           /\ DecodableField(c.payload[k], stored.payload[k])
           /\ FieldFits(c.payload[k], Catalogue[e.class].fields[k], k)
           /\ AdmissibleAt(k, stored.payload[k])
  BY <1>1, <1>2, <1>3 DEF DecodePayload, DecodablePayload, CodecFits
<1>5. ASSUME "reasons" \in DOMAIN e.data PROVE UniqueReasons(e.data["reasons"])
  <2>1. e.class = "PackageStateReconciled"
    BY <1>3, <1>4, <1>5 DEF CodecFits
  <2> QED BY <1>1, <2>1 DEF Constructible
<1>6. ASSUME NEW k \in DOMAIN e.data PROVE e.data[k] \in Catalogue[e.class].fields[k]
  <2>1. k = "reasons" => UniqueReasons(DecodeField(c.payload[k], stored.payload[k]))
    BY <1>4, <1>5
  <2> QED BY <1>4, <2>1, FieldSound
<1>7. EventOf(e.class, e.data)
  BY <1>3, <1>4, <1>6 DEF EventOf, CodecFits
<1>8. Catalogue[e.class].version = stored.event_version
  BY <1>2, <1>3 DEF CodecFits
<1> QED BY <1>1, <1>2, <1>4, <1>7, <1>8

-----------------------------------------------------------------------------
(* The stored row.                                                          *)

\* A row of any identity, with any metadata, whose payload is admissible.
StoredRow(r) ==
  /\ r = Row(r.event_type, r.event_version, r.metadata, r.payload)
  /\ \A k \in DOMAIN r.payload : AdmissibleAt(k, r.payload[k])

RowInv ==
  /\ row # None => event # None /\ StoredRow(row)
  /\ row # None /\ ~altered => row = Encode(event)
  /\ read # None => row # None /\ read = Decode(row)
  /\ altered \in BOOLEAN

CodecInv == EventInv /\ RowInv

LEMMA RowsAreNotRefusals ==
  ASSUME NEW r, StoredRow(r)
  PROVE  r # Refused
<1>1. DOMAIN r = {"event_type", "event_version", "metadata", "payload"}
  BY DEF StoredRow, Row
<1>2. DOMAIN Refused = {"raised"}
  BY DEF Refused
<1> QED BY <1>1, <1>2

LEMMA EncodedRow ==
  ASSUME NEW e, Recorded(e)
  PROVE  StoredRow(Encode(e))
<1>1. PICK c \in Codecs : CodecFits(e.class, c) /\ Encode(e) = WrittenBy(c, e)
  BY EncodedAndDecoded
<1> DEFINE r == WrittenBy(c, e)
<1>2. /\ r = Row(r.event_type, r.event_version, r.metadata, r.payload)
      /\ r.payload = [k \in DOMAIN c.payload |-> EncodeField(c.payload[k], e.data[k])]
  BY DEF WrittenBy, Row
<1>3. ASSUME NEW k \in DOMAIN c.payload
      PROVE  AdmissibleAt(k, EncodeField(c.payload[k], e.data[k]))
  <2>1. /\ FieldFits(c.payload[k], Catalogue[e.class].fields[k], k)
        /\ e.data[k] \in Catalogue[e.class].fields[k]
    BY <1>1, <1>3 DEF CodecFits, Recorded, EventOf
  <2> QED BY <2>1, FieldRoundTrip
<1> QED BY <1>1, <1>2, <1>3 DEF StoredRow

\* A row with another admissible payload is a row of the store.
LEMMA AnotherPayload ==
  ASSUME NEW r, StoredRow(r), NEW p, \A k \in DOMAIN p : AdmissibleAt(k, p[k])
  PROVE  StoredRow([r EXCEPT !.payload = p])
<1> DEFINE s == [r EXCEPT !.payload = p]
<1>1. s = Row(r.event_type, r.event_version, r.metadata, p)
  BY DEF StoredRow, Row
<1>2. s.payload = p /\ s = Row(s.event_type, s.event_version, s.metadata, s.payload)
  BY <1>1 DEF Row
<1> QED BY <1>2 DEF StoredRow

\* A sample that fits its key is admissible there.
LEMMA SamplesAreAdmissible ==
  ASSUME NEW k, NEW j \in Samples, Fitting(k, j)
  PROVE  AdmissibleAt(k, j)
<1>1. CASE j \in Scalars
  BY <1>1 DEF AdmissibleAt, ScalarAt
<1>2. CASE j = Json("list", <<>>)
  <2>1. j = <<"list", <<>>>> /\ j[2] = <<>>
    BY <1>2 DEF Json
  <2>2. [i \in 1 .. 0 |-> j[2][i]] = <<>>
    OBVIOUS
  <2>3. ListAt(k, 0, j)
    BY <2>1, <2>2 DEF ListAt
  <2> QED BY <2>3, Bounds DEF AdmissibleAt
<1>3. CASE \E i \in Scalars : j = Json("list", <<i>>)
  <2>1. PICK i \in Scalars : j = <<"list", <<i>>>>
    BY <1>3 DEF Json
  <2>2. j[1] = "list" /\ j[2] = <<i>> /\ Len(j[2]) = 1
    BY <2>1
  <2>3. 1 \in 0 .. ItemBound(k)
    BY <2>2, Bounds DEF Fitting
  <2>4. ListAt(k, 1, j)
    BY <2>1, <2>2 DEF ListAt, ScalarAt
  <2> QED BY <2>3, <2>4 DEF AdmissibleAt
<1>4. CASE \E i \in Scalars : j = Json("list", <<i, i>>)
  <2>1. PICK i \in Scalars : j = <<"list", <<i, i>>>>
    BY <1>4 DEF Json
  <2>2. j[1] = "list" /\ j[2] = <<i, i>> /\ Len(j[2]) = 2
    BY <2>1
  <2>3. 2 \in 0 .. ItemBound(k)
    BY <2>2, Bounds DEF Fitting
  <2>4. ListAt(k, 2, j)
    BY <2>1, <2>2 DEF ListAt, ScalarAt
  <2> QED BY <2>3, <2>4 DEF AdmissibleAt
<1> QED BY <1>1, <1>2, <1>3, <1>4 DEF Samples

\* So is a list repeated, when it fits.
LEMMA RepeatedIsAdmissible ==
  ASSUME NEW k, NEW j, AdmissibleAt(k, j), j[1] = "list",
         Fitting(k, Json("list", j[2] \o j[2]))
  PROVE  AdmissibleAt(k, Json("list", j[2] \o j[2]))
<1>1. PICK n \in 0 .. ItemBound(k) : ListAt(k, n, j)
  <2>1. ~ScalarAt(k, j)
    BY ScalarTags
  <2> QED BY <2>1 DEF AdmissibleAt
<1> DEFINE items == j[2]
           twice == items \o items
           new == Json("list", twice)
<1>2. n \in Nat /\ items = [i \in 1 .. n |-> items[i]] /\ \A i \in 1 .. n : ScalarAt(k, items[i])
  BY <1>1, Bounds DEF ListAt
<1>3. items \in Seq({items[m] : m \in 1 .. n}) /\ Len(items) = n
  BY <1>2
<1>4. /\ Len(twice) = n + n /\ DOMAIN twice = 1 .. n + n
      /\ twice = [i \in 1 .. n + n |-> twice[i]]
      /\ \A i \in 1 .. n + n : twice[i] = IF i <= n THEN items[i] ELSE items[i - n]
  BY <1>2, <1>3
<1>5. ASSUME NEW i \in 1 .. n + n PROVE ScalarAt(k, twice[i])
  <2>1. CASE i <= n
    BY <1>2, <1>4, <2>1
  <2>2. CASE ~(i <= n)
    <3>1. i - n \in 1 .. n
      BY <1>2, <2>2
    <3> QED BY <1>2, <1>4, <2>2, <3>1
  <2> QED BY <2>1, <2>2
<1>6. new = <<"list", twice>> /\ new[1] = "list" /\ new[2] = twice
  BY DEF Json
<1>7. n + n \in 0 .. ItemBound(k)
  BY <1>2, <1>4, <1>6, Bounds DEF Fitting
<1> HIDE DEF twice, items, new
<1>8. ListAt(k, n + n, new)
  BY <1>4, <1>5, <1>6 DEF ListAt
<1>9. AdmissibleAt(k, new)
  BY <1>7, <1>8 DEF AdmissibleAt
<1> QED BY <1>9 DEF new, twice, items

\* The row, whoever altered it, keeps its form; one that nobody altered is the
\* one that was written for the event.
LEMMA CodecInvHolds == Spec => []CodecInv
<1>1. Init => RowInv
  BY DEF Init, RowInv
<1>2. EventInv /\ EventInv' /\ RowInv /\ [Next]_vars => RowInv'
  <2> SUFFICES ASSUME EventInv, EventInv', RowInv, [Next]_vars PROVE RowInv'
    OBVIOUS
  <2>1. ASSUME NEW class \in DOMAIN Catalogue, Record(class) PROVE RowInv'
    BY <2>1 DEF Record, RowInv
  <2>2. ASSUME Store PROVE RowInv'
    <3>1. Recorded(event) /\ row' = Encode(event) /\ read = None
      BY <2>2 DEF Store, EventInv, RowInv
    <3>2. StoredRow(row')
      BY <3>1, EncodedRow
    <3> QED BY <2>2, <3>1, <3>2 DEF Store, RowInv
  <2>3. ASSUME Alter PROVE RowInv'
    <3>1. ASSUME NEW new, AlterRow(new), StoredRow(new) PROVE RowInv'
      <4>1. row # None /\ read = None /\ event # None
        BY <3>1 DEF AlterRow, Alterable, RowInv
      <4> QED BY <3>1, <4>1 DEF AlterRow, RowInv
    <3>2. row # None /\ StoredRow(row) /\ \A k \in DOMAIN row.payload : AdmissibleAt(k, row.payload[k])
      BY <2>3 DEF Alter, Alterable, AddKey, SetMetadata, SetIdentity, AlterRow, RowInv, StoredRow
    <3>3. ASSUME NEW k \in DOMAIN row.payload, DropKey(k) PROVE RowInv'
      <4> DEFINE p == [j \in (DOMAIN row.payload) \ {k} |-> row.payload[j]]
      <4>1. StoredRow([row EXCEPT !.payload = p])
        BY <3>2, AnotherPayload
      <4> QED BY <3>1, <3>3, <4>1 DEF DropKey
    <3>4. ASSUME AddKey PROVE RowInv'
      <4> DEFINE p == row.payload ++ [k \in {Unused} |-> Null]
      <4>1. \A k : AdmissibleAt(k, Null)
        BY ScalarShapes DEF AdmissibleAt, ScalarAt
      <4>2. \A k \in DOMAIN p : AdmissibleAt(k, p[k])
        BY <3>2, <4>1 DEF ++
      <4>3. StoredRow([row EXCEPT !.payload = p])
        BY <3>2, <4>2, AnotherPayload
      <4> QED BY <3>1, <3>4, <4>3 DEF AddKey
    <3>5. ASSUME NEW k \in DOMAIN row.payload, NEW j, AdmissibleAt(k, j),
                 AlterRow([row EXCEPT !.payload[k] = j])
          PROVE  RowInv'
      <4> DEFINE p == [row.payload EXCEPT ![k] = j]
      <4>1. \A f \in DOMAIN p : AdmissibleAt(f, p[f])
        BY <3>2, <3>5
      <4>2. StoredRow([row EXCEPT !.payload = p])
        BY <3>2, <4>1, AnotherPayload
      <4>3. [row EXCEPT !.payload = p] = [row EXCEPT !.payload[k] = j]
        OBVIOUS
      <4> QED BY <3>1, <3>5, <4>2, <4>3
    <3>6. ASSUME NEW k \in DOMAIN row.payload, NEW j \in Samples, SetValue(k, j) PROVE RowInv'
      BY <3>5, <3>6, SamplesAreAdmissible DEF SetValue
    <3>7. ASSUME NEW k \in DOMAIN row.payload, RepeatItem(k) PROVE RowInv'
      BY <3>2, <3>5, <3>7, RepeatedIsAdmissible DEF RepeatItem
    <3>8. ASSUME NEW type, NEW version, SetIdentity(type, version) PROVE RowInv'
      <4> DEFINE s == [row EXCEPT !.event_type = type, !.event_version = version]
      <4>1. s = Row(type, version, row.metadata, row.payload)
        <5> DEFINE t == [row EXCEPT !.event_type = type]
        <5>1. t = Row(type, row.event_version, row.metadata, row.payload)
          BY <3>2 DEF StoredRow, Row
        <5>2. s = [t EXCEPT !.event_version = version]
          OBVIOUS
        <5> HIDE DEF t
        <5> QED BY <5>1, <5>2 DEF Row
      <4>2. StoredRow(s)
        BY <3>2, <4>1 DEF StoredRow, Row
      <4> QED BY <3>1, <3>8, <4>2 DEF SetIdentity
    <3>9. ASSUME NEW m, SetMetadata(m) PROVE RowInv'
      <4> DEFINE s == [row EXCEPT !.metadata = m]
      <4>1. s = Row(row.event_type, row.event_version, m, row.payload)
        BY <3>2 DEF StoredRow, Row
      <4>2. StoredRow(s)
        BY <3>2, <4>1 DEF StoredRow, Row
      <4> QED BY <3>1, <3>9, <4>2 DEF SetMetadata
    <3> QED BY <2>3, <3>3, <3>4, <3>6, <3>7, <3>8, <3>9 DEF Alter
  <2>4. ASSUME Read PROVE RowInv'
    BY <2>4 DEF Read, RowInv
  <2>5. ASSUME UNCHANGED vars PROVE RowInv'
    BY <2>5 DEF vars, RowInv
  <2> QED BY <2>1, <2>2, <2>3, <2>4, <2>5 DEF Next
<1> QED BY <1>1, <1>2, RecordedEvents, PTL DEF Spec, CodecInv

\* The recorded event is one of its class, and its row holds only JSON values.
THEOREM StoredValues == Spec => []CodecTypeOK
<1>1. CodecInv => CodecTypeOK
  <2> SUFFICES ASSUME CodecInv PROVE CodecTypeOK
    OBVIOUS
  <2>1. event # None => EventOf(event.class, event.data)
    BY DEF CodecInv, EventInv, Recorded
  <2>2. row # None => \A k \in DOMAIN row.payload : IsJson(row.payload[k])
    BY AdmissibleIsJson DEF CodecInv, RowInv, StoredRow
  <2> QED BY <2>1, <2>2 DEF CodecInv, RowInv, CodecTypeOK
<1> QED BY <1>1, CodecInvHolds, PTL

\* Every event is stored, and its row, unless altered, is read as that event.
THEOREM EveryEventIsKept == Spec => []StoredEventReadsBack
<1>1. CodecInv => StoredEventReadsBack
  <2> SUFFICES ASSUME CodecInv PROVE StoredEventReadsBack
    OBVIOUS
  <2>1. row # Refused
    BY RowsAreNotRefusals, EventCodecsAssumption DEF CodecInv, RowInv
  <2>2. ASSUME ~altered, read # None PROVE read = event
    <3>1. row # None /\ event # None /\ row = Encode(event) /\ read = Decode(row)
      BY <2>2 DEF CodecInv, RowInv
    <3>2. Recorded(event)
      BY <3>1 DEF CodecInv, EventInv
    <3> QED BY <3>1, <3>2, EncodedAndDecoded
  <2> QED BY <2>1, <2>2 DEF StoredEventReadsBack
<1> QED BY <1>1, CodecInvHolds, PTL

\* Whatever the row became, it is refused or read as an event of its identity.
THEOREM ReadingIsSound == Spec => []ReadIsSound
<1>1. CodecInv => ReadIsSound
  <2> SUFFICES ASSUME CodecInv, read # None, read # Refused
               PROVE  /\ EventOf(read.class, read.data)
                      /\ row.metadata = SoundMetadata
                      /\ \E c \in Codecs :
                           /\ c.event_class = read.class
                           /\ <<c.event_type, c.event_version>> = <<row.event_type, row.event_version>>
                      /\ Catalogue[read.class].version = row.event_version
                      /\ DOMAIN row.payload = DOMAIN read.data
    BY DEF ReadIsSound
  <2>1. StoredRow(row) /\ read = Decode(row)
    BY DEF CodecInv, RowInv
  <2> QED BY <2>1, DecodedIsSound DEF StoredRow
<1> QED BY <1>1, CodecInvHolds, PTL

\* The audit handler, which runs after the commit, never refuses an event.
THEOREM EventsAreAudited == Spec => []EventIsAuditable
<1>1. EventInv => EventIsAuditable
  BY DraftsAreAccepted DEF EventInv, EventIsAuditable
<1> QED BY <1>1, RecordedEvents, PTL

\* The audit record tells the event: every attribute that is not left out on
\* purpose can be told from it.
THEOREM AuditsAreTelling == Spec => []AuditTellsEvent
<1>1. EventInv => AuditTellsEvent
  BY DraftsAreTelling DEF EventInv, AuditTellsEvent
<1> QED BY <1>1, RecordedEvents, PTL

=============================================================================
