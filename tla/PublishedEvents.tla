--------------------------- MODULE PublishedEvents ---------------------------
(***************************************************************************)
(* The two things the program does with a recorded event: EventCodecs      *)
(* stores it and AuditMapping describes it for the audit log.              *)
(***************************************************************************)
EXTENDS EventCodecs, AuditMapping

\* Events the program records: a denial names what its resolver returned.
Recordable(e) ==
  e.class = "AuthorizationDenied" => e.data.target_resource_id \in DenialTargetsNamed

\* A gap in the audit payload: map_route_removed has no key for the departure
\* time of the removed route, beside its completion time (audit_mapping/routes.py).
Omitted == {<<"RouteRemoved", "previous_departure_time">>}

\* The draft of a recorded event is never refused: the audit handler runs after
\* the command has committed, so a refusal would lose the record of a change
\* that happened (audit_event_handler.py, audit_record.py).
EventIsAuditable ==
  event # None /\ row = None /\ Recordable(event) =>
    DraftAccepted(Draft(event.class, event.data))

\* Two events of a class that differ in an attribute leave different audit
\* records: the record tells what happened without the event (audit_mapping).
AuditTellsEvent ==
  event # None /\ row = None =>
    \A a \in DOMAIN event.data :
      <<event.class, a>> \notin Omitted =>
        \A v \in Catalogue[event.class].fields[a] \ {event.data[a]} :
          Draft(event.class, [event.data EXCEPT ![a] = v]) # Draft(event.class, event.data)

=============================================================================
