---------------------------- MODULE TicketEnums ----------------------------
(***************************************************************************)
(* The closed vocabularies of app/enums.py that the other modules share:   *)
(* roles, the statuses, priorities and categories of a ticket, the map of  *)
(* allowed status transitions, the event types the services record, and    *)
(* the processing statuses.  Members of an enumeration keep the names they *)
(* have in the source.                                                     *)
(***************************************************************************)

TicketStatus == {"OPEN", "IN_PROGRESS", "RESOLVED", "CLOSED"}

TicketPriority == {"LOW", "MEDIUM", "HIGH", "URGENT"}

TicketCategory == {"TECHNICAL", "BILLING", "ACCOUNT", "GENERAL", "OTHER"}

UserRole == {"CUSTOMER", "AGENT", "ADMIN"}

(* PRIORITY_CHANGED and COMMENT_ADDED exist in the enumeration and in the  *)
(* database type, but no code path records them.                           *)
TicketEventType ==
    {"CREATED", "STATUS_CHANGED", "ASSIGNED", "UNASSIGNED", "PROCESSED"}

ProcessingStatus == {"PENDING", "COMPLETED", "FAILED"}

(* ALLOWED_STATUS_TRANSITIONS: from each status, where a request may go.   *)
AllowedStatusTransitions ==
    [ OPEN        |-> {"IN_PROGRESS", "CLOSED"},
      IN_PROGRESS |-> {"RESOLVED", "OPEN", "CLOSED"},
      RESOLVED    |-> {"CLOSED", "IN_PROGRESS"},
      CLOSED      |-> {} ]

=============================================================================
