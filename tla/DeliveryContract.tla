-------------------------- MODULE DeliveryContract --------------------------
(***************************************************************************)
(* What the LINE channel promises for each admitted event, whatever the    *)
(* server does to keep it (ADR-061, decisions 6 and 7): the customer is    *)
(* shown at most one message, none unless a send was begun, and what the   *)
(* job row and the CRM say of it is true.                                  *)
(***************************************************************************)
EXTENDS Naturals

CONSTANTS Events, NoText

VARIABLES
  record,  \* what the row says of the event's answer
  shown,   \* what the customer has been shown
  book     \* what the CRM has recorded as sent

contractVars == <<record, shown, book>>

\* "dropped" closed before any send, "ended" after one had begun.
Records == {"none", "pending", "sending", "delivered", "doubt", "dropped", "ended"}
Unshown == [times |-> 0, text |-> NoText]
-----------------------------------------------------------------------------
Move(e, from, to) == record[e] = from /\ record' = [record EXCEPT ![e] = to]

Receive(e) == Move(e, "none", "pending") /\ UNCHANGED <<shown, book>>
Begin(e)   == Move(e, "pending", "sending") /\ UNCHANGED <<shown, book>>

\* Shown once, with whatever text; a request may still arrive after its outcome
\* was left in doubt or closed.
Show(e) ==
  /\ record[e] \in {"sending", "doubt", "ended"}
  /\ shown[e] = Unshown
  /\ shown' = [shown EXCEPT ![e] = [times |-> 1, text |-> shown'[e].text]]
  /\ UNCHANGED <<record, book>>

Deliver(e) ==
  /\ shown[e] # Unshown
  /\ Move(e, "sending", "delivered")
  /\ UNCHANGED <<shown, book>>

Doubt(e) == Move(e, "sending", "doubt") /\ UNCHANGED <<shown, book>>

\* The CRM is told once, what the customer was shown.
Book(e) ==
  /\ record[e] = "delivered" /\ book[e] = NoText
  /\ book' = [book EXCEPT ![e] = shown[e].text]
  /\ UNCHANGED <<record, shown>>

\* Failure, erasure and acknowledgement close events; a fence closes many.
Close(events) ==
  /\ \A e \in events : record[e] \in {"pending", "sending", "doubt", "delivered"}
  /\ record' = [e \in Events |->
       IF e \notin events THEN record[e]
       ELSE IF record[e] = "pending" THEN "dropped" ELSE "ended"]
  /\ UNCHANGED <<shown, book>>
-----------------------------------------------------------------------------
ContractInit ==
  /\ record = [e \in Events |-> "none"]
  /\ shown = [e \in Events |-> Unshown]
  /\ book = [e \in Events |-> NoText]

ContractNext ==
  \/ \E e \in Events :
       Receive(e) \/ Begin(e) \/ Show(e) \/ Deliver(e) \/ Doubt(e) \/ Book(e)
  \/ \E events \in SUBSET Events : Close(events)

ContractSpec == ContractInit /\ [][ContractNext]_contractVars
=============================================================================
