------------------------------ MODULE AlertStore ------------------------------
(***************************************************************************)
(* alerts.Store, the gateway's ring of operator alerts, and the rules that *)
(* fill it.  Every method runs wholly under Store.mu, so a method is one   *)
(* function of the store's value [buf, muted].                             *)
(*                                                                         *)
(* The clock is abstracted to what Add asks of it: muted holds the dedupe  *)
(* keys whose last alert is younger than the 45 s window.  A key leaves it *)
(* when its window is over (WindowOver) or the operator clears the alerts. *)
(***************************************************************************)
EXTENDS Integers, Sequences, FiniteSets, SequencesExt

CONSTANTS Events,      \* canonical events, by event id
          NoEvent,     \* the event of a record or an alert that names none
          OperatorActions,  \* "accept", "override", "annotate"
          MaxAlerts    \* Store.max

ASSUME AlertsAssumption == /\ NoEvent \notin Events
                           /\ OperatorActions \subseteq {"accept", "override", "annotate"}
                           /\ MaxAlerts \in Nat \ {0}

DigestRules == {"digest.low_freshness", "digest.low_diversity", "digest.sparse_selection"}
Rules == DigestRules \cup {"ingest.severity_warn_or_above", "operator.review_required",
                           "operator.resolution_recorded", "platform.audit_chain_invalid"}

Alert == [rule : Rules, event : Events \cup {NoEvent}, action : OperatorActions \cup {""}]

IngestAlert(e) ==
    [rule |-> "ingest.severity_warn_or_above", event |-> e, action |-> ""]
DigestAlert(rule) == [rule |-> rule, event |-> NoEvent, action |-> ""]
ReviewAlert(e) == [rule |-> "operator.review_required", event |-> e, action |-> ""]
ResolutionAlert(e, action) ==
    [rule |-> "operator.resolution_recorded", event |-> e, action |-> action]
AuditBrokenAlert ==
    [rule |-> "platform.audit_chain_invalid", event |-> NoEvent, action |-> ""]

\* The rule alone, or the rule and the event for an alert that refers to one.
dedupeKey(a) == <<a.rule, a.event>>

NewStore == [buf |-> <<>>, muted |-> {}]

Add(store, a) ==
    LET buf == Append(store.buf, a)
    IN  IF dedupeKey(a) \in store.muted THEN store
        ELSE [buf |-> IF Len(buf) > MaxAlerts THEN Tail(buf) ELSE buf,
              muted |-> store.muted \cup {dedupeKey(a)}]

Clear(store) == [buf |-> <<>>, muted |-> {}]

WindowOver(store, key) == [store EXCEPT !.muted = @ \ {key}]
=============================================================================
