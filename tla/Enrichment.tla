----------------------------- MODULE Enrichment -----------------------------
(***************************************************************************)
(* Flattening in store_enriched_record: the stored JSON is built from the  *)
(* event's core fields, then the notification's headline fields, then one  *)
(* block per optional section of the RichNotification (company, customer,  *)
(* insight, payment), each block writing its keys only when the section is *)
(* present.  A value is abstracted to where it was read from: a field of   *)
(* the event, of the notification, or of one of its sections.             *)
(***************************************************************************)
EXTENDS Naturals

CONSTANTS
    None        \* a key the JSON does not have

Sections == {"company", "customer", "insight", "payment"}

\* Keys of the stored JSON, by the part of the input they come from.
CoreKeys == {"provider", "external_id", "customer_id", "amount", "currency",
             "status", "metadata", "workspace_id", "timestamp"}
HeadKeys == {"headline", "headline_icon", "severity"}
SectionKeys ==
    [company  |-> {"company_name", "company_logo_url", "company_domain"},
     customer |-> {"customer_email", "customer_name", "customer_ltv",
                   "customer_tenure", "customer_status_flags"},
     insight  |-> {"insight_text", "insight_icon"},
     payment  |-> {"plan_name", "payment_method", "card_last4"}]
Keys == CoreKeys \cup HeadKeys \cup UNION {SectionKeys[s] : s \in Sections}

\* NotificationSeverity members and their .value, the string stored.
Severity == {"INFO", "SUCCESS", "WARNING", "ERROR"}
SeverityValue ==
    [INFO |-> "info", SUCCESS |-> "success", WARNING |-> "warning",
     ERROR |-> "error"]

\* The field a key is read from (company_name from company.name,
\* customer_ltv from customer.ltv_display, ...); a core or headline key is
\* read from the field of its own name.
FieldOf ==
    [company_name |-> "name", company_logo_url |-> "logo_url",
     company_domain |-> "domain", customer_email |-> "email",
     customer_name |-> "name", customer_ltv |-> "ltv_display",
     customer_tenure |-> "tenure_display",
     customer_status_flags |-> "status_flags", insight_text |-> "text",
     insight_icon |-> "icon", plan_name |-> "plan_name",
     payment_method |-> "payment_method", card_last4 |-> "card_last4"]
SectionField(k) == IF k \in DOMAIN FieldOf THEN FieldOf[k] ELSE k
\* customer.company_name is a field of CustomerInfo no key is read from.
Fields == {SectionField(k) : k \in Keys} \cup {"company_name"}

\* The source of a value: a field of the event, the notification or a
\* section; the severity is stored as its string.
Src(part, field) == [part |-> part, field |-> field]
Str(v) == [str |-> v]
Value == [part : {"event", "notification"} \cup Sections, field : Fields]
           \cup [str : {SeverityValue[v] : v \in Severity}]

\* The steps of the flattening, in the order the code writes the keys.
Blocks == <<"core", "head", "company", "customer", "insight", "payment",
            "done">>

VARIABLES
    notified,   \* a notification was passed (it is optional)
    present,    \* the optional sections the notification has
    severity,   \* notification.severity
    customerCo, \* customer.company_name is set
    out,        \* the JSON built so far: a key's value, or None
    step        \* the index in Blocks of the next block

vars == <<notified, present, severity, customerCo, out, step>>

-----------------------------------------------------------------------------
\* out with the keys of ks written from the part of the input `part`.
Write(ks, part) ==
    [k \in Keys |-> IF k \in ks THEN Src(part, SectionField(k)) ELSE out[k]]

Init ==
    /\ notified \in BOOLEAN
    /\ present \in IF notified THEN SUBSET Sections ELSE {{}}
    /\ severity \in Severity
    /\ customerCo \in BOOLEAN
    /\ out = [k \in Keys |-> None]
    /\ step = 1

\* webhook_data = {"provider": ..., ..., "workspace_id": workspace_id,
\* "timestamp": ...}: the core fields of event_data.
Core ==
    /\ Blocks[step] = "core"
    /\ out' = Write(CoreKeys, "event")
    /\ step' = step + 1
    /\ UNCHANGED <<notified, present, severity, customerCo>>

\* A faulty variant: severity is stored as the enum member, not its value.
HeadRaw ==
    /\ Blocks[step] = "head"
    /\ out' = IF notified
              THEN [Write(HeadKeys, "notification") EXCEPT
                      !["severity"] = Str(severity)]
              ELSE out
    /\ step' = step + 1
    /\ UNCHANGED <<notified, present, severity, customerCo>>

\* if notification: headline, headline_icon and severity.value.
Head ==
    /\ Blocks[step] = "head"
    /\ out' = IF notified
              THEN [Write(HeadKeys, "notification") EXCEPT
                      !["severity"] = Str(SeverityValue[severity])]
              ELSE out
    /\ step' = step + 1
    /\ UNCHANGED <<notified, present, severity, customerCo>>

\* A faulty variant: without a company section, company_name falls back to
\* the customer's company_name.
SectionFallback(s) ==
    /\ Blocks[step] = s
    /\ out' = IF s \in present THEN Write(SectionKeys[s], s)
              ELSE IF s = "company" /\ "customer" \in present /\ customerCo
                   THEN [out EXCEPT !["company_name"] =
                           Src("customer", "company_name")]
                   ELSE out
    /\ step' = step + 1
    /\ UNCHANGED <<notified, present, severity, customerCo>>

\* if notification.<section>: write the section's keys; an absent section
\* writes none of them.
Section(s) ==
    /\ Blocks[step] = s
    /\ out' = IF s \in present THEN Write(SectionKeys[s], s) ELSE out
    /\ step' = step + 1
    /\ UNCHANGED <<notified, present, severity, customerCo>>

\* The JSON is complete; store_enriched_record goes on to cache.set.
Finished ==
    /\ Blocks[step] = "done"
    /\ UNCHANGED vars

Next == Core \/ Head \/ (\E s \in Sections : Section(s)) \/ Finished

Spec == Init /\ [][Next]_vars

-----------------------------------------------------------------------------
(***************************************************************************)
(* Reference: the stored JSON of spec 4.3 steps 2 and 3, written as one    *)
(* function of the input: core keys from the event, headline keys from the *)
(* notification with severity as its string, and exactly the keys of the   *)
(* present sections, each from its own section.                            *)
(***************************************************************************)
Expected ==
    [k \in Keys |->
        IF k \in CoreKeys THEN Src("event", k)
        ELSE IF ~notified THEN None
        ELSE IF k = "severity" THEN Str(SeverityValue[severity])
        ELSE IF k \in HeadKeys THEN Src("notification", k)
        ELSE LET s == CHOOSE t \in Sections : k \in SectionKeys[t] IN
             IF s \in present THEN Src(s, SectionField(k)) ELSE None]

TypeOK ==
    /\ notified \in BOOLEAN
    /\ present \subseteq Sections
    /\ severity \in Severity
    /\ customerCo \in BOOLEAN
    /\ out \in [Keys -> Value \cup {None}]
    /\ step \in 1..7

(***************************************************************************)
(* The flattening computes the reference JSON for every combination of     *)
(* present sections, severities and customer fields: an absent section     *)
(* leaves out all its keys (never a null, never a value from another       *)
(* section), and no block overwrites a key another block wrote.            *)
(***************************************************************************)
FlattenMatchesReference ==
    Blocks[step] = "done" => out = Expected

=============================================================================
