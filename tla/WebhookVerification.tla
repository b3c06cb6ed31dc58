------------------------- MODULE WebhookVerification -------------------------
(***************************************************************************)
(* The webhook endpoint POST /webhook/customer/{workspace}/{provider}/ of  *)
(* one Integration, with the webhook_verified_at stamp it maintains, and   *)
(* the integration-management flows that reconnect or disconnect it.       *)
(*                                                                         *)
(* Each inbound webhook is a request handled on its own worker, in steps   *)
(* that each read or write the persisted Integration once:                 *)
(*   Receive    the Integration is looked up (secret and stamp loaded);    *)
(*   Validate   validate_webhook against the loaded secret: invalid ->     *)
(*              400 and nothing else; valid -> go on to the stamp;         *)
(*   Stamp      set webhook_verified_at to now if it is unset, as one      *)
(*              atomic check-and-set on the persisted row;                 *)
(*   Parse      parse_webhook; None (a provider ping) -> 200 at once;      *)
(*   Store      enrichment and store_enriched_record, whose failure is     *)
(*              reported as False and answered with 200 all the same.      *)
(* Reconnect gives the integration a new webhook_secret and nulls the      *)
(* stamp in the same save; Disconnect removes the event source.            *)
(* A secret is abstracted to its generation number; a request's signature  *)
(* to the generation it was signed with, or Forged.                        *)
(***************************************************************************)
EXTENDS Naturals

CONSTANTS
    Request,    \* concurrent inbound webhooks
    MaxGen,     \* bound on the number of reconnections (secret rotations)
    MaxTime,    \* bound on the clock
    Forged,     \* a signature made with no secret of the integration
    None        \* Python's None

ASSUME WebhookAssumption ==
    /\ MaxGen \in Nat
    /\ MaxTime \in Nat
    /\ Forged \notin Nat
    /\ None \notin Nat

VARIABLES
    now,          \* timezone.now()
    secret,       \* generation of Integration.webhook_secret
    connected,    \* the event source is connected (the Integration exists)
    verifiedAt,   \* Integration.webhook_verified_at
    stampGen,     \* history: the secret the request that stamped validated
    rpc,          \* where each request is in the view
    sig,          \* the secret generation each request was signed with
    loaded,       \* the secret generation the request's lookup loaded
    loadedAt,     \* the webhook_verified_at the request's lookup loaded
    status        \* the HTTP status each request answered with

vars == <<now, secret, connected, verifiedAt, stampGen, rpc, sig, loaded,
          loadedAt, status>>

-----------------------------------------------------------------------------
Gen == 0..MaxGen
Time == 0..MaxTime
RPC == {"idle", "validating", "stamping", "parsing", "storing", "done"}

\* validate_webhook(request, integration.webhook_secret) returned True.
Valid(r) == sig[r] = loaded[r]

\* get_integration_overview: the entry of this source in event_sources.
Overview ==
    [connected |-> connected,
     webhook_verified_at |-> IF connected THEN verifiedAt ELSE None]

-----------------------------------------------------------------------------
Init ==
    /\ now = 0
    /\ secret = 0
    /\ connected = TRUE
    /\ verifiedAt = None
    /\ stampGen = None
    /\ rpc = [r \in Request |-> "idle"]
    /\ sig = [r \in Request |-> None]
    /\ loaded = [r \in Request |-> None]
    /\ loadedAt = [r \in Request |-> None]
    /\ status = [r \in Request |-> None]

\* A webhook arrives for the connected source, signed by the provider with
\* a secret it was given (possibly one rotated out since) or forged; the
\* view looks up the Integration by workspace and provider.
Receive(r, s) ==
    /\ rpc[r] = "idle"
    /\ connected
    /\ sig' = [sig EXCEPT ![r] = s]
    /\ loaded' = [loaded EXCEPT ![r] = secret]
    /\ loadedAt' = [loadedAt EXCEPT ![r] = verifiedAt]
    /\ rpc' = [rpc EXCEPT ![r] = "validating"]
    /\ UNCHANGED <<now, secret, connected, verifiedAt, stampGen, status>>

\* A faulty variant: the stamp is taken as soon as validation has run,
\* before its result is looked at.
ValidateEager(r) ==
    /\ rpc[r] = "validating"
    /\ IF verifiedAt = None
         THEN /\ verifiedAt' = now
              /\ stampGen' = loaded[r]
         ELSE UNCHANGED <<verifiedAt, stampGen>>
    /\ IF Valid(r)
         THEN /\ rpc' = [rpc EXCEPT ![r] = "parsing"]
              /\ UNCHANGED status
         ELSE /\ status' = [status EXCEPT ![r] = 400]
              /\ rpc' = [rpc EXCEPT ![r] = "done"]
    /\ UNCHANGED <<now, secret, connected, sig, loaded, loadedAt>>

\* if not provider.validate_webhook(request): return 400, with no write.
Validate(r) ==
    /\ rpc[r] = "validating"
    /\ IF Valid(r)
         THEN /\ rpc' = [rpc EXCEPT ![r] = "stamping"]
              /\ UNCHANGED status
         ELSE /\ status' = [status EXCEPT ![r] = 400]
              /\ rpc' = [rpc EXCEPT ![r] = "done"]
    /\ UNCHANGED <<now, secret, connected, verifiedAt, stampGen, sig, loaded, loadedAt>>

\* A faulty variant: an optimistic check-and-set that finds the stamp
\* already set treats it as a conflict and retries the request's
\* validation and stamp.
StampRetried(r) ==
    /\ rpc[r] = "stamping"
    /\ IF verifiedAt = None
         THEN /\ verifiedAt' = now
              /\ stampGen' = loaded[r]
              /\ rpc' = [rpc EXCEPT ![r] = "parsing"]
         ELSE /\ rpc' = [rpc EXCEPT ![r] = "validating"]
              /\ UNCHANGED <<verifiedAt, stampGen>>
    /\ UNCHANGED <<now, secret, connected, sig, loaded, loadedAt, status>>

\* A faulty variant: the check is made on the stamp loaded with the
\* Integration, and the write is an unconditional save.
StampStale(r) ==
    /\ rpc[r] = "stamping"
    /\ IF loadedAt[r] = None
         THEN /\ verifiedAt' = now
              /\ stampGen' = loaded[r]
         ELSE UNCHANGED <<verifiedAt, stampGen>>
    /\ rpc' = [rpc EXCEPT ![r] = "parsing"]
    /\ UNCHANGED <<now, secret, connected, sig, loaded, loadedAt, status>>

\* stampIfUnset: UPDATE ... SET webhook_verified_at = now WHERE
\* webhook_verified_at IS NULL, one atomic check-and-set on the row.
Stamp(r) ==
    /\ rpc[r] = "stamping"
    /\ IF verifiedAt = None
         THEN /\ verifiedAt' = now
              /\ stampGen' = loaded[r]
         ELSE UNCHANGED <<verifiedAt, stampGen>>
    /\ rpc' = [rpc EXCEPT ![r] = "parsing"]
    /\ UNCHANGED <<now, secret, connected, sig, loaded, loadedAt, status>>

\* event = provider.parse_webhook(request); None is a test ping, answered
\* with 200 without enrichment or storage.
Parse(r, ping) ==
    /\ rpc[r] = "parsing"
    /\ IF ping
         THEN /\ status' = [status EXCEPT ![r] = 200]
              /\ rpc' = [rpc EXCEPT ![r] = "done"]
         ELSE /\ rpc' = [rpc EXCEPT ![r] = "storing"]
              /\ UNCHANGED status
    /\ UNCHANGED <<now, secret, connected, verifiedAt, stampGen, sig, loaded, loadedAt>>

\* A faulty variant: a failed store is answered as a bad request.
StoreRejects(r, ok) ==
    /\ rpc[r] = "storing"
    /\ status' = [status EXCEPT ![r] = IF ok THEN 200 ELSE 400]
    /\ rpc' = [rpc EXCEPT ![r] = "done"]
    /\ UNCHANGED <<now, secret, connected, verifiedAt, stampGen, sig, loaded, loadedAt>>

\* A faulty variant: a failed store is let through as a server error.
StorePropagates(r, ok) ==
    /\ rpc[r] = "storing"
    /\ status' = [status EXCEPT ![r] = IF ok THEN 200 ELSE 500]
    /\ rpc' = [rpc EXCEPT ![r] = "done"]
    /\ UNCHANGED <<now, secret, connected, verifiedAt, stampGen, sig, loaded, loadedAt>>

\* Enrichment and _store_enriched_record; its boolean result, success or
\* not, is not looked at by the response, which is 200.
Store(r, ok) ==
    /\ rpc[r] = "storing"
    /\ status' = [status EXCEPT ![r] = 200]
    /\ rpc' = [rpc EXCEPT ![r] = "done"]
    /\ UNCHANGED <<now, secret, connected, verifiedAt, stampGen, sig, loaded, loadedAt>>

\* A faulty variant: the reconnect saves the new secret but leaves
\* webhook_verified_at out of the fields it writes.
ReconnectKeepsStamp ==
    /\ secret < MaxGen
    /\ secret' = secret + 1
    /\ connected' = TRUE
    /\ UNCHANGED <<now, verifiedAt, stampGen, rpc, sig, loaded, loadedAt,
                   status>>

\* The Stripe and Chargify views set a new webhook_secret and
\* webhook_verified_at = None in one save; Shopify's update_or_create puts
\* webhook_verified_at: None in its defaults.
Reconnect ==
    /\ secret < MaxGen
    /\ secret' = secret + 1
    /\ connected' = TRUE
    /\ verifiedAt' = None
    /\ stampGen' = None
    /\ UNCHANGED <<now, rpc, sig, loaded, loadedAt, status>>

\* The event source is disconnected.
Disconnect ==
    /\ connected
    /\ connected' = FALSE
    /\ UNCHANGED <<now, secret, verifiedAt, stampGen, rpc, sig, loaded, loadedAt,
                   status>>

Tick ==
    /\ now < MaxTime
    /\ now' = now + 1
    /\ UNCHANGED <<secret, connected, verifiedAt, stampGen, rpc, sig, loaded, loadedAt,
                   status>>

\* Every webhook has been answered and the clock is at its bound.
Finished ==
    /\ \A r \in Request : rpc[r] \in {"idle", "done"}
    /\ now = MaxTime
    /\ UNCHANGED vars

\* The steps of one request after it has been received.
Step(r) ==
    \/ Validate(r)
    \/ Stamp(r)
    \/ \E ping \in BOOLEAN : Parse(r, ping)
    \/ \E ok \in BOOLEAN : Store(r, ok)

Next ==
    \/ \E r \in Request, s \in (0..secret) \cup {Forged} : Receive(r, s)
    \/ \E r \in Request : Step(r)
    \/ Reconnect
    \/ Disconnect
    \/ Tick
    \/ Finished

\* Each request runs on a worker of its own until it has answered.
Fairness == \A r \in Request : WF_vars(Step(r))

Spec == Init /\ [][Next]_vars /\ Fairness

-----------------------------------------------------------------------------
TypeOK ==
    /\ now \in Time
    /\ secret \in Gen
    /\ connected \in BOOLEAN
    /\ verifiedAt \in Time \cup {None}
    /\ stampGen \in Gen \cup {None}
    /\ rpc \in [Request -> RPC]
    /\ sig \in [Request -> Gen \cup {Forged, None}]
    /\ loaded \in [Request -> Gen \cup {None}]
    /\ loadedAt \in [Request -> Time \cup {None}]
    /\ status \in [Request -> {200, 400, None}]

(***************************************************************************)
(* No side effect on failure: when webhook_verified_at is set, some        *)
(* request has passed validation with a valid signature under the secret  *)
(* generation the stamping request had loaded; a run of webhooks that were *)
(* all rejected with 400 never sets the stamp, even while it is unset.     *)
(***************************************************************************)
StampWitnessed ==
    verifiedAt # None =>
        \E r \in Request : /\ rpc[r] \notin {"idle", "validating"}
                          /\ Valid(r)
                          /\ loaded[r] = stampGen

(***************************************************************************)
(* The response tells the provider exactly whether the signature          *)
(* validated: 400 for an invalid one, 200 for a valid one whether it was  *)
(* a ping, or was stored, or its storage failed.                           *)
(***************************************************************************)
ResponseReflectsValidation ==
    \A r \in Request :
        rpc[r] = "done" => (status[r] = IF Valid(r) THEN 200 ELSE 400)

(***************************************************************************)
(* Every webhook received is answered: no step of the view waits on the    *)
(* stamp or on another request.                                           *)
(***************************************************************************)
EveryWebhookAnswered ==
    \A r \in Request : (rpc[r] # "idle") ~> (rpc[r] = "done")

(***************************************************************************)
(* The integration row implements the stamp's abstract specification       *)
(* (VerificationStamp): under every interleaving of webhooks, reconnects   *)
(* and disconnects, webhook_verified_at is only written while unset and    *)
(* only cleared by a reconnect that rotates the secret in the same save.   *)
(***************************************************************************)
Abstract == INSTANCE VerificationStamp

StampRefinement == Abstract!Spec

-----------------------------------------------------------------------------
(***************************************************************************)
(* The verification stamp marks "the first successful webhook validation   *)
(* for an integration's current secret" (spec glossary): whenever the      *)
(* overview shows a stamp, it was written by a request that validated      *)
(* against the secret the integration has now.  The check-and-set of       *)
(* section 4.4 looks only at the stamp, so a request validated under the   *)
(* old secret stamps after a reconnect has nulled it.                      *)
(***************************************************************************)
VerifiedMeansCurrentSecret ==
    Overview.webhook_verified_at # None => stampGen = secret

=============================================================================
