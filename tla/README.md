# Formal models of the webhook verification and storage pipeline

TLA+ models of the parts of Notipus that ingest provider webhooks. They cover
verifying a webhook, stamping the integration as verified, storing the
enriched record in a TTL cache with a per-day activity index, and creating a
workspace's default settings. The repository holds `src/app/core/signals.py`
and the two test modules `src/tests/test_enriched_storage.py` and
`src/tests/test_webhook_verification.py`. The tests pin down the behaviour of
the store, the event processor and the webhook view: key formats, the
precondition, exception handling, TTL, stamping, reset and the overview. The
models follow those lines and `spec.md`. A definition taken from the spec
alone is marked `spec_modelled` in `PROJECT.json`.

## The system and how its parts interact

| Part | What it does | Module |
|---|---|---|
| Keyed Store (`DatabaseLookupService`) | `store_enriched_record` checks its precondition, writes `webhook:{ws}:{category}:{token}` with a TTL, then reads, appends to and rewrites `webhook_activity:{ws}:{date}`; any exception becomes `False`. `get_recent_webhook_activity(ws, days)` reads the last `days` daily lists and resolves their keys, skipping expired records. | `KeyedStore` |
| Event processor threading | `_store_enriched_record` passes `workspace.uuid`, or `"global"` when there is no workspace. | `KeyedStore` (`StoreWorkspaceId`) |
| Webhook view and Verification Stamper | Looks up the integration, validates the signature (400 when invalid), stamps `webhook_verified_at` if it is unset, parses (a ping gets 200 at once), enriches and stores (200 even when storage fails). | `WebhookVerification` |
| Integration management | A reconnect sets a new secret and nulls `webhook_verified_at` in one save; a source can be disconnected. | `WebhookVerification` |
| Integration overview | `connected`, and `webhook_verified_at`, which is null when disconnected. | `WebhookVerification` (`Overview`) |
| Workspace signal | The `post_save` receiver creates `NotificationSettings` when `created` is true. | `WorkspaceSettings` |
| Enrichment flattening | `store_enriched_record` builds the stored JSON from the event's core fields, the notification's headline fields and each optional section that is present. | `Enrichment` |

Concurrent webhooks share only two pieces of state: the cache (records and
activity lists) and the integration row (secret, stamp). The models make each
round trip to either one a separate step, so TLC explores every interleaving
of the requests, and of the reconnects, disconnects and clock ticks between
them.

## Modules

- `KeyedStore.tla` models `store_enriched_record` and the query.
  - **State:** the clock `now`; the cache as two functions, `records` over
    record keys and `activity` over (workspace, day) keys; and, per call, `pc`,
    the computed `key`, the list it read (`listRead`) and its `result`.
  - **Expiry:** a cache entry carries its expiry time and `Live(e)` is
    `now < e.exp`. This is how a self-purging store looks to a reader.
  - **Actions:** `Start`, `SetRecord`, `GetActivity`, `SetActivity`,
    `StoreFails` and `Tick`. `Start` covers the precondition, the flattening
    and the timestamp token. `StoreFails` is the exception path out of any of
    the three cache calls. `Recent(ws, days)` is the query; its window of
    `days` calendar days (`RecentDays`) is taken from spec §4.3, since the
    tests only pass `days` to a mocked cache.
  - **Data:** a record is abstracted to its `workspace_id` and the event that
    produced it. Enrichment fields are not modelled.
- `WebhookVerification.tla` models one integration and concurrent requests.
  - **Secrets and signatures:** a secret is its generation number. A request
    is signed with a generation issued so far, possibly an old one, or is
    `Forged`.
  - **Request steps:** `Receive` (lookup, which loads the secret and stamp),
    `Validate`, `Stamp`, `Parse` and `Store`.
  - **Stamp:** `Stamp` is the atomic check-and-set of spec §4.4.
  - **Other actions:** `Reconnect`, `Disconnect` and `Tick`. `Store` (answer
    200 whatever the store returns) and `Disconnect` (a disconnected source
    reports a null stamp) are taken from spec §4.2, §4.4 and §6: the tests
    show the results, not the code that produces them.
  - **History variable:** `stampGen` records which secret the stamping
    request had validated against.
- `WorkspaceSettings.tla` models `save()` and the receiver. The workspace row
  is written first (`CreateWorkspace`). Then the receiver runs in the same call
  (`CreateSettings` with `created`) or its insert raises (`SettingsFail`).
  Later saves send `created=False`.
- `VerificationStamp.tla` is the abstract specification of the stamp on the
  integration row (`secret`, `connected`, `webhook_verified_at`). It allows
  three steps: `SetStamp` sets an unset stamp, `Rotate` (a reconnect) sets a
  new secret and clears the stamp, and `Disconnect`. `WebhookVerification`
  instantiates it as `Abstract` and states `StampRefinement == Abstract!Spec`.
  The refinement mapping is the identity on the three shared variables: the
  requests' own state is hidden. `Stamp` is modelled as one atomic
  check-and-set, as spec 4.4 requires of the stamp ("set once, atomically");
  the tests run one request at a time and do not show it. `StampStale`, the
  non-atomic variant that checks the row it loaded earlier and then writes,
  breaks `StampRefinement`.
- `Enrichment.tla` models the flattening in `store_enriched_record` block by
  block, in the order the code writes the keys: `Core` (event fields,
  `workspace_id`, timestamp), `Head` (only when a notification is given;
  `severity` stored as its lowercase string), then one `Section(s)` each for
  company, customer, insight and payment, which writes the section's keys only
  when the section is present.
  - **Data:** a value is abstracted to the field it was read from (`FieldOf`:
    `company_name` from `company.name`, `customer_ltv` from
    `customer.ltv_display`, and so on).
  - **Reference:** `Expected` is the stored JSON of spec §4.3 written as one
    function of the input.
  - **Input:** `customerCo` says whether `customer.company_name` is set. No key
    may be read from it, though its name clashes with `company_name`.
- `MC_*.tla` instantiate each module with model values.
  `KeyedStore_proofs.tla`, `WebhookVerification_proofs.tla` and
  `WorkspaceSettings_proofs.tla` hold the TLAPS proofs.

Every module also defines the faulty variants used as mutants, for example
`StoreFailsSwallowed`, `StampStale` and `CreateSettingsAlways`. Each is placed
just before the definition it replaces and has a comment naming the bug it
stands for.

## Runs

| Run | Checks | Shows |
|---|---|---|
| `store` (pass) | `TypeOK`, `IndexSound`, `QueryIsolation`, `StoreTerminates` | Under two concurrent calls, failures and expiry: index entries point at written records of their own workspace and day; a query never returns another workspace's record; every call returns. |
| `store_lost_index_entry` (violation) | `StoredRecordIndexed` | The read-modify-write of the activity list loses a key of a call that returned True. |
| `store_key_collision` (violation) | `RecordNeverReplaced` | Two events in one timestamp tick share a key; the second overwrites the first's live record. |
| `verification` (pass) | `TypeOK`, `StampWitnessed`, `ResponseReflectsValidation`, `StampRefinement`, `EveryWebhookAnswered` | Stamps are made only after a validation; 400 exactly for invalid signatures, 200 otherwise (pings and failed stores included); every webhook is answered; the integration row evolves as `VerificationStamp` allows. |
| `verification_stale_secret` (violation) | `VerifiedMeansCurrentSecret` | A request validated under the old secret stamps after a reconnect, so the new secret shows as verified. |
| `settings` (pass) | `TypeOK`, `SettingsIffCreated` | A workspace has one settings row exactly when its creating save returned normally, however often it is saved again. |
| `enrichment` (pass) | `TypeOK`, `FlattenMatchesReference` | For each of the 136 inputs (with or without a notification, any set of sections, any severity, with or without `customer.company_name`), the flattening yields the reference JSON. |
| `settings_not_atomic` (violation) | `WorkspaceHasSettings` | A failing settings insert leaves a saved workspace without settings for good (spec §9 asks for atomic creation). |

Each property of a passing run has a mutant in `PROJECT.json`: a faulty
variant of the code that TLC catches. Examples are a swallowed record-write
failure, an activity key without the workspace, a retried cache call, an
eager stamp before validation, a stamp checked on the loaded row, a stamp
retried on conflict, a reconnect that keeps the stamp, a failed store answered with 400 or 500, a receiver that
ignores `created`, a settings row committed before the raise, severity
stored as the enum's name, and `company_name` taken from the customer when
the company section is absent.

## Bounds

- **Store:** two workspaces (one of them `global`), one category, two calls,
  two ticks per day, a TTL of one day, a one-day query window and four ticks.
  - Two calls are enough to interleave on one list and to collide on one key.
  - With two ticks per day, a record can be written late on day 0 and queried
    on day 1 while still live.
  - Four ticks take records through expiry.
- **Verification:** three requests, one reconnect (secrets 0 and 1) and clock
  values 0..2.
  - This is enough for two valid requests to race on the stamp (with a tick
    between them), a third to be stale or forged, and a reconnect to fall
    between a request's validation and its stamp.
- **Enrichment:** no bound is needed. The run enumerates every combination of
  the four sections, the four severities, the optional notification and the
  customer's company name.
- **Settings:** four workspaces, each created once and re-saved any number of
  times.

The `Finished` disjunct lets a behaviour stutter once every call has returned
and the clock is at its bound. The models are bounded; the system itself does
not stop.

## Fairness

Each request is handled by a worker that runs it to completion. Each step is
one store round trip, and there is no retry loop (spec §5). So each request
gets weak fairness on its steps (`WF_vars(Step(r))`) and on nothing else:
- no fairness on new webhooks arriving;
- none on reconnects;
- none on the clock.

`WorkspaceSettings` has no liveness property and no fairness.

## Proofs (TLAPS)

In `KeyedStore_proofs.tla`:

- `TypeCorrect`: `Spec => []TypeOK`.
  - The proof goes through `TypeInv`, which is `TypeOK` plus `KeyDefined`:
    a call past `Start` has a key.
  - `TypeInvStep` has one step per action.
- `QueryIsolated`: `Spec => []QueryIsolation`. The lemma
  `IsolationFromScoping` shows that `QueryIsolation` holds in any state
  satisfying `TypeOK`, `IndexSound` and `RecordScoped`:
  - a key listed in the activity index of `(d, ws)` has `k.ws = ws`, by
    `IndexSound`;
  - a record is stored under a key of its own workspace (`RecordScoped`),
    because `SetRecord` builds `workspace_id` and the key from the same id.
  `RecordScoped` was checked with TLC and then proved inductive
  (`RecordScopedStep`).
- `IndexSoundness`: `Spec => []IndexSound`, for every value of the constants.
  `IndexSound` is not inductive on its own: `SetActivity` appends the key a
  call read earlier, onto a list it read earlier. The inductive invariant
  `IInv` adds three conjuncts (it was checked with TLC before being proved):
  - `RecordWritten`: a call past `SetRecord` has its record in the cache.
  - `ReadSound`: the list a call read satisfies `IndexSound` for that call's
    index.
  - `RecordsStayWritten` (a lemma): once written, a record entry is never
    removed, because expiry keeps the entry and only stops reads from seeing
    it.
- Assumptions:
  - `ConstantsAssumption`: `Global` is a workspace; the tick rate, TTL and
    window are positive; `MaxTime` is a natural number.
  - `NoneAssumption`: `None` is not an entry, a key or a workspace.

Proved in `WebhookVerification_proofs.tla`, for any set of requests, any
`MaxGen` and any `MaxTime`:
- `TypeCorrect`: `Spec => []TypeOK`.
- `StampHasWitness`: `Spec => []StampWitnessed`.
- `ResponseCorrect`: `Spec => []ResponseReflectsValidation`.
- `Refinement`: `Spec => StampRefinement`. `RefinementInit` maps the initial
  state to `Abstract!Init`. `RefinementStep` shows that, under `TypeOK`, each
  step of `Next` is a step of the abstract `Next` or leaves the row unchanged:
  - `Stamp` on an unset stamp is `SetStamp` with `t = now`;
  - `Stamp` on a set stamp, and every other request step, leaves the row alone;
  - `Reconnect` is `Rotate`;
  - `Disconnect` is `Disconnect`.
  The theorem combines them with `TypeCorrect` by PTL.

The two invariants rest on the inductive invariant `IInv`. It adds three
conjuncts to `TypeOK` and the two properties:
- `Loaded`: a received request has loaded a secret generation.
- `InFlightValid`: a request in `stamping`, `parsing` or `storing` was
  validated. This is what makes the response of `Parse` and `Store` 200 and
  gives `Stamp` its witness.
- `StampRecorded`: `webhook_verified_at` and the history variable `stampGen`
  are null together.

A request never goes back to `idle` or `validating`, and its signature and
loaded secret never change after `Receive`. So the witness of a stamp stays
one.

In `WorkspaceSettings_proofs.tla`, for any set of workspaces:
- `TypeCorrect`: `Spec => []TypeOK`.
- `SettingsCorrect`: `Spec => []TypeOK /\ []SettingsIffCreated`.
  - Neither invariant is inductive alone. The receiver's insert keeps the row
    count in `0..1` only because a workspace in `signal` has no row yet, which
    is `SettingsIffCreated`; and that invariant needs the count to be a number.
  - Their conjunction `IInv` is inductive. `IInvStep` has one case per action,
    and the creating `CreateSettings` is split on `created`.

In `Enrichment_proofs.tla`, for every input:
- `TypeCorrect`: `Spec => []TypeOK`.
- `FlattenCorrect`: `Spec => []FlattenMatchesReference`.
  - `FlattenMatchesReference` speaks only of the final state, so it is not
    inductive.
  - The inductive invariant adds `OutSoFar`: after the blocks before `step`,
    a key of a block that has run holds its reference value, and a key of a
    block still to come is absent (`BlockOf` gives a key's block). It also
    adds `NoOrphanSections`: without a notification there are no sections.
  - The lemmas:
    - `SectionOfKey`: the sections' key sets are disjoint, so the
      reference's `CHOOSE` picks the key's own section.
    - `SectionBlock` and `BlockRange`: every key belongs to exactly one block.
    - `KeptKey` and `BlockKeepsIInv`: they combine the per-key facts of a
      step.

Only model-checked, not proved:
- the liveness properties (`StoreTerminates`, `EveryWebhookAnswered`), since
  TLAPS does not handle liveness under fairness or ENABLED;
- nothing else: every invariant, action property and refinement of a
  passing run is also proved for every value of the constants. The violation
  runs' properties are counterexamples, not theorems.

## Not modelled

- **Enrichment inside the store model.** `KeyedStore` abstracts a record to
  its workspace and event. The flattening is checked on its own in
  `Enrichment`, since it reads nothing the concurrent steps write. Value
  formats (numbers, lists, JSON encoding) are abstracted to the field a value
  is read from.
- **Provider signature algorithms.** These are cryptographic; a verifier is
  abstracted to "signed with the loaded secret".
- **Framework routing, ORM internals and UI.** These are external
  collaborators in the spec.
- **Lookup of an unknown integration.** Receiving requires a connected source.
- **The real cache's eviction under memory pressure.** It is not modelled
  beyond the TTL.
