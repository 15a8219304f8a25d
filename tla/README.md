# Verification of the Wait for Wolt integration

TLA+ models of the Home Assistant integration in `custom_components/wait_for_wolt`:
its API client, its config entry, its polling coordinator, the entities it creates,
the status and the countdown it gives an order, and the script that repairs a file of
HACS. TLC checks each on a small instance; TLAPS proves their safety properties, and most
of their liveness up to the enabledness of steps, for every value of the constants.

## 1. The system

| Part | Source | State | Operations |
|---|---|---|---|
| API client | `api.py` | access and refresh token, `_refresh_lock`, venue memory | `_request` with one refresh and one retry after 401; listing, details, venue page |
| Polling coordinator | `coordinator.py` | published data, `_rich_retry`, update interval | one poll: listing, details per active order, pickup location |
| Entry lifecycle | `__init__.py` | runtime, snapshot in `hass.data`, update listener | setup, first refresh, unload, reload on edit, storing rotated tokens |
| Configuration flows | `config_flow.py` | what a form submitted, a temporary client | user step, YAML import, options, reauthentication |
| Location consent | `privacy.py` | `tracking_maps` option, `LEGACY_LOCATIONS` snapshot | snapshot once, permission per entity, rule for lookups |
| Tracking entities | `tracking.py` | `known`, entity registry | discovery, migration of unique ids, attributes |
| Order and venue sensors | `sensor.py` | `known_order_ids`, venue state | discovery, status and ETA extraction, venue update |
| Order facts, venue pages | `facts.py`, `venue.py` | none | pure parsing |
| Diagnostics, constants | `diagnostics.py`, `const.py` | none | redacted dump |
| HACS repair | `scripts/repair_hacs_205.py` | a file and its backup | repair, restore |
| Release tooling | the other scripts | none | build, version check, canary |

How they interact. The entry's setup builds a client and a coordinator from the
entry's values. A poll calls the client; a 401 makes the client exchange its
single-use refresh token and hand the replacement to a callback that writes it into
the entry, which notifies the update listener, which must tell this from an edit.
The forms build temporary clients of their own, validate, and write the entry; an
edit makes the listener reload the entry. A published poll calls the two discovery
callbacks, which read the coordinator's data, the consent and the entity registry,
rename registry items and create entities; the entities read the published data.

What is hard, and what makes each part correct:

* Client: concurrent calls that meet 401 share one exchange; a cancelled, refused or
  failed exchange releases the lock; a replacement is stored before it is used.
* Entry and flows: several clients hold the same single-use token; forms read the
  entry, await, and write it; edits arrive during setup. The loaded runtime must be
  the stored entry, rotation must not reload, and an edit must not undo a rotation.
* Coordinator: a poll makes many requests, each of which fails in its own way, while
  orders appear and end. The listing must survive failures of the optional requests,
  backoff must neither silence an order nor outlive it, the interval must match.
* Discovery and consent: identities of earlier versions, restarts, disabled entities
  and other entries. Every identity keeps exactly one entity and its consent.
* Countdown: what an entity shows is computed when its state is written and stands
  while the clock goes on and polls are slow or fail. An automation that opens a door
  must not act on an estimate that has long passed.
* HACS repair: a file of another program is replaced, with invocations that overlap,
  fail, are killed or lose power between any two steps. The file must be whole and
  known at any time, and the original must be there to be restored.
* Status: three functions read the same contradicting sources with different word
  lists; the summary and the details describe different moments.

Every hazard, with its line and the properties aimed at it, is in `PROJECT.json`.

## 2. Modules

| Module | Stands for | Run by | Proofs |
|---|---|---|---|
| `WoltApi` | `_request` and `_refresh_access_token` with any number of calls | `WoltApiMC` | `WoltApi_proofs` |
| `Credential` | abstract: what the holder of a single-use token promises | refined by `WoltApi` and `ConfigEntry` | `WoltApi_proofs`, `ConfigEntry_proofs` |
| `ConfigEntry` | `__init__.py`, `config_flow.py`, setup and reload by Home Assistant | `ConfigEntryMC` | `ConfigEntry_proofs` |
| `Coordinator` | `_async_update_data`, request by request | `CoordinatorMC` | `Coordinator_proofs` |
| `OrderFeed` | abstract: what the entities may expect of the coordinator's data | refined by `Coordinator` | `Coordinator_proofs` |
| `TrackingDiscovery` | discovery of `tracking.py` and `sensor.py`, `privacy.py` | `TrackingDiscoveryMC` | `TrackingDiscovery_proofs` |
| `OrderStatus` | `is_active_order`, `_raw_status`, `normalize_order_status`, `_order_data` | `OrderStatusMC` | `OrderStatus_proofs` |
| `DeliverySensor` | minutes, arrival flag and estimates of `tracking.py` and `sensor.py` against the clock | `DeliverySensorMC` | `DeliverySensor_proofs` |
| `HacsRepair` | `repair_hacs_205.py`, one file-system access a step | `HacsRepairMC` | `HacsRepair_proofs` |
| `AtomicRepair` | abstract: what the script promises about the installed file | refined by `HacsRepair` | `HacsRepair_proofs` |

Definitions whose comment says "mutant" are wrong variants of the definition that
follows; no specification uses them. Each shows, put in place of the right one, that
a property can fail.

### WoltApi

A call is a coroutine of `_request`, from `idle` through `first` (the GET with the
current token), `waiting` (for the lock), `refreshing` (the POST) and `retry` to
`done`. A step is the code between two awaits that can suspend. Neither token
callback in the source suspends and releasing an `asyncio.Lock` does not either, so
storing the tokens, calling back, releasing the lock and building the retry's headers
are one step. Tokens are numbers: an access token is its issue number, a refresh token
its generation. The server is external. It accepts one generation, may or may not
replace the refresh token, may let access tokens expire, and may consume a POST whose
sender has timed out or was cancelled.

`Credential` is the promise: the generation held follows the generation that is live
one by one, and only a lost answer separates them. The refinement maps `held` to the
stored token and `live` to the server's, or to the stored one while an answer
the server granted is on its way. It begins with any two generations, since a user may
have pasted a token that was used up elsewhere.

### ConfigEntry

A refresh token is a login and a generation in it. The analytics session id, which the
client keeps like its tokens (`sessionId`), and the options, which the entities read
(venues, maps), are a number each. `data` is the stored entry, `snapshot` what the listener
compares with, and `runtime` what is at work: the client, built from token and session id
before the first refresh, and the options, which the platforms read when they are set up
after it (`SetUpPlatforms`); until then there are none. The consent to maps is also read later,
for orders that appear: the subject of `TrackingDiscovery`. One client is one user
of a token here; concurrency within one is `WoltApi`'s subject. A submission of a form
goes through `validating`, `refreshing` and `retrying`, after which the options form
or the reauthentication writes the entry.

What the forms accept is any token. `UserActs` splits it up: a working token of a login that
neither the entry, the runtime nor the other form has (`new_login`), the options form's
blank field (`access_token_only`), any token of a login in use, typed in again or copied
(`known_login` in the options form, `repeat_credentials` in reauthentication), the other form's
login among these (`both_forms`), and options saved during the first refresh
(`save_while_starting`).

Relied on from Home Assistant: one lock per entry serialises setup and unload;
`async_update_entry` notifies listeners only if something changed, and a listener runs
to its first await at once, so its comparison is part of the write; unloading cancels
the poll in progress; a poll that raises `ConfigEntryAuthFailed` is not rescheduled.

The entry refines `Credential` too, with the stored generation and the one the server
accepts of the stored login (or the stored one while the replacement is on its way to
`persist_tokens`): no setup, reload, restart or edit of the options breaks what the client
alone promises. A form that submits tokens begins another login and is outside of it.

### Coordinator

A poll is a record with its place (`listing`, `orders`, `details`, `pickup`,
`venue`), the order it is dealing with, those left and the data it has gathered. Each
request is a suspension during which time passes, orders and consent change, and the
integration may be reloaded. Time is in ticks of 30 seconds. A failing listing keeps
the published data, an authentication failure stops polling, a failing details
request sets the order's backoff, a failing venue request is suppressed if it
raises one of the suppressed errors. Whether a listed order is active is an input here
and the subject of `OrderStatus`; so is the consent, of `TrackingDiscovery`.

`OrderFeed` is the promise to the entities: each publication is one whole listing, taken
at one moment, with details asked for since and for its active orders only. The
refinement maps the listing being worked on to the poll's result while a poll is past
its listing, and the feed to the published data.

### TrackingDiscovery

A unique id is an order, a kind and a form: `legacy` as earlier versions registered
it, `scoped` as this one does. The six sensors of an order that are no tracking
entities come together and are one kind, `status`. `Init` has every registry that an
earlier version, a partial upgrade or another entry may have left. `Discover` is the
tracking callback followed by the sensor callback, which sees the registry the first
has renamed. Home Assistant registers the new entities one at a time afterwards,
refuses ids in use and leaves disabled ones out.

A failed poll also calls the callbacks, with the data as it was: `Poll` with an
unchanged listing is that case. `original` is a history variable for `InheritedExactly`.

### OrderStatus

A text is one phrase, a word class that is plain or negated; a word class has
the same fragments of the code's lists. A poll lists the order, decides whether it is
active, and then reads details that may be newer and may contradict the summary in
every key. `Status` and `TrackingType` are what the entities show.

### DeliverySensor

One order, its published estimates and the two entities as they were last written. Time
is in half minutes, so that the rounding of minutes shows. A poll publishes and writes
both entities, or fails and makes both unavailable; Home Assistant may write the delivery
entity alone at any time. `Delivery` and `Eta` are the properties `_attributes` and
`native_value`; which driver an estimate comes from, and how it is parsed, are inputs. The
code computes the state and the attributes with a clock reading each; they are one here.

### HacsRepair

A file is known by its digest. An invocation reads the target, decides, looks for
a backup, creates it exclusively, writes it, copies beside the target and renames;
another invocation, a kill or an error may come between any two of these. A loss of power
ends all of them and may take a backup that was never flushed, which the script does not
do, in whole or in part; the renamed copy counts as durable. `AtomicRepair` maps the
backup to whether it holds the original. It replaces the original and the repaired file
only, and a newer one only if HACS may install under a running script (`HacsMeanwhile`).

## 3. Runs

| Run | Specification, bounds | Checks |
|---|---|---|
| `calls` | three concurrent calls | `NoNeedlessRefresh`, `RetryCarriesNewToken`, `RefusedMeansDead`, refinement of `Credential`, `CallsEnd` |
| `entry` | two logins, three generations, two session ids, two options, two waiting reloads, new logins | `LoadedRuntimeIsCurrent`, `PollingStopsOnlyForReauth`, `RotationNeverReloads`, `EditKeepsToken`, `StaleRuntimeGoes` |
| `polls` | two orders, one venue page, backoff of two ticks doubled once, cap three | `RetryOnlyForActive`, `MissingDetailsFailed`, `PromptPoll`, `CacheBounded`, `TrackingFailureHarmless`, refinement of `OrderFeed`, `DetailsAskedAgain` |
| `discovery` | one order, delivery and pickup, every initial registry | `OwnedIsServed`, `NoDuplicates`, `NothingStolen`, `OptOutRespected`, `InheritedExactly`, `LookupHasAudience`, `ActiveHasEntities` |
| `status` | every word class, five types, all combinations | `OngoingNotEnded`, `InactiveProgressIsByType`, `EntitiesAgree` |
| `blank_refresh`, `failed_form`, `saved_while_starting`, `repeated_credentials`, `old_rotation` | `entry` with the act concerned | a finding each, section 4 |
| `arrival` | ticks of half a minute, estimates of 2, 7 and 722 ticks, polls of up to 2, clock to 14 | `ArrivalIsGenuine`, `CountdownConsistent`, `EstimatesAgree` |
| `repair` | two invocations that overlap and repeat, two failures | `OriginalKept`, refinement of `AtomicRepair`, `RetriesSucceed` |

Why the bounds are enough.

* `calls`: three calls are one that refreshes, one that waits and then reuses, and one
  that comes in between or is cancelled. The proofs lift the bound.
* `entry`: two logins distinguish the old one from the new; the third generation
  allows a rotation by the runtime and one by a form. Two waiting reloads are one more
  than an edit can need, two session ids and two options are an edit of either. The passing
  run's forms are given new logins only, each other run adds or takes the act it is about. So the
  passing properties hold *apart from* the findings, and for `EditKeepsToken` and
  `PollingStopsOnlyForReauth` this excludes more than the act a run shows: any token of a login
  in use has the same race as a blank field, or may turn out to be no change.
* `polls`: two orders suffice for one to fail while the other succeeds, and exceed the
  one remembered page. A failure count above `MaxDoublings` acts like `MaxDoublings`.
  The cap (900 s) and the doublings (4) are scaled so that both the doubling and the
  cap take effect; the theorems hold for the code's values.
* `discovery`: neither callback relates two orders. `pickup` stands for `destination`,
  which the callbacks treat alike. The number of restarts, polls and edits is unbounded.
* `status`: texts of several phrases are left out. A text that
  negates a fragment and contains a longer word of it plainly ("not refundable ...
  refunded") escapes the filter of `_raw_status` in the code and is outside the run.
  The types stand for "ongoing", two with an outcome, one that is a word of progress though it
  makes the order inactive (`PENDING` in `tests/test_api.py:120`) and one that says nothing known.
* `arrival`: the estimates are one that is soon to pass, one between the three and four
  minutes and one that enters the six hours as the clock runs. The clock runs to seven
  minutes, past the longest round of polling and past the minute for which a late
  estimate is shown.
* `repair`: a conflict is between two invocations; each may be repeated without bound.
  Two failures allow one while the backup is written and one of the invocation that
  repeats it. `HacsMeanwhile` is FALSE: HACS installs only while no invocation is
  running (section 4).

Deadlock is checked in every run but `calls`, where the calls are made once each and
all of them may have ended.

Fairness. `calls`: a call that has begun goes on and whoever holds the lock comes to its
end (weak fairness), because every request is bounded by `REQUEST_TIMEOUT`; a waiting call
gets the lock if it is free again and again (strong fairness), because an `asyncio.Lock`
wakes its waiters in turn. The server, expiry and cancellation have none. `entry`: Home Assistant starts the setup, its platforms and the reloads it
has queued, and first refreshes end; users, polls and servers owe nothing. `polls`:
timers fire, requests are answered or time out, and idle time passes.
`DetailsAskedAgain` moreover assumes that polls end infinitely often, since reloads may
cut off every one. `repair`: an invocation that has begun ends if it is not killed,
and a backup that is being written gets written (weak fairness of steps), and somebody repairs again and again (strong fairness of
beginning: the script itself retries nothing). `discovery`, `status` and `arrival` are
safety only.

## 4. Findings

Where the code does something else than a document or comment of the repository says.
Each has a run whose counterexample shows it, and its quotation in `PROJECT.json`.

* `blank_refresh` (`config_flow.py:205`): the options form with a blank refresh field
  writes back the token it read before it validated, over one that a poll rotated
  meanwhile.
* `failed_form` (`config_flow.py:56`): a validation that rotates the saved token and
  then fails drops the replacement.
* `saved_while_starting` (`__init__.py:75`): credentials saved by the options form during the
  first refresh are seen by no listener; the loaded client keeps the old ones. The options
  themselves do reach the entities. But they are not in the snapshot (`__init__.py:48`), so that
  setting them back later reloads nothing: with `UserActs = {"save_while_starting"}` and
  `MaxOptions = 1` in the run's configuration TLC shows that instead.
* `repeated_credentials` (`config_flow.py:151`): reauthentication that confirms
  unchanged credentials reloads nothing, and polling has stopped.
* `old_rotation` (`__init__.py:52`): a poll of the runtime about to be unloaded writes
  a token of the old login over the login just saved.

Where the code falls short of its documents and a property names the exception:

* A venue page that is no text in its charset raises `UnicodeDecodeError`
  (`api.py:304`), which nobody catches: the whole poll fails, though "optional tracking
  failure keeps the order summary working" (`docs/MIGRATION.md:37`).
  `TrackingFailureHarmless` excepts the step `VenueUndecodable`.
* The text "declined" is not among those that IN_PROGRESS telemetry overrides
  (`sensor.py:108`), though `CHANGELOG.md:112` says telemetry is authoritative:
  `OngoingNotEnded` excepts it.
* If HACS installs another version between the script's read and its rename, the new file
  is overwritten, though the script "refuses to overwrite any unexpected source"
  (`docs/INSTALLATION.md:49`). `AtomicRepair` allows it if `HacsMeanwhile` is TRUE, and the
  proof of `AtomicSpec` shows that it is all that can then go wrong.
* A backup left half written by a crash makes every later repair refuse
  (`repair_hacs_205.py:60`), and the backup is not flushed before the target is replaced:
  `RetriesSucceed` and `OriginalKept` except the two.

## 5. Proofs

All theorems hold for every value of the constants that satisfies the named
assumptions of the module.

* `WoltApi_proofs`. `IInv` adds to the type invariant that whoever refreshes holds the
  lock and posted the client's current token (`LockInv`), that what the callback was
  given is what is in memory (`StoredInv`), that the server is at most one refresh
  token ahead (`GenerationInv`), that a call before the lock has posted nothing
  (`UnpostedInv`), that access tokens only move forward (`AccessInv`), that a rejected
  one is never valid again (`RejectedInv`) and what an answer on its way may say
  (`ReplyInv`). None of the checked properties is inductive alone: a refresh is needed
  because the token compared under the lock is the rejected one and that stays invalid;
  a refusal is final because a second POST of the same generation can only follow an
  answer that was lost, and not one that is still on its way to the lock's holder. From
  it follow `RefreshIsNeeded`, `RetryIsFresh`, `RefusalIsFinal`, `TypeCorrect` and
  `ImplementsCredential`, the refinement for any number of calls. `LostCredentialStaysLost`
  is the other side of `RefusalIsFinal`: a lost replacement is never got back.
  `LockIsReleased` ties the lock to a POST under way, and `EveryCallEnds` builds on it: the
  holder's POST ends and frees the lock, so a waiting call meets a free lock again and again.
* `ConfigEntry_proofs`. Of the acts of the user (the constant `UserActs`) each theorem about
  the runtime or one of the forms excludes only those with which TLC finds a counterexample; all
  other acts may interleave. `IInv` says which parts exist in which state of the entry
  (`LifecycleInv`), that a form whose token is being replaced is within the bound
  (`RefreshingInv`) and what an answer on its way replaces (`AnswerInv`).
  It needs no assumption, and gives `TypeCorrect` and `RotationIsQuiet`.
  * Without `save_while_starting`, snapshot and data differ only while a reload is to come, and
    so do runtime and data but for options not read yet (`CurrentInv`): `LoadedIsCurrent`, and `RotationStoresTheNext`, by which the runtime
    overwrites no edit, unless it is the one about to be unloaded (`old_rotation`).
  * `LoginInv` is about a form that is only given working tokens of logins which neither the
    entry, the runtime nor the other form uses: the login of its submission stays nobody
    else's (`ApartInv`), so its token works until the submission uses it (`FreshInv`), whatever
    tokens of other logins the other form submits. From it follow `EditKeepsWorkingToken`
    (without `access_token_only`, `known_login` and `both_forms`) and `PollingStopsForReauthOnly`
    (without `repeat_credentials` and `both_forms`), because a new login always is a change the
    listener sees. This is as far as they go: with any of these acts both are false.
  * Without forms that submit tokens the runtime works with the stored token and an answer on
    its way is the only replacement there is (`HeldInv`): `EntryImplementsCredential`, the
    refinement of `Credential` by the whole life of the entry.
  * `StaleRuntimesGo`: a stale runtime is in one of five phases, and from each Home Assistant's
    steps lead to the next or to its end.
* `Coordinator_proofs`. `IInv` says that a waiting order has failed
  (`WaitsAfterFailure`), that a poll's parts fit its place (`PollWellFormed`), and that
  an order the poll has dealt with has details or a failure (`HandledHasDetails`).
  `BackoffOnlyForActive`, `NoSilentSkip` and `PollIsPrompt` are conjuncts of it,
  because each needs the others: publishing turns the poll's result into the data.
  `TrackingFailuresAreHarmless` and `VenueMemoryBounded` follow from it, the latter by
  induction of its own. `SkippingExtendsNoWait` is the part of `DetailsAskedAgain` that is a
  matter of steps: a wait grows by the order's own failures only. `ImplementsOrderFeed` is the refinement: each step of a poll is
  one of the feed's or changes nothing the feed shows. `NobodyIsSilenced` is `DetailsAskedAgain`
  for backoffs of up to 30 ticks, the code's 900 seconds: as long as nobody asks about the order
  its wait can only run down (`SilentStep`, `WaitRunsDown`), so it comes to its end
  (`WaitRunsOut`), and no poll passes over an active order without a wait (`AheadStep`).
* `TrackingDiscovery_proofs`. `IInv` relates three records of the same thing: what the
  callbacks remember having created, what Home Assistant was given, and the registry.
  What was given is remembered (`KnownInv`) and the reverse, up to disabled entities
  (`ServedInv`); every owned tracking id has its entity (`OwnedInv`); active orders are
  remembered (`ActiveInv`); the snapshot is taken before anything is renamed
  (`InheritInv`); and what an entity may show is what is allowed unless a reload is to
  come (`ConsentInv`). Discovery threatens each of them and every theorem rests on
  several: `LookupsHaveAudience` on `ActiveInv`, `ServedInv` and `ConsentInv`. `Init`
  admits every registry, so the theorems hold for any mixture of versions.
  `DisabledStateIsKept` and `LookupsFollowTheUser` say what renaming and registering leave
  alone: the user's choice for each place, under whichever id it is found at the time. They
  rest on `ChoiceInv`: beside a scoped id that is still free no legacy id of ours is left, so
  the registration of the scoped id as enabled overrides no disabled one.
* `OrderStatus_proofs`. The invariant is that the published liveness is that of the
  summary and that only active orders have details (`ActiveInv`). `InactiveIsNotUnderWay`
  holds for any status types: an inactive order that looks under way shows the very type
  that made it inactive (`PENDING`), never its text.
* `DeliverySensor_proofs`. A lemma says what is written at a moment, whatever is published;
  `IInv` adds how far the schedule has gone since (`ScheduleInv`, `SoonInv`) and that
  what is shown comes from the published data (`WrittenInv`). `ArrivalsAreGenuine` needs
  the schedule: a flag stands no longer than a period and a poll. `MinutesIsCeiling` shows
  that the integer arithmetic of `Minutes` is the least number of whole minutes that covers
  what remains, for any resolution of the clock; it makes the function monotone, from which
  `MinutesAreNeverUnderstated` follows, and from that `SameEstimateCountsDown`.
* `HacsRepair_proofs`. `IInv` says that whoever is about to save has read the original
  (`SavingInv`), that one invocation alone writes the backup (`WriterInv`) and that the
  repaired source is copied only once the original is saved (`SavedInv`).
  `ImplementsAtomicRepair` needs no assumption; it adds that an invocation under way means
  a known target, or a newer one that HACS has just installed (`KnownInv`).
  `RetriedRepairsSucceed` assumes that HACS does not install meanwhile, that somebody may run
  the script (`Run # {}`) and that failures cease, as `MaxFaults` makes them: were the original
  to stay installed for good, its backup would come to be written or be found, and an
  invocation begun once more would reach its rename.

Liveness. `EveryCallEnds`, `StaleRuntimesGo`, `RetriedRepairsSucceed` and `NobodyIsSilenced`
are proved from the fairness of the specification by chains of steps, for any number of calls,
invocations and orders. A weakly fair step is taken only if it is enabled, and nothing here
proves ENABLED of anything. So each has the hypothesis `[]EnabledAsGuarded`: a state predicate
that says, for the actions the fairness is about, that they can be taken when their guards hold.
TLC finds it true in every reachable state of the runs `calls`, `entry` (with two generations,
one session id and every act of the user but `save_while_starting`), `repair` and `polls`; the coordinator's says so only of polls that have come to the
end of their list, which is where the proof needs it. To repeat it, let a module extend the proofs
module and add `EnabledAsGuarded` to the INVARIANTS of the run's configuration. Where the
theorem has the name of a run's property, or is listed with it, the run checks that property
without the hypothesis.

The prover has no induction rule for temporal formulas. Where a chain is as long as a parameter,
as a wait is, `WaitRunsOut` puts two chains of the same length together five times, so its length
is bounded; hence the assumption `MaxBackoff <= 30` of `NobodyIsSilenced`.

Every invariant, action property, refinement and liveness property of the passing runs is
proved, under the assumptions named above. Only model-checked is `EnabledAsGuarded`.
What recursive definitions compute is no subject here: there are none.

## 6. Not modelled

* Pure parsing without state: facts, venue pages, ETA formats, coordinates, the choice
  among several drivers. Their results are inputs.
* The venue sensor's updates, which Home Assistant runs one at a time, and the migration of
  its ids, which repeats that of the orders without discovery.
* Diagnostics, constants and the release tooling, which keep no state.
* The user step and the YAML import only create the entry `ConfigEntry` starts from: its `Init`
  lets the saved token be of any generation and already be replaced by newer ones, since the
  import stores what it is given without asking Wolt.
* Home Assistant's delayed storage of entries (a crash may lose the last seconds), removing
  or disabling an entry, and a platform that fails to unload.
* `is_purchase_id`: orders of the models are purchase ids.
* Of the repair script: previews, modes and owners of files, and whether a rename
  survives a loss of power without a flush of its directory.

## 7. How the project may go on

The models cover the code that keeps state or runs concurrently. Left are larger
compositions, such as `WoltApi` inside `ConfigEntry`'s runtime (each has the other's side
abstracted), texts of several phrases in `OrderStatus`, and the delayed storage of entries
as a fault of `ConfigEntry`.
