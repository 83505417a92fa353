# Agent Tool Guardrails: TLA+ models, checks and proofs

This directory specifies the parts of Agent Tool Guardrails that decide whether
a Tool Call may have an effect, model-checks them with TLC on small instances
and proves the most important results with TLAPS for every instance.

    tlc -config authority_safety.cfg MCApprovalAuthority     # one run
    tlapm ApprovalAuthorityProofs.tla                        # one proof module

`PROJECT.json` is the machine-readable index: components, runs, the source lines
of every definition (`map`), hazards, findings and theorems. For each property
it also names a faulty variant of one definition (`mutants`): with the variant
in place of the definition TLC finds the property violated. The faulty variants
stand in the modules just before the definition they replace and are used by
nothing else.

## 1. The system

| component | state | operations | talks to |
|---|---|---|---|
| Telegram adapter (`telegramadapter`) | rate-limit counters per Subject and action | webhook; `/propose`, `/review`, `/approve`, `/deny`, `/review-unlock`, `/unlock`, `/outlook-search`, `/outlook-read`, free text | classifier, token endpoint (`oidcclient`), gateway (MCP), Approval Authority (issue) |
| gateway (`gateway`, `oidcauth`, `opaclient`) | per request only: Security Context, observation of the Tool Call | authenticate; `tools/list` filter; `tools/call` with ten Tools; operational audit | identity provider, OPA, Approval Authority (health, consume), audit collector, adapters |
| Meeting Store (`meeting`) | proposals and their states, in the gateway's memory | Submit, Review, Deny, BeginApproval, CompleteApproval, CancelApproval | |
| Approval Authority (`approvalauthority`) | used nonces in memory and in a file, latched error, consume counter | issue, consume, reset-metrics, reload | file system |
| policy (`policies/agent_tools.rego`) | none | `authorization` | evaluated by OPA |
| calendar (`calendarserver`, `calendarclient`, `freebusy`) | events by idempotency key | POST /events, GET /free-busy | |
| smart lock (`smartlockserver`, `smartlockclient`) | locked or not, counter | unlock, reset, metrics | |
| audit collector (`auditserver`, `auditclient`) | list of records | POST and GET /records, reset | |
| demo-control (`democontrol`) | none | POST /demo/reset: resets the targets and reads the evidence | locks, collector, Authority |
| Outlook, coffee station, development repository | constants | GET routes | |
| policy bundle server (`policybundle`) | the revisions of the two bundle files, read at start-up; which of them is offered | publish, download with ETags | OPA, `scripts/policy-ci.sh` through the files |
| replay demo (`replaydemo`) | none | POST /demo/enforced/replay, /demo/prompt-rule/replay | gateway, audit collector, insecure lock |
| adapter telemetry (`adaptertelemetry`) | none; one span per request in the log | wraps the read-only adapters | |
| OAuth facade, Vault client, commands | none of interest | | |

An Owner's effect takes this path: the adapter *reviews* an operation through
the gateway and has the Approval Authority sign an Approval bound to Subject,
Actor, Tool, arguments and trace; a second command brings the Approval to the
gateway, which asks OPA, *consumes* the Approval at the Authority and only then
calls the calendar or the lock.

What is hard about it:

- **Concurrency.** Every HTTP handler is a goroutine. The Authority verifies
  Approvals outside its mutex; the gateway's approve handler takes the Store's
  mutex twice with a request to the calendar in between; demo-control resets
  four services one after the other while calls run.
- **Crashes.** The Authority must not forget a nonce; the gateway forgets its
  proposals and numbers new ones from one again; the calendar forgets its events
  and idempotency keys, the Telegram adapter its rate-limit counters, OPA its
  bundle.
- **Files that change underneath.** The bundle server answers "not modified"
  from revisions it read at start-up, while `policy-ci.sh` removes and copies the
  bundle files.
- **Lost and late messages.** The gateway's HTTP client gives up after three
  seconds (`cmd/gateway/main.go:27`), the adapter's after five; the receiver may
  carry the request out later.
- **Boundaries.** Rate-limit windows, expiry in whole seconds, instants cut to
  seconds, time zones, weekdays.
- **Agreement of configurations.** Scopes are written down in the adapter, the
  realm, the gateway's configuration and the policy.

`PROJECT.json` lists each hazard at its line with the properties that cover it.

## 2. The modules

    ToolPolicy ------------------+---------------+
                                 |               |
                                 ToolGateway     TelegramAdapter --- RateLimiter

                          OneTimeApproval
             refined by ^        ^ kept by       ^ kept by
          ApprovalAuthority   MeetingApproval   SmartLockUnlock

    FreeBusy        PolicyBundle

Every module but `ToolPolicy` and `OneTimeApproval` has its proofs in a module
of its own, `...Proofs`; what is proved of the policy is in `ToolGatewayProofs`.
Each `MC...` module gives the constants their values for TLC.

### ApprovalAuthority

`internal/approvalauthority/handler.go`. A consume request takes the steps
`Receive` (it is counted), `StateAvailable`, `Verify` (without the mutex),
`Lock` (mutex, error, look-up), `PersistOk` or `PersistFail`, and `Commit`.
`issue` is `IssueCheck` and `IssueSign`. The state file is the set of its
complete lines plus what follows its last newline (`tail`): `WriteLine` appends
a line, `WritePart` part of one; a nonce appended to such a part becomes its
`MergedLine`, which is no nonce to the next load. `Crash` may come between any two steps and
`Restart` reads the file as `bufio.Scanner` does, unterminated line included.
The constant `TornWrites` says whether an append may fail half-way; everything
that needs whole appends is stated under `~TornWrites`.

`ValidBinding` takes the length of the configured signing key to be sufficient:
an Authority with a short key refuses every Approval.

Signatures, hashes and random nonces are perfect: a token that verifies is one
that was issued. The clock is monotonic and its ticks are finer than seconds,
because expiry is cut to seconds.

`OneTimeApproval` is what the callers rely on: an Approval is granted at most
once, to one request, for exactly its binding. `OneTime` says that the Authority
implements it; the refinement mapping reads the granted token and binding off
the requests answered 204. The two modules that take Approvals from the
Authority without modelling its steps say with `AsPromised` that what they take
is the same specification.

### MeetingApproval

The life of a Meeting Proposal across adapter, gateway, Authority and calendar.
`Submit`, `Reviewable`, `Deny`, `BeginApproval` and `Settle` are the Store's
operations, each atomic under its mutex. An approve call goes through `Start`
(with the Store's Review), `ConsumeGranted` or `ConsumeRefused`,
`BeginApproval`, `CreateEvent` at the calendar at any time later, or
`LoseRequest`, and `Complete` or `Cancel`; `Cancel` stands for every error,
timeouts included, and leaves the request on its way (`wire`). `Restart` empties
the Store, not the calendar nor the Owner's Approvals. `CalendarRestart` empties
the calendar, any number of times; `lost` remembers which events it had, so that
the properties can say what a restart of it excuses and what it does not: an
approved proposal without its event, but never an event nobody approved.

`GrantOf` reads off a call which Approval it was granted, for which operation;
`AsPromised` is `OneTimeApproval` with these grants.

### SmartLockUnlock

The unlock Tool Call and its evidence: middleware (`CheckHealth`, `FinalAudit`),
handler (`Decide`, `ConsumeGranted`, `ConsumeRefused`, `AllowAudit`,
`DenyAudit`, `Unlock`), lock (`Open`), collector (`RecordAudit`, `Valid`), the
adapter's `ReviewUnlock` (`StartReview`, `Review`) and demo-control (`Control`).
Each request may fail after having been carried out, and `Crash` ends the
gateway's calls but not what they have sent. `since` remembers which targets
calls have changed since the last reset began: the lock opened, a record stored,
an Approval consumed. `Reviewed` are Approvals of reviews
that ended before the model starts.

The enforced replay of `replaydemo` is one more caller: `StartReplay` calls the
Tool as an External Subject with a made-up Approval, `AuditEvidence` inspects the
result and searches the collector for the denial, `EvidenceLost` is a failed
read. The insecure lock of the prompt-only replay is not modelled.

`AsPromised` is the next-state relation of `OneTimeApproval`, not its whole
specification: Approvals of earlier reviews exist in the initial state.

### ToolPolicy, ToolGateway

`ToolPolicy` has one operator per eligibility rule of the Rego module and
`Holds(i, v)`: some rule whose body is true gives `authorization` the value v.
`Authorization` is that value or the default; `Conflicting` says that two rules
disagree, which OPA reports as an error.

`ToolGateway` follows a request through `authenticate` (`CheckIdentity`,
`Verify`, with `Compose` for the Security Context), the `tools/list` filter (one
step per Tool, because OPA may fail in between) or a call of a read-only Tool
(`BeginCall`, `Decide`, the exchange with the adapter, `FinalAudit`). Which of
OPA's answers the client accepts is `Accepts`. The exchange is `CallAdapter`,
`Serve` at the adapter, which also logs the telemetry span, or `Lose`, and
`Receive`, which may also give up on a request that is served afterwards; the
coffee station's `SwitchOutput` makes it answer with malformed output. The frame
is the same for the Tools with effects; their handlers are in the two modules
above. `Configured` says that the scopes of a deployment name every capability
the policy knows, as those of compose.yaml do; MCToolGateway assumes it of both
deployments, so that TLC evaluates it.

### RateLimiter, TelegramAdapter

`RateLimiter` is `rateLimits.allow`, one step per call because it holds one
mutex, and `Restart`, a new process without entries. `TelegramAdapter` has the
webhook, the router, one action per command handler, the classifier, the token
request, the call and the issuing of an Approval; its `Restart` drops the
counters and the updates at work. It INSTANCEs `RateLimiter` over its own
counters and asks `ToolPolicy` what the gateway would answer to a Turn with this
token. `ScopesAssumption` is what the realm and compose.yaml have in common:
what the gateway requires is among the default scopes, and the two scopes of an
effect are not.

### PolicyBundle

How a policy reaches OPA. `Build`, `Remove`, `Create`, `Fill` and `Abort` are
`scripts/policy-ci.sh`: a run builds a signed bundle and a badly signed fixture
and replaces the two files with rm and cp, seen in the middle. `StartReadValid`,
`StartReadInvalid`, `StartFails`, `PublishInvalid`, `PublishValid`,
`AnswerNotModified`, `Choose`, `Read` and `Crash` are
`internal/policybundle/server.go`; a download chooses file and ETag under the
lock and reads the file after it. OPA is external, modelled from its
configuration and from what `cmd/smoke` expects of its status: `Poll`,
`Activate`, `Reject`, `NotModified`, `OpaRestart`. `revisionOf` gives each run
its `POLICY_REVISION`, equal or different, because nothing keeps an operator
from using one twice. The fixture's revision is the run's with a suffix
(`Untrusted`), and nothing keeps another run from being given just that
(`Shadowed`).

### FreeBusy

One availability query with real arithmetic: the policy's window rule, the
calendar's intervals around its occupied half hour, the formatting in seconds,
the UTC offset of the start and the gateway's validation. `Second` and
`HalfHour` are constants, so that a day is small enough for TLC and every
boundary of it is still there.

## 3. What is checked

All runs are exhaustive for their bounds.

| run | states | properties | bounds, and why they are enough |
|---|---|---|---|
| `authority_safety` | 687 k | GrantedExactly, NoGrantOnceFailed, OneTime | 3 requests, 2 nonces: two requests race for one Approval while a third makes a write fail. Any number of crashes; one binding, of a meeting; the clock passes the expiry |
| `authority_torn` | 224 k | SingleUseUnlessMerged, IInv, Answered | FairSpec; 3 requests with one Approval, as a double grant needs: one whose append is torn, one granted on the damaged line, one more after the reload; bindings of two devices, only one of which may be signed; no clock |
| `meeting_flow` | 139 k | EventBacked, ApprovedHasEvent, Agreement, ConflictNeedsRestart, IInv, EventsKept, ApprovalSettles | FairSpec; 2 calls and 2 Approvals on one proposal number: approval and retry, approval and denial, or two rivals; 3 contents, two the calendar takes and one it refuses; one restart of the gateway, so that the number returns with other contents, and any number of the calendar. More calls and proposals open at a time are left to the theorems |
| `bundle_updates` | 951 k | IInv, NotModifiedIsCurrent, NeverOlder, Converges, RejectionSeen | FairSpec; 3 runs of policy-ci, so that a download of the first can meet the third; every assignment of revisions to them, equal ones and one that is another run's fixture's included; 2 crashes, OPA restarts or script kills; any number of publications |
| `rate_limits` | 400 k | SlidingBound, RefusalJustified | two windows of two ticks: a boundary and everything before, at and after it; limits 2 and 1 as in `cmd/telegram-adapter`; two restarts, so that one can fall on either side of a boundary or both within a window |
| `unlock_safety` | 3.8 M | IInv, EffectBacked, OneEffectPerApproval, ToldAndRecorded, ResetEvidence, ReplayEvidence | 2 calls: the same Approval twice, two Approvals that race to the lock, an unlock and an enforced replay, or a call of the wrong Subject, device or Tool; one reset; 2 Approvals (`Reviewed`) exist from earlier reviews, so that both calls can be unlocks; any number of gateway crashes |
| `freebusy_exact` | 29 k | ExactView, NoFalseAlarm | all windows between 56 boundary instants of four days, in three zones: one day or a week, with the local date that of UTC, the day before or the day after |
| `gateway_requests` | 16 k | AdapterBacked, PolicyDecides, ResultRecorded, RefusalExplained, SpansJoin, ListedIsUsable | one request (the gateway keeps no state between requests) of 19 tokens on both deployments; OPA may answer with any value meant for another input, and the adapter late, wrongly or not at all |
| `telegram_turns` | 322 k | TurnsSuffice, EffectOnlyOnCommand, ApprovalsReviewed, ForwardedWereAdmitted, RefusedByOwnQuota, LimitsKept | three updates: one more than the larger limit admits, or both limits mixed. One (`AnyUpdate`) has every command and kind of sender, good and bad arguments; the others use up the quotas or are the Owner's; a clock that passes a window, one restart |

The inductive invariants `IInv` of the Authority, the meetings, the bundles and
the lock contain the type invariants `TypeOK` of their modules. `authority_torn`
also shows, as part of `IInv`, that only the exact binding is granted. Stated and
proved but not the subject of a run: `SingleUse` without torn appends (implied by
`OneTime`), `GrantSurvives`, `OneApprover` (part of the meetings' `IInv`),
`EffectsGuarded`, `AsPromised` of the meetings and of the lock, and the inductive
invariants of `RateLimiter`, `ToolGateway`, `TelegramAdapter` and `FreeBusy`.
`AsPromised` and the invariants of the last three were also checked with TLC on
the instances of the runs before they were proved; without the single use of
Approvals in the models TLC finds `AsPromised` violated.

Symmetry sets are permutations of requests, calls, updates, nonces and earlier
reviews, which the specifications only compare for equality; runs with liveness use none.
`CHECK_DEADLOCK FALSE` stands where the finite set of requests is used up and
the system simply has nothing left to do.

In words:

- **Approvals.** Each is consumed once, across all interleavings and restarts,
  for exactly what it was signed for, while alive; once a write has failed the
  process grants nothing more; no request hangs.
- **Meetings.** Every event stems from an approve call that spent an Approval of
  exactly that proposal and content, although requests are late, answers are
  lost and numbers are reused after a restart. A proposal being approved belongs
  to one call, so CompleteApproval and CancelApproval, which look only at the
  state, never settle somebody else's. Nobody is told "denied" of a proposal of
  which somebody else was told "event". An approved proposal has its event unless
  the calendar had exactly that event and lost it in a restart; nothing else
  removes or changes an event.
- **Lock.** It opens only after an accepted "allow" record and a spent exact
  Approval, once per Approval even across resets; a caller that is told
  "unlocked" opened it; results leave the gateway only recorded. A reset reports
  the true baseline of every target no call has changed since it began, whatever
  calls run beside it; of the others it never reports what is not there, but may
  miss what came after its reading. What an enforced replay shows as
  evidence is the policy's own denial of that very call, recorded before any
  Approval was spent or anything sent to the lock.
- **Policy bundles.** A "not modified" is about the bundle on disk, unless the
  file was replaced under the running server, a revision was given twice or the
  file is gone (the three excuses in `NotModifiedIsCurrent` are the price of
  reading revisions once). Whatever is published or caught half-copied, OPA never
  goes back to an older bundle; it ends up with the one on disk once updates and
  faults stop; an invalid update that stays published stays visible as an error,
  unless a run was given the revision of a fixture.
- **Gateway and policy.** Adapters are reached only with capabilities the token
  itself signs; swapped OPA answers do no harm; the policy's rules never
  disagree; what is listed may be executed, and all of it is listed unless OPA
  failed; the record tells who refused a call. Adapter spans, decisions and final
  records join: no span without an allowed decision, no "allow" record without a
  successful span, and a call that was served and yet recorded as denied names
  the adapter or its output as the reason.
- **Availability.** The answer is exact to the second for every window and zone,
  but it knows one date only, that of the start in its own zone: the occupied half
  hour of any other date in the window is reported free.
- **Adapter.** Each command has the scopes it needs, and only the commands of an
  effect can reach it, whatever free text says; what reaches the gateway was
  counted; one quota never refuses the other action.
- **Rate limit.** Fixed windows restarted by their first request let at most
  `2 * limit - 1` requests through in any time shorter than a window, and each
  restart of the adapter within that time at most `limit` more; they refuse only
  who had its limit within the last window, from the process that refuses.

### Disagreements with the documentation

Three runs expect a violation; `findings` quotes the lines.

| run | what it shows |
|---|---|
| `authority_replay` | A torn append leaves a fragment without newline; the next process appends its first nonce to it; the load after that knows neither nonce, and the Approval is consumed again. `SingleUseUnlessMerged` shows that only an Approval whose own nonce met the fragment can be. |
| `meeting_denied` | Approve, time out, deny with a second Approval, and the late create request is carried out: a denied proposal with an event. |
| `freebusy_hours` | Start and end on the same weekday of two weeks pass the policy; nights and a weekend are reported free. |

Three more observations can be read off the models, with no run of their own. The
final record of a call of a Tool that is not registered is refused by the
collector (`Valid` in `SmartLockUnlock`), so the call ends with an error and no
evidence, while the repository's README speaks of every Tool Call. And an
identity provider that fails between the health check and the verification
answers 401 without a record (`Verify` in `ToolGateway`), because
`Authenticator.Verify` never returns `ErrIdentityUnavailable`. And the calendar
occupies 10:30 to 11:00 UTC of the date the start has in its own zone: where that
is not the date in UTC, and on the later days of a window over several, that half
hour is reported free. `ExactView` says exactly this; no document says which date
is meant.

### Fairness

`FairSpec` adds weak fairness of the steps of each request that has arrived:
the Go scheduler runs every runnable goroutine, `sync.Mutex` starves nobody
(and with finitely many requests weak fairness of `Lock` is enough), file
operations return, and every request of the gateway ends, at the latest by the
client's timeout, which is why `Cancel` is always enabled while a call waits.
Nothing is assumed of the calendar (`CreateEvent` and `LoseRequest` are not
fair), of the Owner or of restarts.

In `PolicyBundle` the fair actions are those of a download (`net/http` serves
every request it has accepted, and the handler only reads a file) and OPA's own
(it polls every second for ever and acts on each answer). Nothing is assumed of
policy-ci, of operators or of the server's start: `Converges` and `RejectionSeen`
speak of behaviours in which those have come to rest in a good state.

## 4. What is proved

All theorems hold for every value of the constants that satisfies the named
assumptions, any number of requests included.

| module | theorems |
|---|---|
| `ApprovalAuthorityProofs` | `Inductive`, `TypeCorrect`, `SingleUseOrMerged`, `ExactlyGranted`, `FailsClosed`; with `~TornWrites` `ConsumedOnce`, `GrantsDurable`, `ImplementsOneTime` |
| `MeetingApprovalProofs` | `Inductive`, `TypeCorrect`, `EventsBacked`, `ApproverUnique`, `ApprovedIsCreated`, `AnswersAgree`, `ConflictsExplained`, `EventsStay`, `KeepsPromise` |
| `SmartLockUnlockProofs` | `Inductive`, `TypeCorrect`, `EffectsBacked`, `OncePerApproval`, `ToldTruly`, `ReplaysShown`, `ResetsTrue`, `KeepsPromise` |
| `PolicyBundleProofs` | `Inductive`, `UnchangedIsCurrent`, `LastGoodKept` |
| `RateLimiterProofs` | `Inductive`, `TypeCorrect`, `Bounded`, `Justified` |
| `TelegramAdapterProofs` | `Inductive`, `TurnsEnough`, `EffectsOnCommand`, `ApprovalsForReviews`, `Limited`, `RefusedByOwn`, `ForwardedCounted` |
| `ToolGatewayProofs` | of the policy `PolicyNeverConflicts`, `EffectsNeedOwner`, `ExecutableIsDiscoverable`; of the gateway `Inductive`, `AdaptersBacked`, `AlwaysDecided`, `EffectsShownToOwner`, `CallsInductive`, `ResultsRecorded`, `RefusalsExplained`, `SpansJoined`; with `Configured` `ListsUsable` |
| `FreeBusyProofs` | `FreeIntervalsExact`, `Inductive`, `ViewExact`, `NoFalseAlarms` |

The arguments:

- **Authority.** `SingleUse` alone is not inductive: one must know that memory,
  file and answers agree. `IInv` says who holds the mutex (`MutexInv`), that a
  process that is down has nothing in memory (`DownInv`), that what `Verify`
  found stays true (`SignedInv`), and, nonce by nonce, that a granted one is in
  the file, as a line of its own or as a merged one, and that one with a line of
  its own is in memory unless it is being committed (`SpentInv`). So a merged
  line harms only the nonce in it. Without torn appends the file has no merged
  line at all (`WholeLines`), which gives the unconditional theorems and the
  refinement: `Commit` is a `Grant`, `IssueSign` an `Issue`, the rest stutters.
- **Meetings.** `IInv` relates each call to its process (`epoch`), its spent
  Approval, the Store and the calendar (`CallInv`). Two parts are easy to
  overlook: a call that has not begun is no retry (`FreshInv`, for
  `OneApprover`), and until the first restart the calendar has only contents of
  the Store (`FirstLife`, for `ConflictNeedsRestart`). An answer "event created"
  outlives a restart of the calendar, so `CallInv` lets it refer to a lost event.
- **Lock.** None of the properties says enough to be kept by a
  step, because what they say of an open lock was decided several requests
  earlier. `CallInv` says it of every call where it is: one that has not arrived
  has left no trace (`Unheard`); one that is past the policy is the Owner's, with
  the fixed device (`Placed`); one past consuming, or with a request to the lock
  under way or carried out, has spent its exact Approval, and from the call of
  the lock on has its accepted "allow" record (`Effective`); a call of somebody
  else has spent nothing, and its denial was recorded as the policy's
  (`Refused`). `SpentOnce` joins the calls. The argument rests on `accepted`,
  which no reset empties. For the reset, `LockSince`, `AuditSince` and
  `CounterSince` follow each target on its own: once cleared it is clean until a
  call is noted in `since`, and what was read of it can only be outgrown. No step
  of a call closes the lock, drops a record or lowers a counter (`CallTouches`),
  which is what keeps the second half while calls run beside the reset.
- **The promise.** `ImplementsOneTime` shows that the Authority keeps
  `OneTimeApproval`; `KeepsPromise`, of the meetings and of the lock, that what
  their calls take from it is the same specification. So the two models, which
  have consuming as one step, assume nothing of the Authority beyond what is
  proved of it. Needed is `OwnSpent`: a call that was granted an Approval was
  granted the one it came with and does not ask again.
- **Policy bundles.** `NeverOlder` is not inductive: it needs that ETags never run
  ahead of files. `DiskInv` orders the file against the run being copied,
  `ServerInv` says the valid revision in memory is of a run the disk has reached
  and the fixture's of a run there was (so that it can be some bundle's only if
  `Shadowed`),
  `RequestInv` that a download's ETag is no newer than its body and its body no
  older than what OPA runs, `OpaInv` the same of the ETag OPA keeps. The files
  are removed before the new ones are copied, which is why a body read after the
  choice of its ETag can only be newer.
- **Rate limits.** `Entry` ties the counter to the history: the last `count`
  admissions are those since `started`, and the window before them, with at most
  `limit` admissions, began at least a window before. Two neighbouring windows
  hold at most `2 * limit` admissions, the first and last of which are a window
  apart. Admissions carry the process that made them, so that a restart between
  two of them raises the number needed by one limit (`Needed`).
- **Policy.** By cases on the Tool: at most one value holds for each, whoever
  asks, so the rules never disagree, and `authorization` is the value of the
  rule that holds.
- **Gateway.** `Within(r)`: past authentication the capabilities are a subset of
  the token's scopes, and a call on its way to an adapter or a Tool in a list is
  permitted with those scopes; the policy is monotone in capabilities.
  `CallsInv` follows a call to its evidence: until OPA has been asked there is
  nothing to record and nothing has left the gateway (`Fresh`), a decision is the
  policy's for this very call (`Asked`), an answer of the adapter has its span
  (`Served`), and the final record, of which there is none before the end,
  explains the outcome (`Kept`), also when the adapter serves the request after
  the gateway has given up on it.
  `ListsInv` is the loop invariant of the `tools/list` filter. `ListsUsable` needs
  `Configured`: a capability the policy knows and the configuration does not
  name would be dropped from the Security Context, and its Tool from the list.
- **Telegram.** `Routing` says of each place in the code who can have got there
  and with which command; `Turn` that the token is the one for the command and that an
  Approval follows a permitted review. With `ScopesAssumption` the policy's rules
  then give `TurnsEnough` and `EffectsOnCommand`. `Limited` is a refinement: the
  handlers of the two limited commands are steps of `RateLimiter`, the clock its
  clock, everything else stutters. `RefusedByOwn` and `ForwardedCounted` are about
  both sides: `LimitInv` ties the counters to the admissions and `CountInv` the
  number of updates past their route to them, for any number at work at once.
- **Free/Busy.** The intervals by cases on how the window and the occupied
  interval overlap. `IInv` keeps, at every stage, that the window is the one the
  policy allowed and the view the one computed for it; lemmas on division give
  that cutting to seconds moves no half hour and no day boundary, and that
  start and end on one local day are in working hours together with all between.
  The occupied half hour of a date is the only busy time of that date (`BusyOn`),
  which makes the view exact for every offset of the start.

Every safety invariant and action property of the passing runs is the subject of
a theorem. Only model-checked is liveness (`Answered`, `ApprovalSettles`,
`Converges`, `RejectionSeen`), because the prover has no rules for fairness and
ENABLED. The three disagreements are counterexamples and stay with TLC.

## 5. What is not modelled

- The prompt-only replay and the insecure lock: a scripted client of an isolated
  fixture that is insecure on purpose and shares nothing with the gateway.
- OAuth facade, OAuth metadata, health endpoints: no state any decision depends
  on.
- The answer to Telegram when it is lost: no state of the adapter depends on it,
  and a repeated command meets the single use of Approvals.
- The commands: wiring and start-up. Their timeouts, limits and scopes are
  constants here; `cmd/smoke` is a test, and its expectations of OPA and of the
  evidence are among the properties.
- Vault, configuration, HTTP and JSON helpers: their failures are the failures
  of the requests that use them.
- The MCP session protocol, which belongs to the SDK.

## 6. Plan

Done, in this order: Approval Authority and its abstract specification, meeting
approval, rate limits, smart lock with audit and reset, Free/Busy, policy and
gateway, Telegram adapter; then policy bundles, restarts of the calendar and of
the adapter, the enforced replay, the adapters' side of read-only calls with
their telemetry; the proofs of the Authority, the meetings, the bundles, the rate
limits and the policy, then those of the lock, the gateway, the adapter and the
availability query, and of what the lock and the meetings take from the Authority.

Left:

1. A composition of `TelegramAdapter` with `MeetingApproval` through an abstract
   gateway, so that "each effect was one Owner's command" is one statement from
   webhook to calendar. Both halves are proved: `ApprovalsForReviews` and
   `EffectsOnCommand` at the adapter, `EventsBacked` at the gateway.
2. The calendar and the lock as abstract specifications of their own ("an effect
   has one spent Approval"), refined by `MeetingApproval` and `SmartLockUnlock`.
