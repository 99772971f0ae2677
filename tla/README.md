# GovScribe: a TLA+ model

GovScribe drafts official documents with language models. Its Go core (`internal/`) chooses a
model, keeps confidential text inside the domain, streams a draft, and retrieves from a corpus of
former documents. This directory holds TLA+ modules that model that core, the TLC configurations
that check them on small instances, and TLAPS proofs of the properties that matter most. Paths
below are relative to the repository; `PROJECT.json` maps every definition to the lines it models.

    tlc -workers 2 -config NERCircuitBreaker.cfg NERCircuitBreaker.tla     # a run
    tlapm GatewayRoutingProofs.tla                                         # the proofs of a module

## 1. The system

All parts are Go packages over one Postgres database. The repository has no `main` and does not
assemble a process, so there is no restart order to model: what survives a crash is what the
transactions and the files wrote.

| Component | State it keeps | Operations | What is hard | What makes it correct |
|---|---|---|---|---|
| NER circuit breaker `internal/desensitization/gateway/circuit_breaker.go` | state, failure count, `openUntil`, probe flag (in memory, one mutex) | `Recognize` | the call runs between two critical sections; calls of earlier eras are booked late | never stuck half open, one probe at a time, late failures do not keep it open, it recovers |
| Model configuration service `internal/llm/config` | one row per configuration with `enabled`, `probe_passed`, `is_current` | Create, Update, Enable, Disable, SwitchCurrent, Probe | read, network, write the whole row back; compensation after a failed probe or transaction | marks never contradict each other, the current one is registered, lost updates do no more than lose the mark |
| LiteLLM registry `internal/llm/litellm/registry.go` | the proxy's endpoint per configuration | sync, restore | refused and unanswered requests | agrees with the store once an operation alone has ended |
| Gateway decorator `internal/desensitization/gateway/decorator.go` | none of its own; the audit log | Complete, Stream | decides on rows that change before the router reads them; four ways to fail | what text leaves, where to, and audited first |
| Route policies `.../gateway/route_config*.go` | a policy per level | save, read | saved under one rule, read later | a hardened level never goes out |
| Router and backends `internal/llm/runtime` | none | resolveConfig, Complete, Stream | a second read of the same table, and a call on the copy read | a disabled configuration gets only calls resolved before |
| Dictionary `internal/desensitization/dictionary` | entries (table), automaton (memory) | create, import, update, delete, reload | save, list and swap are not one step | a reported change is in force |
| Sanitiser `.../gateway/{regex,ner,processor,merge,placeholder,tail_buffer}.go` | placeholder mapping of one call; tail of one stream | recognise, merge, replace, restore | overlaps of three layers merged in two passes; placeholders cut by deltas | hits that beat all they overlap are kept, what is restored is what was replaced, however it is cut |
| Provider clients `internal/llm/{direct,litellm}` | a goroutine and a channel per stream | Complete, Stream | unbuffered sends that do not look at the context | nobody waits for ever |
| Draft orchestration `internal/draft` | goroutines and channels of one stream | GenerateDraft, StreamDraft, cancel | buffered and unbuffered channels, cancellation against a terminal event | one terminal event, last, nothing missing before it; goroutines end |
| Corpus ingestion `internal/rag/corpus/service.go` | objects, documents, outbox rows, batch checkpoints | ingest, batch, adoption | object store and database are not one transaction; compensation; batches sent again | every document has its original; no object is forgotten |
| Outbox, reconciliation, rebuild `internal/rag/corpus/outbox.go` | outbox rows, the vector index | Process, Reconcile, RebuildAll (two) | copies indexed after they changed | no repair is lost, the index converges to the table |
| Retrieval `internal/rag/retrieval` | none | Search | filters an index that lags behind | no deleted chunk; a shortage is marked |
| Login, limiter, sessions `internal/auth` | failures per window (in memory); sessions are signed tokens, resolved against the users at each request | Authenticate, Blocked, RecordFailure, RecordSuccess, Sign, Parse | asked before, told after a slow hash | the threshold holds |
| Users, bootstrap, access `internal/auth` | users, roles, audit log | CreateUser, DisableUser, AssignRole, ResetPassword, ChangeOwnPassword, bootstrap | change and audit apart; two administrators | the audit invents nothing and the administrator hears of what it lacks; a lockout takes administrators |
| Clarification and document types `internal/doctype`, the workbench `src/frontend/src/App.tsx` | the workbench carries the rounds, the handlers keep nothing | classify, clarify; describe, choose, answer, skip, restart | answers that come late or not at all; limits changed on the way | answers are kept, the dialogue ends |
| Other pages of the frontend, wire formats, schema files | views; encodings | | | not modelled |

Interactions: the workbench settles the context of a draft with the document type handlers; a draft
takes that context, calls retrieval, then the decorator; the decorator reads policies and the
configuration table, runs the sanitiser (which calls the NER through the breaker and matches
against the dictionary's automaton), writes an audit and calls the router; the router reads the
configuration table again and calls a provider. The configuration service writes that table and the
proxy's registry. Nothing shares a lock across these calls: they meet in the database.

## 2. Modules

| Module | Models |
|---|---|
| `NERCircuitBreaker` | the breaker, the client's timeout, the clock |
| `ModelConfig` | the configuration service over Postgres, its unique index, the LiteLLM registry |
| `ConfigTable` | the abstract specification of that table, as its readers see it |
| `GatewayRouting` | decorator, policies and router; EXTENDS `ConfigTable`, so the table under a call changes in every way the service can change it |
| `Dictionary` | the dictionary's table and the sanitiser's automaton |
| `Sanitizer` | merging, placeholders and the tail buffer, over short texts |
| `Clarification` | the workbench and the two handlers it talks to |
| `Retrieval` | one search, from the recall to the scarcity mark |
| `DraftStream` | the three goroutines of a stream and its caller |
| `DraftRequest` | a draft from the description to the last event: EXTENDS `DraftStream`, instantiates `Clarification` and `Retrieval` |
| `CorpusIngestion` | documents, objects, checkpoints, compensation, crashes |
| `CorpusIndex` | the authority, the index, the outbox and its processors, reconciliation, rebuilds |
| `Accounts` | logins, principals, management, bootstrap |
| `MCModelConfig`, `MCDictionary`, `MCSanitizer`, `MCCorpusIngestion`, `MCAccounts` | values and symmetry sets for TLC |
| `RecognitionProofs` (the breaker and the sanitiser), `ModelConfigProofs`, `GatewayRoutingProofs`, `DictionaryProofs`, `DraftRequestProofs`, `CorpusIngestionProofs`, `CorpusIndexProofs`, `AccountsProofs` | theorems |

`ModelConfig` implements `ConfigTable` (checked as the property `ImplementsConfigTable` and proved as
`ModelConfigImplementsConfigTable`). `GatewayRouting` builds on `ConfigTable`, not on `ModelConfig`:
what is shown of the gateway holds for whatever the service does, and its state space stays small.

### NERCircuitBreaker

`state`, `failures`, `probeInFlight` are the fields of `CircuitBreakerNER`. `openUntil` is held
relative to the clock (`remaining`), so that no clock value grows. `call[c]` is where the goroutine
`c` is in `Recognize`: `idle`, `calling` (admitted, `halfOpenProbe` false), `probing` (true). The two
critical sections are the actions `AdmitCall`/`AdmitProbe` and `BookSuccess`/`BookFailure`; between them
the clock ticks and other callers run. A call that is turned away changes nothing. `left[c]` is the
HTTP client's own timeout (`ner.go:32`), which is why `Tick` cannot pass it. `healthy` may change at
any time; a failure is booked only while it is false, a success at any time. `ctx` cancellation is an
error of the client and counts as a failure in the code, so `healthy` also says that nobody cancels.

### ModelConfig

One action per stretch without a network call or query: `Update`, `Enable`, `Disable`, `SwitchCurrent`
and `Probe` are the `Get` and the checks on the row read; `SyncDone`/`SyncFailed`, `ProbePassed`/
`ProbeFailed`, `RestoreDone`/`RestoreFailed` are the network calls with their error paths; `Save`,
`SaveAndSetCurrent` and `SaveFailed` are the transactions, which write the whole copy, `is_current`
included. `Create` is one transaction. `op[a].base` is the row as read, `op[a].copy` the row to be written.
`clean` is a history variable: it turns false once two operations overlapped or a request was not
answered.

A commit whose answer is lost is not modelled (the code treats it as a failure, as `SaveFailed`, but
the row would be there). Neither are the in-memory store (it has no unique index and is a test
double), a service without prober or syncer, and the store's `SetCurrent`, which the service does
not call.

### ConfigTable

Its actions say what the readers must be ready for: a row is added, edited, made current by a switch,
and, because whole rows are written back from old copies, the mark may also get lost
(`LoseCurrent`) or come back when there is none (`RegainCurrent`). It does not promise a current
configuration, nor that the current one passed its last probe.

### GatewayRouting

A call walks through `req[r].step`: the target is learnt (`ResolveTarget`), the policy read and
hardened (`ReadPolicy`), the text sanitised (`Sanitize`, `NERUnavailable`, `FallBack`), the
disposition audited (`AppendAudit`), the request resolved by the router's own look at the table
(`ResolveConfig`), the backend called with the copy the router has read (`Send`), and the failure of
a rerouted call audited (`AuditFailure`). Between any two of these the table changes, so a
configuration may be disabled when it is called. `AuditFails`, `QueryFails`, `ResolveFails` and
`BackendFails` are the error returns. Text is one of `raw`, `sanitized` (three layers) and
`degraded` (regex and dictionary only). `sent` is what the backend was given, `audits` the audit
log, `resolved` the router's copy. `seen`, the configuration whose network the gateway looked at,
and `overtaken`, the calls whose copy was disabled after it was read, are history.

A configuration's network is fixed at creation: `Update` cannot change it
(`internal/llm/config/service.go`), so `PrivateConfigs` is a constant. Where the store returns the first
private row in id order, the model takes any: a superset. The audit row of a saved policy is in the
policy's transaction. `Stream` decides and dispatches exactly as `Complete`; what happens to its
events afterwards is in `DraftStream`, what happens to the text in `Sanitizer`.

### Dictionary

`entry` is the table, `loaded` the automaton, an operation is `save` (one row at a time, for an import
several), `list`, `swap`. Every operation reloads, an empty import too. `lastWriter`, `missed` and `clean`
are history: who wrote an entry last, whose update holds an entry as it was before it was deleted, and
whether operations overlapped or broke off. An identifier is drawn at
random; an import never draws one that is in use. As in `ModelConfig`, a write whose answer is lost is
not modelled, and `DictionaryRecognizer` starts with the active entries, of which there are none.

### Sanitizer

A text is a sequence of symbols, each a character or the number of a placeholder with its type. A
behaviour is either a request, whose hits are found one by one (`Recognize`), merged without and then
with those of the NER service (`Recognized`, `Merge`, `AddNER`) and replaced (`ApplyPlaceholders`), or
an answer that arrives delta by delta (`Push`, `Flush`). `Merge` is one turn of the loop of `MergeHits`:
a hit is compared with the first kept hit it overlaps and with no other. What the expressions, the
dictionary and the NER service find is any set of hits inside the text.

`Substitute` (`strings.ReplaceAll`), `Restore` and `Apply` are recursive functions on the prefixes of what
they work on, and `SliceStable` puts each element in the place that the number of elements ahead of it
gives: forms that can be reasoned about. A placeholder has its brackets at its ends only, so its
occurrences do not overlap and it does not matter from which end they are looked for.

### Clarification

`desk` is the state of `WritingWorkbench`, `requests` what it has sent and not yet got an answer for.
While a request is out the buttons are blocked, but Enter in the answer (`Answer`), the description
(`Describe`) and the ways to begin anew (`Restart`) are not, and an answer is shown whenever it comes
(`Classified`, `Clarified`, with `ClassifyFails` and `ClarifyFails` for every error). The handlers keep
nothing: required slots and the limit of rounds are drawn anew at each request (`RequiredSlots`,
`Limits`), because their rows may be changed in between. `answered` and `disturbed` are history: the
slots whose answer the service has taken, and that the user went on while a request was out. Texts
of slots and descriptions are not modelled; descriptions are numbered.

### Retrieval

One search: `Begin`, `SearchHybrid`, `SearchExact`, `FilterVisibleHits`, `Rerank`, and `Refuses` and
`Fails` for the error returns. The index lags behind the database (`CorpusIndex` says how), so a recall
returns any chunks. `gone` is what was deleted when the search began; the filter keeps what is visible
and live when it runs. `Only` is the loop that keeps some of the hits in their order: it is written as
a recursive function, which the provers can unfold.

### DraftStream

`provider` and `gateway` are goroutines that send on unbuffered channels: what they still have to send
(`out`) and how they go on. A send and its receive are one step, `GatewayReceives` and
`OrchestratorReceives`. `orchestrator.at` is where the goroutine of `appendHighFreqStreamMetadata` is; its
channel `out` holds one event. `Cancel` is `sendHighFreqCancellationEvent`, which throws away an event
nobody has read. A delta carries the numbers of the pieces of text it brings, so that loss and
disorder show; `draft` is history, the text the caller has read. The caller of a generic draft reads the
gateway's channel itself. The caller may cancel at any time, and read on or go away.

### DraftRequest

The composition. `ConsumeContext` takes the context when the dialogue is done and refuses one that is
meant for the other kind of draft; `SearchExamples` and `AssemblePlan` are `prepareGeneration` of a deep
draft; `StartDraft` opens the stream. `SearchByIdentifier` is another caller's search, so that the exact
recall is exercised too. A component's part is reset when nothing looks at it any more.

### CorpusIngestion

One action per stretch between two calls of a store. `AskPlain`, `AskCheckpointed` and `ConsumeAdoption`
are the three ways in; `CheckpointLookup`, `Validate`, `PutOriginal`, `SaveDocument`,
`CompensateObjectWrite` and `RecordResult` follow `ingestValidated` and the loop around it. `objects[k]`
is the call whose text is under the key `k`, `documents[d].by` the call that stored `d`. `PutOriginal` and
`SaveDocument` have three outcomes: stored, not stored, and stored with the answer lost (`stranded` for the
object, `unanswered` for the commit): the code treats the last two alike. A failed Put is not
compensated, a failed save is. A batch that is sent again is another call. `AdoptionKey` is a
function of the document that need not be injective, because `objectKeySegment` maps different ids to one
segment. `Crash` stops a call between two steps.

### CorpusIndex

A chunk's row and its index entry are its classification, or none. `Take` is `Process` up to the
embedding: it takes an event in any order and reads the chunk; `Apply` writes the copy it has in hand.
`ListAuthorityChunks` and `ListDerivedChunks` are the two listings of a reconciliation, after which it
stores the repairs one by one (`EnqueueRepair`, `FinishReconcile`, `ReconcileFails`); `StartRebuild` and
`RebuildChunk` the two rebuilders, which differ in that one of them reads the originals again and stops
at the first one that is missing. Nothing in the repository changes a stored row or polls the outbox:
`Ingest`, `Reclassify` and `SoftDelete` follow `SaveDocument` and `PlanClassificationDowngrade`, which plan the
events of a change, and are stored with them.

### Accounts

`requests[r].at` is where a request is: each call of the store is a step and may fail. The limiter's
list of failures is a function from the logins that failed to the ages of their failures. Ages and
the rest of a block are relative to the clock and stop at `Window + 1`, after which the code removes
or ignores them. `userRoles` holds rows with who inserted them, because a transaction that replaces
the rows of a user deletes those it sees (`DeleteRoles`, `InsertRole`). A token only names its user.
`changes`, `overlapped` and `wasActive` are history: what was written, whose role changes
overlapped, and whether the account was active when the request came. A login may write two audits,
and each may fail without anybody hearing of it (`MayAudit`); `Granted` is whom
`data_security_acl_grants` lets manage users by name, a table nothing in the repository writes; the
audit of a change comes after the change is committed. The bootstrap counts a disabled administrator
as one (`HasAnyUserWithRole`).

## 3. Runs

| Run | Bounds | What it shows |
|---|---|---|
| `ner_breaker` | 3 callers, threshold 2, open for 3 ticks, timeout 2 | `NeverStuckHalfOpen`, `SingleProbe`, `LateFailuresDoNotProlong`, `Recovers` |
| `ner_two_probes` (violation) | 3 callers, threshold 1, open for 1 tick, timeout 3 | two probes at once when the timeout exceeds the interval |
| `config_admin` | 2 configurations, 2 administrators, 2 endpoints | `CurrentIsEnabled`, `CurrentIsRegistered`, `RegistryAgreesWhenQuiet`, `CurrentChangesBySwitchOrStaleWrite`, `ImplementsConfigTable` |
| `config_no_current` (violation) | the same | a Disable takes the mark away from the configuration just switched to |
| `gateway_routing` | 1 public and 1 private configuration, 1 call, 1 ordinary and 1 hardened level | `RawLeavesOnlyByASwitch`, `HardenedIsNeverSanitizedOut`, `AuditedBeforeSent`, `DisabledGetsEarlierCallsOnly` |
| `gateway_raw_public` (violation) | the same | a switch between two reads lets original text out |
| `dictionary` | 2 identifiers, 2 terms, 2 administrators | `UpToDateWhenAlone`, `OwnChangeIsInForce`, `OnlyALostDeletionRevives` |
| `draft_request` | 2 document types (1 deep), 2 slots, limits up to 2, 2 descriptions, 2 requests at once; 2 chunks, top 2, threshold 2, minimum 1; 3 pieces of text | `ExactlyOneTerminalEvent`, `CompleteWhenDone`, `FirstEventHasMetadata`, `LeftBehindOnlyWhen`, `CancellationIsAnswered`, `NoDeletedExample`, `ShortageIsMarked`, `AnswersAreKept`, `DialogueEnds` |
| `sanitizer` | texts of 4 symbols, up to 4 hits; answers of up to 6 symbols in deltas of 1 or 2 | `MergeKeepsTheUnbeaten`, `RestoreUndoesApply`, `PiecesRestoreTheWhole` |
| `corpus_ingestion` | 3 calls, 2 documents, 2 keys, adoptions that share a key | `SavedHasItsOriginal`, `OrphansAreExplained` |
| `corpus_index` | 1 chunk, 2 classifications, 2 processors, 3 changes, 1 fault | `DriftNeedsAStaleWrite`, `IndexConverges` |
| `accounts` | 2 accounts, 3 requests, threshold 2, window 2 | `NeverOpenAtThreshold`, `DisabledMeansRefused`, `OneRoleUnlessOverlapped`, `AuditTellsTheTruth`, `BootstrapIsTheFirst`, `LockoutIsMutual` |

Every passing run explores its whole state space; no counter is cut off by a state constraint. Why the
bounds are enough:

- Breaker: three callers are a late success, a late failure and a probe at once. Threshold 2
  distinguishes the failure that opens from the one that does not; an interval of 3 and a timeout of 2
  are the smallest that let a call of the closed era come back while open and after. The proofs remove
  the bounds.
- Configurations: every race is between two operations and at most two rows (the one that becomes
  current and the one that was). Two endpoints tell a changed from an unchanged update. Proved for any
  number.
- Gateway: calls share nothing but `audits` and `sent`, which only grow, so one call is as good as
  several; two configurations, one on each side, are enough for a switch across the boundary. Proved
  for any number.
- Dictionary: two entries separate an import's first from its second write; two administrators are a
  reload overtaking another. Deleted rows stay, so the tables are finite. Proved for any number.
- Draft: two slots tell the one asked from one answered before, two rounds a limit that is reached from
  one that is not, two descriptions and two requests a late answer to the former from the answer to
  the latter. One document type leads to each kind of draft. Three pieces are one read, one in a
  channel and one on its way when a cancellation comes; the tail buffer can hold any of them. Two
  chunks with thresholds of 1 and 2 make every shortage. About 140 000 states. The safety properties
  are proved for drafts of any length, any slots and any thresholds.
- Sanitiser: four hits on four symbols are a chain of overlaps with every choice of layers and lengths;
  a deeper one adds no new pair. A placeholder has three symbols, so an answer of six in pieces of one
  and two cuts two placeholders, and pieces of placeholders, in every way. One text has the same
  entity twice, one looks like a placeholder. About two million states. Proved for
  texts, answers and deltas of any length and any number of hits.
- Ingestion: a compensation concerns the call that wrote and one that wrote under the same key; the
  third call is the same document sent again. Two keys tell a shared key from one's own. The longest
  run, about three million states. Proved for any number.
- Index: each action touches one chunk, and listings are read chunk by chunk, so chunks do not
  influence each other (two chunks with one processor give the same answer for safety). Two processors
  are needed for a stale copy to be written over a newer one, three changes for ingest, reclassify and
  delete, one fault to lose any one repair. `DriftNeedsAStaleWrite` is proved for any number.
- Accounts: an administrator and another, or two administrators, one with a grant of its own; three
  requests are two that overlap and one that has changed the table before. The run also passes with
  three accounts. Proved for any number.

`MaxChanges`, `MaxFaults`, `MaxScenes`, `MaxRequests`, `MaxDeltas`, `MaxRounds`, `MaxRanks`, `MaxHits`,
`MaxAnswer` and `MaxDelta` are the bounds; they are in guards or in the sets inputs are drawn from.

Deadlock is checked wherever the system keeps going. In the gateway the calls are given up or
answered and are not issued again, and the policies and the table may be changed for ever, so the
question does not arise; the two gateway runs say `CHECK_DEADLOCK FALSE`. So do `draft_request` (a
draft ends), `sanitizer` (a text ends), `corpus_ingestion` (a call ends) and `accounts` (each request runs
once). Whether somebody is left waiting in a stream is not left to that check: it is
`LeftBehindOnlyWhen`.

The symmetry sets are used with safety properties only.

`TypeOK` is checked in `config_admin` and `gateway_routing` and proved of every module that states one:
`NERCircuitBreaker`, `ModelConfig`, `GatewayRouting`, `Dictionary`, `DraftStream`, `CorpusIngestion`,
`CorpusIndex`, `Accounts`. The invariants of `Clarification` and `Retrieval` type their variables as the
proofs need them.

### Fairness

`Recovers` is checked under `LiveSpec`: weak fairness of the clock, of each caller's booking (the HTTP
client has a timeout and `Recognize` always takes the mutex again) and of each caller's next call (the
breaker probes only when somebody calls; without traffic it stays open and no harm is done). Nothing
is assumed fair about the health of the NER: the property is about executions in which it answers for
good from some point on.

`DialogueEnds` and `CancellationIsAnswered` are checked under `RequestSpec`. Goroutines run: weak fairness
of the provider (a network call ends in an answer or an error), the gateway and the orchestrator, and
of a caller that is there and reads. Nobody has to cancel. Of the dialogue: the user writes
a description where there is none and goes on, each request is answered in some way (weak), and a service asked
again and again does not fail every time (strong fairness of a successful classification and of a
successful clarification; with weak fairness alone a service that fails every time is an exception
the code cannot help).

`IndexConverges` is checked under `LiveSpec` of `CorpusIndex`: the outbox is polled so that no event is passed
over for ever (strong, because a processor may be busy), the processors' calls return, and
reconciliation is run again and again, as the specification of the corpus wants it. The repository
contains these operations and no scheduler, so this is an assumption about the process that will
call them.

### Where the code does not do what is said of it

- `ner_two_probes`: `circuit_breaker_test.go:98` wants only one half-open probe. A late success of the
  closed era closes a half-open breaker under its probe, new failures open it again, and after the
  interval a second probe goes out while the first still runs. With a client timeout below the interval
  (the defaults, 5 s and 30 s) this cannot happen: `SingleProbe`.
- `config_no_current`: disabling must not lead to a state without a current configuration
  (`model-config-management/spec.md:33`). `Disable` checks its copy and writes it back whole; a switch in
  between is overwritten. What remains true is `CurrentIsEnabled` and
  `CurrentChangesBySwitchOrStaleWrite`.
- `gateway_raw_public`: no call reaches a public model around the gateway
  (`desensitization-gateway/spec.md:5`). The gateway passes raw text when the current configuration is
  private; the router reads the current configuration again. What remains true is
  `RawLeavesOnlyByASwitch`: this is the only way.

Noted without a run of their own:

- Each creation or disabling of an account, assignment of a role and reset of a password must be
  written to the audit (`openspec/specs/rbac-authorization/spec.md:53`). The code writes the change and
  then the audit (`management.go:59-70`, `78-86`, `93-102`, `116-124`), in two transactions: where the
  audit cannot be written, the change stays in force and unaudited, and the administrator gets an
  error. `AuditTellsTheTruth` allows this in its second part and does not show what the specification
  wants; `change \in audits \/ requests[change.by].at = "audit"` for each change is violated by
  one disabled account.
- Entities that were hit are to be replaced (`openspec/specs/desensitization-gateway/spec.md:39`). `MergeHits`
  replaces a kept hit by a better one (`merge.go:36-38`) and does not look again at the hits that had
  lost to it: of three hits of which the second overlaps the first and the third, the first may lose to
  the second and the second to the third, and the text of the first stays. `MergeKeepsTheUnbeaten`
  says what is kept: of hits that beat whatever else they overlap, at least one.
- An original whose Put was stored and not answered is answered as `store_failed` and stays
  (`service.go:325-329`), against nothing the documents say. `OrphansAreExplained` names it.
- A batch import must be idempotent when it is tried again (`corpus-ingestion/spec.md:11`). When the
  checkpoint of a stored document cannot be written, sending the batch again overwrites the document's
  original, fails on the primary key, and the compensation deletes the original. It is one of the
  exceptions `SavedHasItsOriginal` names. The full rebuild then stops at that document each time
  (`outbox.go`, `FullRebuilder.RebuildAll`).
- The compensation runs in the context of its caller (`service.go`, `compensateObjectWrite`), so a
  cancelled call does not compensate: the object stays, which `OrphansAreExplained` counts as a failed
  compensation.
- Of nested hits the longer is to be taken (`c02-desensitization-gateway/design.md:64`). `betterHit` looks at
  the length only within a layer; the order of the layers comes first, as the same line also says.
  `Beats`, with which `MergeKeepsTheUnbeaten` is stated, is that order.
- In the workbench, "describe again" while a request is out leads to a dead end: the late answer shows
  a question without a document type, every further request is refused, and that page has no way to
  begin anew. `DialogueEnds` and `AnswersAreKept` exempt exactly the dialogues in which the user went on
  while a request was out, and are violated without that exemption.
- The last administrator can be disabled or assigned another role; `LockoutIsMutual` says by whom.
  After the role was taken from the last one, the next start creates a new administrator under the
  configured name if that is free; after it was only disabled, none (`BootstrapIsTheFirst`).

What a property leaves out because the code does it:

- `LateFailuresDoNotProlong`: the failure of a probe that returns late, which opens the breaker whatever
  its state is by then.
- `RegistryAgreesWhenQuiet`: a registration that LiteLLM took and whose answer was lost.
- `DisabledGetsEarlierCallsOnly`: a call whose configuration was read before it was disabled.
- `OnlyALostDeletionRevives`: an update that had read the entry before its deletion was saved.
- `LeftBehindOnlyWhen`: goroutines whose caller has gone away, or whose held-back text met an error.
- `RestoreUndoesApply`: texts in which something looks like a placeholder.
- `SavedHasItsOriginal`, `DriftNeedsAStaleWrite`: another writer under the key, a commit not answered; a
  stale copy written. That the index gets over the latter is `IndexConverges`.
- `ShortageIsMarked`: a re-ranking service that names a hit twice.
- `NeverOpenAtThreshold`: nothing, but logins admitted together get more tries than the threshold, and a
  late success clears the failures of others; neither is forbidden.
- `OneRoleUnlessOverlapped`: two role changes of one user at once.

## 4. Proofs

A theorem holds for every value of the constants that satisfies the ASSUMEs of its module.

- **Breaker** (`FailureThreshold` and `OpenInterval` positive, `CallTimeout` natural, any set of callers).
  `HalfOpenIsNeverStuck` and `WindowIsNotProlonged` follow from the type invariant and
  `NeverStuckHalfOpen`, which is inductive with it. `SingleProbe` is not inductive: nothing in the
  state of the breaker alone keeps a late success from closing it under its probe. The strengthening
  `ProbeStartsAlone` relates the two clocks: with a timeout below the interval, every call that is out
  while the breaker is open returns before the breaker may probe, so a probe starts alone and nothing
  else is out while it runs.
- **ModelConfig** (`None \notin Endpoints`, `Endpoints # {}`). The invariant is `TypeOK` with `Marks`: the
  marks are consistent in every row *and in every copy* an operation carries, at most one row is
  current, and whatever may become current by a write has been registered. Without the copies it is not
  inductive, because it is the copies that get written. From it follow `CurrentStaysEnabled`,
  `CurrentStaysRegistered`, `CurrentChangesOnlyBySwitchOrStaleWrite`, and the refinement
  `ModelConfigImplementsConfigTable`: each action is a step of `ConfigTable` or a stutter.
- **GatewayRouting** (`PrivateConfigs \subseteq Configs`, `Hardened \subseteq Levels`,
  `None \notin Configs`). The invariant says of each call what its step, target, route, text and event
  may be together (`CallFits`), and of everything sent how it relates to the call that sent it
  (`SentFits`). From it follow `OriginalsLeaveOnlyByASwitch`, `HardenedStaysInside`,
  `NothingLeavesUnaudited` and `DisabledGetsNoLaterCall`. For the last, `CallFits` says of a call about to be
  sent that its copy is enabled or was disabled after it was read; that it was enabled when read uses
  that the table's current configuration is, which the first proof establishes of the service: the two
  compose.
- **CorpusIngestion** (`Docs # {}`, `Keys # {}`, `NoCall \notin Calls`, `AdoptionKey \in [Docs -> Keys]`, which
  need not be injective). `SavedHasItsOriginal` speaks of stored documents, but whether a document has
  its original when it is stored is settled before: between writing the object and the commit another
  call may delete it. The invariant `OriginalInv` therefore says of every call that is about to commit
  that it still holds its object or shares its key with another call that wrote (`SavingHolds`), of
  every call that may delete that it has written under its key (`CompensatingHasWritten`), that objects
  and rows are there only of calls that wrote them under that key (`ObjectsAreWritten`, `RowsAreWritten`),
  and that no call has written before its time (`NothingTooEarly`). From it follow
  `SavedDocumentHasItsOriginal` and `OrphanedObjectsAreExplained`.

- **ModelConfig, the registry.** `RegistryAgreesWhenQuiet` is about the moments in which no operation
  runs, and follows from `Quiet`, which is about the others: as long as operations run one at a time,
  the one that runs works on an up-to-date row (`OneAtATime`, `BasesUpToDate`), only an update moves an
  endpoint (`OnlyUpdatesMoveEndpoint`), what has been synchronised is what will be saved
  (`SyncedIsRegistered`), and the current configuration agrees with LiteLLM unless the operation on it
  has told LiteLLM already (`CurrentAgrees`). Proved as `RegistryAgrees`.
- **Dictionary** (`None \notin Terms`). Three invariants for three properties. `Alone`: until an operation
  alone has written, the automaton is the active rows, and what it has listed is. `ListHasOwn`: a list
  on its way to the automaton may be old, but not in what its own operation wrote and nobody has
  written since. `Revivals`: an import writes what nobody has, a deletion writes deleted entries, and an
  update about to write an active entry over a deleted one has missed the deletion.
  From them `MatcherIsUpToDateWhenAlone`, `ReportedChangesAreInForce`, `DeletionsAreLostToUpdatesOnly`.
- **The stream of a draft** (`MaxDeltas` positive, so drafts of any length; any text the gateway holds
  back). A request is a behaviour of the stream (`RequestIsAStream`), so the theorems about the stream
  are about the composition. `StreamInv` relates the goroutines: what a sender still sends fits how it
  goes on (`ProviderSends`, `GatewaySends`), a channel holds at most what has not been read and ends
  with the terminal event (`Queue`), the first event carries the metadata (`First`), and a terminal event
  is still to come or has passed (`Coming`). `Chain` cuts the text into what the caller read, what is in
  the channel, in the orchestrator's hand, held or being sent by the gateway, and still to be read from
  the provider: these are consecutive numbers, which is what makes `CompleteWhenDone` inductive. From it
  `OneTerminalEvent`, `MetadataComesFirst`, `DraftIsComplete`, `OnlyTheseAreLeftBehind`; with `TextInv` (texts
  are sequences of pieces) `StreamTypeCorrect`.
- **The dialogue of a draft.** `TalkInv` says of the desk *and of every request that is out* that the
  answers they carry are those the user gave; a late answer is what could undo one (`AnswersStay`).
- **The search of a draft** (any corpus, any ranking, any thresholds). `SearchInv` says at each place of
  the search whether its hits avoid what was deleted before (after the filter they do), are distinct
  (until the re-ranking, which may repeat some), and are marked; `PlanInv` carries this to the plan
  that is assembled from the answer. Filtering and adding without repetition are recursive functions.
  What they keep is proved by induction on their argument: the library's induction theorems take an
  operator as a parameter, so `Least` and `Upwards` first establish, from the well-foundedness of the
  naturals, that a set that contains 0 and successors contains all, and the lemmas use that for the
  set of arguments they hold for. From it `DeletedAreNoExamples` and `TooFewAreMarked`.
- **CorpusIndex** (`Absent` and `Deleted` are two and no classes; `Absent \notin Events`, without which an
  idle processor could not be told from one that has taken an event). `DriftNeedsAStaleWrite` holds step
  by step from `TypeOK` and `DeletesDelete`: a soft delete in hand carries `Deleted`, whatever the row is.
  Proved as `OnlyStaleWritesDrift`.
- **Accounts** (`Threshold` and `Window` positive, `Root` a user, `Granted` some users, `Nobody` no
  user and no request). The invariant has a part for each property, and they lean on one another.
  `Limited`: what will still count when the block ends is less than the threshold; that nobody is
  *open* at the threshold is not inductive, because a block runs out by the clock alone. `Audited`:
  who is about to audit has changed what it will say, who has answered has said it, and each change
  belongs to a request that has got that far. `WasActive`: disabling is for good, so whoever is let
  in was active when it came. `OneRole`: of a user whose role changes did not overlap there is one
  row, and the request that replaces it has seen that row. `Administering` and `Starting`: every
  administrator there ever was, whom a request came as included, is one or had another role assigned
  to it, every account disabled has a change that says so, and a bootstrap that has found no
  administrator will find no account or a change of roles. From them `NoTryAtThreshold`,
  `AuditIsTrue`, `DisabledAreRefused`, `OneRoleEach`, `BootstrapComesFirst`,
  `OnlyAdministratorsLockOut`.
- **The sanitiser** (`SymbolsAssumption`: a character is neither a bracket nor a placeholder's
  number; `AnswersAssumption`: what was replaced in the request whose answer arrives are non-empty
  texts of characters, and their placeholders have the form that `placeholderFor` gives them). A
  request may have any text, the look of a placeholder included. Three invariants for three
  properties. `MergeInv`: what has been merged does not overlap, what is still to be merged is
  sorted and begins no earlier than what has been merged, and each hit is kept, still to come, or
  overlapped by one that beats it (`Beaten`). As the merged hits are apart and begin no later, a hit
  overlaps at most one of them (`OneOverlap`): this is why comparing with the first is enough, and
  why a hit may be dropped or replaced for good. That the stable sort puts every element in one
  place is `InPlace`: the elements ahead of a position are a strict order, and their numbers take
  each place once. `Beats` is a strict order, so any set of hits has one that no other of them
  beats; if nothing outside beats it either, it is kept (`NoneBeatsTheBest`). From it
  `TheUnbeatenAreKept`. `AnswersInv`: the answer is a part that has been emitted, restored, and the
  tail, and the emitted part is `Shut` (it ends neither with the opening bracket of a placeholder
  nor with the bracket and a number), or the tail begins with a bracket, or there is nothing to put
  back. Restoring distributes over such a seam (`CutAnswersJoin`), also after some of the
  placeholders have been replaced: this is where the originals must be characters, as an original
  that ends with a bracket makes a seam that is none. From it `AnswersCome`. `UndoInv` rests on
  `Doing`, an invariant of the loop over the hits: the text so far has every placeholder complete,
  no two mappings share a placeholder, and restoring the text so far gives the text up to the
  cursor. A mapping that is added has a number that no other of its type has (`NewMappingFits`), so
  it changes nothing of what could be restored before. From it `TextIsRestored`. The lemmas about
  texts are inductions over the length of a prefix, by `AllNumbers`, which follows from the least
  element of a set of numbers as above.

Only model-checked: liveness under fairness, which is out of the prover's reach, as is ENABLED:
`Recovers`, `DialogueEnds`, `CancellationIsAnswered`, `IndexConverges`. And the three runs in which the code
does not do what is said of it, whose counterexamples are TLC's.

## 5. Plan

The modules planned are written, and every safety and action property the passing runs check is proved.
What could still be added:

1. The steps of the liveness arguments that are not temporal: for `Recovers` that the clock and each
   booking move the breaker towards `Closed` while the NER answers, for `IndexConverges` that a
   reconciliation without a fault leaves nothing damaged among what it has listed.
2. `RestoreUndoesApply` over several messages that share a mapper, of which the model has one.

### Not modelled

- Provider wire formats and SSE parsing, embedding requests, the Milvus schema, SQL migrations:
  encoding without state.
- The structure contracts, validation of a parsed text and the wording of prompts (`structure_contract*.go`,
  `prompt_template.go`): sequential, no state, nothing another component waits for.
- `GenerateDraft` without a stream: it keeps nothing, and its model call is the `Complete` of `GatewayRouting`.
- How candidates are scored, sorted and deduplicated, and the rules for directions (`candidates.go`,
  `direction.go`): their outcome is nondeterministic in `Clarification`.
- Listing users and audits, which only reads; the in-memory stores, which are test doubles; the
  external identity adapter, which only reads a mapping and which nothing in the repository uses.
- The other pages of the frontend, which show what the interface answers and keep nothing.
