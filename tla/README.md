# Formal models of Ctxward

TLA+ modules that model the gateway, its transparent proxy, the desktop
application and the browser extension, TLC runs that check them on
small instances, and TLAPS proofs of their safety properties for every
instance. Paths are relative to the repository root; line numbers of every
definition are in `PROJECT.json` under `map`.

## 1. The system

Ctxward stands between an application and an LLM upstream. A request is
authenticated, scanned, judged by the built-in policy, by the session's
history and by OPA, and then blocked, held for review, masked or forwarded;
the response is scanned the same way. Everything it decides is audited.

| Part | State | Operations | Talks to |
|---|---|---|---|
| Reverse proxy (`src/proxy.rs`) | per request: runtime snapshot, principal, policy outcome | `proxy_handler`, `handle_proxy`, buffered and SSE responses | session store, review store, OPA, Presidio, upstream, audit sink |
| Application state (`src/app.rs`) | current runtime behind a lock, stores shared for the life of the process | `build_state`, `reload` | configuration file, audit ring |
| Review store (`src/review.rs`) | tickets, queue order, pending and override index under one mutex; JSONL event log | `new` (replay), `upsert_pending`, `get`, `lookup_override`, `resolve`, `list`, `set_capacity` | file system; proxy and admin handlers |
| Session store (`crates/ctxward-core/src/session.rs`) | labels and last use per session id under a mutex | `record_and_check`, `active_sessions` | proxy |
| Policy and OPA (`crates/ctxward-core/src/policy.rs`, `types.rs`, `src/opa.rs`) | none | rank, combine, resolve, merge, failure modes | proxy |
| Audit (`src/audit.rs`) | ring of recent records; one channel and writer task per loaded configuration; file | `emit`, `set_capacity`, writer loop | proxy, reload |
| Admin API (`src/proxy.rs`) | none of its own | resolve a ticket, reload, status, list reviews and audits, detokenize | review store, session store, application state, audit ring and file |
| Authentication (`crates/ctxward-core/src/auth.rs`) | keys and principals of the runtime | `authenticate` | proxy, admin API |
| Payload pipeline (`src/proxy.rs`, `src/attachments.rs`, `src/presidio.rs`, `crates/ctxward-core/src/{detect,redact,tokenize}.rs`) | none | body in; findings, decision and masked body out; token in, value out | both proxies, admin API, extension |
| MITM mode (`src/mitm/`, `src/proxy_mode.rs`) | host classifier, version of the rule-set, CA files | tunnel or intercept, filter both ways, hot updates | payload pipeline without OPA, session and review; rule-set URL |
| Desktop (`desktop/src-tauri`, `src/platform.rs`) | handle of the running proxy, pump cursor, flag for the system proxy; settings of the operating system | start, stop, set, clear, install, teardown; audit pump | MITM mode, operating system |
| Browser extension (`ext/`) | pending requests of the page, queue and rules of the isolated script | wrapped `fetch` and `XMLHttpRequest`, bridge with timeout | web pages, `redact_json` in WASM |

What is hard about it:

* **Interleaving.** A request makes several separate accesses to shared state
  (ticket by header, override by fingerprint, filing a ticket), each under its
  own lock acquisition; administrators, other requests, the clock and reloads
  come in between. A request keeps the runtime of its snapshot but is
  authenticated against the current one.
* **Crash and partial failure.** The review log is appended with two writes
  per line and without sync; `resolve` changes memory before the append;
  `upsert_pending` after it. Replay trusts the log alone.
* **Two writers.** After a reload the old audit sink still serves requests in
  flight, on the same file as the new one.
* **Streams.** The upstream cuts an SSE response wherever it likes, may break
  off, and the client may leave.
* **Limits.** Both stores evict, overrides expire, the ring resizes; pages of
  an attachment share one limit of characters.
* **Overlap.** Two engines report spans that overlap, reach beyond the text, or
  stand in parts of one name; one part fails while others are masked.
* **Late news.** Rule-sets arrive in any order while requests are in flight;
  the bridge answers after the timer; a stop comes before the listener is up.
* **State outside the process.** CA files and system settings are written in
  several steps, each of which may fail or be the last before a kill.

The full list, with the line where each one bites and the properties aimed at
it, is `PROJECT.json`, `hazards`.

## 2. Modules

| Module | Models | Composed of |
|---|---|---|
| `ReviewStore` | `src/review.rs`, log and process life included | |
| `ReviewLedger` | abstract: filed once, decided once, never withdrawn | implemented by `ReviewStore` |
| `SessionOps`, `SessionStore` | the session table as functions of its value; the store under any order of calls | |
| `Policy` | decisions of built-in policy and OPA, operators only | |
| `Gateway` | the request path, buffered responses, verdicts, listings and reloads | `SessionOps`, `Policy`, `INSTANCE ReviewStore` |
| `SseStream` | the streamed response of both proxies, unit by unit | `Policy` |
| `AuditLog` | ring, channels, writer tasks, file, reload, crash, the audit listing | |
| `Payload` | what a body becomes: operators only | `Policy` |
| `Mitm` | transparent proxy, classifier, rule-set updates, restart; the forwarding rule of the reverse proxy over the same bodies | `Payload` |
| `ExtBridge` | page, isolated script, messages and timers | `Payload` |
| `Desktop` | runs of the proxy, CA files, audit pump, system settings | |
| `MC*` | constants and symmetry for TLC | |
| `ReviewStoreProofs`, `SessionStoreProofs`, `AuditLogProofs`, `MitmProofs`, `ExtBridgeProofs`, `DesktopProofs`, `SseStreamProofs` | theorems about the module of that name | extends it |
| `GatewayProofs` | theorems about `Gateway` | extends it, `INSTANCE ReviewStoreProofs` |

### ReviewStore

`inner` is `ReviewStoreInner`: capacity, order, tickets and the two indexes.
`log` is the file as a sequence of lines, `openLine` says that the last one
lacks its newline. A line is a `created` event, a `resolved` event, `Garbage`
(does not parse; replay skips it) or `BadUtf8` (replay stops there, because of
`map_while(Result::ok)`). `append_review_event` ends in one of the outcomes of
`WriteOutcomes`: complete, refused without a byte written, or cut at each
point where the two writes can be cut, with the process dead or still alive.
A write that continues an unfinished line makes it `Garbage`. Methods hold the
mutex for their whole body and are one action each. `new`, `load_line` and
`loaded` are `ReviewStore::new`, possibly with another capacity; the process
may die between any two of them. `acked` and `asked` are history: the events
whose append was reported successful, and the verdicts administrators asked
for. Time is counted in ticks. `issued` keeps ticket ids fresh, as uuids are.

### SessionOps and SessionStore

`retain`, `make_room` and `insert` are the three parts of `record_and_check`.
Which of several equally old sessions is evicted is a choice, as it depends on
hash order. A call works with any time up to now: it reads the clock before it
waits for the mutex, so calls may reach the table in another order, and an
entry may be dated before another that is already there. `calls` is the history
against which the result is judged, `swept` and `forgotten` tell which sessions
lost an entry to another session's call.

### Policy

A finding is its label; a text is the set of labels still readable in it.
Masking is what `redact_text` does to that set, so `redact` and `tokenize` are
one thing here. OPA's replies are its decisions, no result, or an error.

### Gateway

`req[r]` is what one call of `proxy_handler` holds, with a `stage` naming the
next step. Each action runs to the next access to shared state: `accept`
(snapshot), `authenticate` (current runtime), `scan` (session store),
`consult_opa`, `check_ticket` (`get`), `check_override` (`lookup_override`),
then one of `block`, `review_again`, `review_new`, `forward` and
`upstream_url_fails` (the request is recorded, but its path makes no URL), and
after `forward`, `respond` or `upstream_fails`. Early returns are explicit, with
the audit record the code writes or does not write for them. `runtime` is swapped by `admin_reload`
between any two of these steps. A fingerprint is the pair of tenant and
content, which is what `review_fingerprint` hashes. Authentication takes the
last of the configured keys that match, and administrators act under a key of
their own: `admin_reviews_resolve`, `admin_reload`, `admin_status` and
`admin_reviews`. The last two and `readyz`, `refresh_metrics` only look, but
prune sessions and overrides on the way, and are actions for that. `list` is
the set of the newest tickets of a status, as many as were asked for; the order
in which they are shown is not in the model. The endpoint itself shows 50 by
default and never more than 500, so `ToldTicketDecidable` is about the store,
asked for as many tickets as the queue may hold.

### SseStream

The upstream's text is a sequence of units: the halves of values, plain text,
field names and newlines. A value is found, and is readable by the client, where
its halves stand side by side; what the client has read is one text, so a value
that was filtered line by line and joined again would show. `seen` keeps of each
yielded line its text and how much of the stream was taken with it (`Taken`).
`chunk` takes any non-empty prefix of what is left;
`yield_line` is one turn of the inner loop, `flush` the rest of the buffer,
`emit` the record. OPA answers per event. What waits for the upstream is
`Receive`, what works on the buffer is `Process`: fairness tells them apart. The
loop of `src/mitm/sse.rs` is the same without OPA, and meters usage: a unit says
whether an event reports usage, and how many of them were counted is state.

### AuditLog

`emit` is two actions, as push and send are not atomic. Each sink has a
channel and a task that writes text and newline in two actions. `reload` opens
a second sink, `reload_fails` is `from_config` failing after it resized the
ring, `crash` loses channels and ring. `admin_audits` is what an administrator
would be told in a state: ring, file, or both merged by time without doubles.
Filters, the thinning and the choice of the lines that parse are `Selected`, the
elements of a sequence at given places.

### Payload

A text is its length and its hits, half-open spans with a label and the engine
that would report them; a mask is a set of positions. `redact_text` takes the
findings in the order of `precedes` and skips what overlaps an earlier one;
`process_payload` is the decision and the masks over all texts of a body, or a
failure. Parts of a multipart body are text, PDF pages or OOXML nodes, with
what the libraries can do with them (`state`): read, rewrite, or neither. A
token is its head, key and prefix, and `detokenize` opens it under the same key
and prefix only. `loads` says which configurations make a runtime. Each text of a
part is limited by what the earlier ones left of `max_text_chars`.

### Mitm

`ex[e]` is one exchange of the transparent proxy or of the reverse proxy
(`front`). `handle_request` filters under the classifier of the moment and
waits; forwarding reads the classifier again, to know whether the host signs
its bodies; `poll` may have swapped it. What of a body is masked (`sent`) and
how it is written (`came`, `went`: compressed or not, JSON as serde_json writes
it or not) are kept apart: `decode_request` takes off the compression before
anything is filtered, `to_vec` writes JSON anew whether masked or not, and
`sent_on` is what leaves. A reply is followed by its masks only. `restart` begins a new process with
another configuration that loads, and version 0; as the updater takes only
newer rule-sets, one of version 0 never changes anything (`usable`).

### ExtBridge

`tasks` is the queue of messages of the window, `pending` the map of the MAIN
script from ids to requests. The isolated script is absent, booting, ready or
failed; what comes while it boots waits in `queue`. An answer is the body under
`redact_json` with the loaded rules, empty if that throws, or the body itself
if the rules do not compile.

### Desktop

A run is one start: its task goes through the CA files (read, or write key, set
permissions, write certificate), binds and serves; its pump shows the ring. A
file holds the generation of its writer, `Torn` after a kill. System commands
are lists for each operating system, applied one by one; each may fail, be
ignored or be refused. `panel` follows either the proxy or the system commands
in one behaviour: the two share only the end of the process, and the product of
their states shows nothing new.

## 3. Runs

All passing runs are exhaustive for their constants. Deadlock is checked
except where the system really stops (a stream that ended, a process that may
not be started again).

| Run | Shows | Bounds, and why they are enough |
|---|---|---|
| `review_crash` | `IndexSound`, `QueueExact`, `VerdictFinal`, `OverrideAsked` under all append outcomes, crash and restart with capacity 1 or 2 (0 is raised to 1) | 2 tickets, 2 fingerprints, 3 lines: one filing, a torn line, and a line glued to it |
| `review_durable` | `AckedSurvives`, `OneTicketPerRequest`, `RestartRestoresOverride`, refinement `LedgerSpec`, where an append completes or writes nothing and nothing is evicted | 3 tickets for 2 requests, 4 lines: two tickets of one request filed and decided, or three filed |
| `session_store` | `EscalationExact`, `TableBounded` | 3 sessions in a table of 2, 4 calls, every time up to 2 ticks with a TTL of 1: pauses longer than the TTL, and calls overtaken at the lock |
| `gateway_review` | `NoUnapprovedExposure`, `ToldTicketDecidable`, `AuditTrail`, `ResponseContained` | 2 requests of 2 colleagues, 2 contents, 2 tickets in a queue of 1, refused appends, reload to a stricter configuration with OPA on responses |
| `gateway_session` | `StrictestHolds`, `SplitDefeated` | 2 requests with one label each, threshold 2, OPA in both failure modes, reloads |
| `sse_stream` | `StreamFiltered`, `StreamConserved`, `StreamAudited` (usage is counted once, too), and in the end `StreamEndsAudited` | 4 streams with values cut in every place and side by side, unterminated last lines, a value in a line of another field, usage reported as none and twice |
| `audit_log` | `RingIsRecent`, `FileOrder`, `TrailTold`, and in the end `AuditReachesFile` | 2 requests with 2 records, 2 sinks, capacities 0 and 2, failed writes, crash |
| `mitm` | `FoundIsMasked`, `MissedOnlyBeyondLimit`, `FailureStopsAll`, `FloorHeld`, `LatestSigned`, `AuditAgrees`, `TokensReturn` | 1 exchange (exchanges share only the classifier, which the updater changes at every point of it), bodies with pairs and chains of overlaps, each as it may be written (compressed or not; JSON in another layout or not), 16 multipart bodies, 2 replies that mask and 1 that fails, 6 rule-sets of which 2 have the same version and 1 has version 0, 4 configurations that load and 4 that do not |
| `extension` | `NoRawBody`, `OwnBody`, `SettledOnce`, and in the end `EverySettles` | 3 calls, so that two wait while a third is settled; injection and boot at any moment or never |
| `desktop` | `AuthoritySound`, `ExitLeavesNoProxy`, and in the end `FeedComplete`, `StopStops` | 2 starts, so that one overlaps the other; 3 records in a ring of 2; 2 system calls on each of 3 operating systems, with and without a proxy of the user's own |

Two runs state what a document says and TLC refutes: see `findings` in
`PROJECT.json` for the quoted lines.

| Run | What happens |
|---|---|
| `gateway_replay_principal` | a colleague of the same tenant passes on another's approval |
| `attachments_parts` | two text attachments of one name: the spans of one are masked in the other, and a value stays readable |

The type invariant of each module is a run's property of its own only for
`ReviewStore`; elsewhere `TypeOK` is a conjunct of the invariant that leans on
it (`TableBounded`, `AuditTrail`, `StreamConserved`, `RingIsRecent`,
`MissedOnlyBeyondLimit`, `OwnBody`, `AuthoritySound`).

Every property of a passing run has a mutant: a definition named "Mutant" in
its module, standing for a plausible bug, under which TLC finds the property
violated.

### Fairness

* `AuditLog`: weak fairness of each writer task. The tokio runtime polls a
  task whose channel has a record; nothing else in the task blocks. No
  fairness of requests, reloads or crashes: `AuditReachesFile` excepts records
  a crash or a failed write lost.
* `SseStream`: weak fairness of `Process`: a client that stays keeps polling
  the body, and Presidio and OPA answer or time out. Weak fairness of `Receive`
  only in the reverse proxy, whose reqwest client has a timeout
  (`src/app.rs:118`), which is the broken-off stream of the model. The
  transparent proxy reads from hudsucker's own client, which has none: its
  upstream may stall for good, the stream then has no record, and
  `StreamEndsAudited` speaks of it from the end of the upstream on, and of the
  lines that came before. A client may leave at any time.
* `ExtBridge`: weak fairness of the timers as a whole and of message delivery:
  the browser runs both. That the isolated script is injected or boots is not
  assumed, so `EverySettles` rests on the timer alone where it does not.
* `Desktop`: weak fairness of each run's task, of its graceful shutdown and of
  its pump: the runtime polls tasks that are ready. That the connections of a
  listener end after it was told to stop is an assumption about clients and
  upstreams: the code sets no timeout on a plain HTTP exchange. `StopStops` is
  about stops that come before the listener is up, which do not depend on it.
  None of the user, of system commands or
  of a kill.
* `ReviewStore`, `SessionStore`, `Gateway` and `Mitm` state safety only.

## 4. Proofs

TLAPS proves, for every value of the constants that the named assumptions of
the modules allow, the properties below. The runs show each of them on a small
instance as well.

| Module | Theorem | States | Under |
|---|---|---|---|
| `ReviewStoreProofs` | `TypeCorrect` | `[]TypeOK` | |
| | `OneVerdictPerTicket` | `[]VerdictFinal` | |
| | `IndexesSound` | `[]IndexSound` | |
| | `OverridesAsked` | `[]OverrideAsked` | |
| | `QueueStaysExact` | `[]QueueExact` | |
| | `AcknowledgedSurvives` | `[]AckedSurvives` | `WholeAppends` |
| | `LogImplementsLedger` | `LedgerSpec`, the refinement of `ReviewLedger` | `WholeAppends` |
| | `OneTicket` | `[]OneTicketPerRequest` | `WholeAppends`, `RoomForAll` |
| | `RestartRestores` | `RestartRestoresOverride` | `WholeAppends`, `RoomForAll` |
| `SessionStoreProofs` | `TableNeverOutgrows` | `[]TableBounded` | |
| | `SplittingDoesNotHelp` | `[]EscalationExact` | |
| `GatewayProofs` | `NothingLeavesUnapproved` | `[]NoUnapprovedExposure` | |
| | `StrictestWins` | `[]StrictestHolds` | |
| | `ResponsesContained` | `[]ResponseContained` | |
| | `SplitPayloadsDefeated` | `[]SplitDefeated` | |
| | `TrailTellsTheTruth` | `[]AuditTrail` | |
| | `ToldTicketsCanBeDecided` | `ToldTicketDecidable` | |
| `SseStreamProofs` | `OnlyAllowedIsStreamed` | `[]StreamFiltered` | |
| | `NothingLostInTheBuffer` | `[]StreamConserved` | |
| | `StreamTold` | `[]StreamAudited` | |
| `AuditLogProofs` | `RingHoldsLatest` | `[]RingIsRecent` | |
| | `TrailInOrder` | `[]FileOrder` | |
| | `TrailIsTold` | `[]TrailTold` | |
| `MitmProofs` | `NewestRuleSetInForce` | `[]LatestSigned` | |
| | `FloorCannotBeLowered` | `[]FloorHeld` | |
| | `UnreadableStopsAll` | `[]FailureStopsAll` | |
| | `RecordsTellTheTruth` | `[]AuditAgrees` | |
| | `TokensComeBack` | `[]TokensReturn` | |
| | `NothingFoundIsReadable` | `[]FoundIsMasked` | |
| | `FindingsLieInTheirText` | `[]TypeOK` | |
| | `NothingMissedWithinTheLimit` | `[]MissedOnlyBeyondLimit` | |
| `ExtBridgeProofs` | `BodiesNotMixed` | `[]OwnBody` | |
| | `SettledForGood` | `SettledOnce` | |
| | `NothingRawLeaves` | `[]NoRawBody` | |
| `DesktopProofs` | `AuthorityHolds` | `[]AuthoritySound` | |
| | `ExitCleansUp` | `[]ExitLeavesNoProxy` | |

Every proof has the same shape: an invariant that TLC checked first, a lemma
for each action that says the action preserves it, lemmas that describe what the
helpers return so that the steps never look into them, and a theorem that takes
the property from the invariant.

### Assumptions

The constants are as the code makes them: capacities, TTLs, thresholds and
versions are naturals, `None` is none of the values it stands beside, write
outcomes are those the module names. Beyond that:

* `ExtBridge`: the requests of a page are finitely many, as ids are counted. The
  browser has neither Presidio nor a tokenizer, and the bundled rules
  (`default-rules.json`) tokenize nothing. A match lies in its string.
* `Mitm`: the baked-in patterns compile (`classify.rs` lists only exact names and
  wildcards); the hits of a body have a rule in every configuration; a detector's
  match is not empty and lies in its text, of which nothing is assumed where
  Presidio reports it. Only a PDF or an OOXML part can be broken; the hits of a
  PDF page lie in it, as the page is searched for what was matched
  (`redact_pdf_page` in `attachments.rs`); a part of any other kind is one text.
* `SseStream`: a usage object closes its event, so a newline follows it; the
  actions of a rule are among the four there are.
* `Gateway`: the labels of the detectors are finitely many. `SplitDefeated` is
  about sessions that are never evicted and never expire, which is the condition
  `SessionsKept` of the property itself, and implies that they are finitely many.
* `Desktop`: the platform is one of the three; the ring has room for a record.
* `WholeAppends`: an append to the review log completes or writes nothing.
  Without it `AckedSurvives` is false of the code (section 5: a process killed
  between the text and the newline), and so is the refinement.
* `RoomForAll`: the queue has room for every ticket. With eviction
  `OneTicketPerRequest` is false of the code (section 5). Both are the constants
  of the run `review_durable`; the run `review_crash` has neither.

### The invariants

None of the properties is inductive alone.

* `ReviewStore`. `VerdictFinal` needs that a ticket whose verdict is in the
  readable log is not pending in memory, or `resolve` would append a second one:
  `MemorySound`. While loading, that holds only of the lines replayed so far
  (`Seen`), and replay of a `created` line must not reset a ticket that has its
  verdict, which holds because a ticket is filed once and before its verdicts:
  `LogSound`, which also knows that every verdict was asked for.
  `QueueExact` is inductive together with them. `DurableInv` adds that every line
  is whole (`CleanLog`), so that what was acknowledged is read again, and that
  memory has no ticket that was not filed and no verdict other than the log's
  (`Filed`, `VerdictsHeld`); the refinement maps the readable log, and each
  action to `File`, `Decide` or a stutter. `RoomyInv` adds that nothing is
  evicted (`Unevicted`), that a request is filed again only after its earlier
  ticket was decided (`Refiled`, of the log), and that the pending index leads to
  every ticket whose verdict memory has not seen (`Waiting`, also half way
  through a replay). `RestartRestoresOverride` is a property of the last step of
  a replay; the invariant behind it is of every line of one (`Restored`): each
  verdict that is the last on its request so far has left its override.
* `SessionStore`. `Bounded` counts the live entries through `retain`,
  `make_room` and `insert`. `Charged` says what an entry holds: the labels of
  the session's unbroken turn, dated by its last call (`Exact`), and for a
  session that lost an entry only that the labels are its own (`Dated`).
* `Gateway`. Every step of the gateway is a step, or a stutter, of its review
  store, so `ReviewStoreProofs` gives what is known of that store (`StoreOK`).
  The rest is about each request by itself: what a stage has behind it
  (`Staged`), what it took from ticket, override, session and OPA (`Sent`,
  `Scanned`, `Answered`, `Identified`), and that the approvals and the log it
  relies on only grow. For `ToldTicketDecidable`, `Waits`: what the pending index
  leads to is undecided, but for a verdict that could not be written. As the
  queue never exceeds its capacity (`QueueExact`), such a ticket is among the
  newest that `list` selects, whatever their times.
* `SseStream`. The lines taken, the buffer and what the upstream still has share
  out what was sent (`Places`), each line was filtered when it was taken
  (`Kept`), and nothing follows a line without a newline of its own (`Broken`),
  so no value comes together again across two lines. The record follows from
  `Allowed`, `Counted` and `Recorded`.
* `AuditLog`. The ring is a suffix of the history (`Recent`), which survives a
  push, the loss of the oldest record and a resize. For the file, `Order` follows
  a record from request to channel to file: each is in one place only (`Once`),
  a channel holds only records of requests that hold its sink, and no more than
  they sent (`Sent`), a first record that was sent is in that channel, in the
  file or lost (`FirstFound`), and in channel and file it precedes the second
  (`InOrder`). `FlattenSeq` is defined by recursion over the lines; what a text
  or a newline at the end does to it is proved by taking the least line that
  would be wrong (`Least`, `JoinsAgree`, `FlattenLine`, `FlattenText`). For what
  an administrator is told, the history of pushes holds every record once and in
  the order of its request (`Pushed`), and a lost record is in no channel and not
  in the file (`LostGone`). The ring, the lines that parse, a filter, the limit
  and the thinning of doubles each show elements of such a sequence at increasing
  places (`Drawn`), and that neither adds, repeats nor reorders (`DrawnKeeps`);
  `Selected` counts the places it chooses, and that they increase and miss none
  is proved by the least place where it would fail.
* `Mitm`. The classifier is that of the newest usable rule-set (`Current`), and
  what an exchange holds agrees with the classifier and the configuration it was
  filtered under (`ExchangeOK`: `Floored`, `Audited`, ...), also if both have
  changed since. For the masks, `HInv`: what an exchange holds, has sent and has
  shown is each the result of one filtering, under the configuration of that
  filtering. What remains is about one text: `redact_text` skips a finding only
  for one it kept that overlaps it (`KeptCovers`), PDF pages repeat the masks of
  what they matched (`PageCovers`), and the limit of characters runs on from one
  text of a part to the next (`LimitShared`). The functions are recursive, and
  each is proved by the least argument at which it would fail.
* `ExtBridge`. The pending map holds exactly the waiting requests, each under an
  id of its own (`PendingExact`), and a message is about the request that waits
  under its id, if any still does (`MessagesOK`). That an answer leaves nothing raw
  which the rules find rests on `redact_text` reading only the span and the action
  of a finding, so that findings alike in both mask alike (`SameKept`).
* `Desktop`. The runs and the CA on one side (`FilesOK`: the certificate comes
  last; `PairOK`: without an overlap a task knows what is on disk), the system
  settings on the other: a call that is not disturbed is alone (`CallsOK`), how
  far it got shows in the settings (`Clearing`), and between calls the flag tells
  teardown of settings that name the proxy (`SettingsOK`).

### What is only model-checked

Every invariant of the passing runs is stated by a theorem, and so are
`LedgerSpec`, `SettledOnce` and `RestartRestoresOverride`. Left to TLC are:

* Liveness under fairness: `AuditReachesFile`, `StreamEndsAudited`,
  `EverySettles`, `FeedComplete`, `StopStops`. Fairness and `ENABLED` are out of
  the prover's reach.
* The two runs that expect a violation, which are counterexamples and not claims.

## 5. Abstractions and what is not modelled

* `SessionStore` lets a call work with an earlier time than the one at which it
  gets the mutex; `ReviewStore` and `Gateway` read the clock in the same step,
  so a call delayed at the lock can see a slightly older time there than the
  models allow.
* `Gateway`'s review store does not crash and does not tear lines: those are
  `ReviewStore`'s runs. A send error of the upstream may come after the body
  was transmitted, so `upstream_fails` comes after `forward` has set `sent`.
* OPA is assumed to give a reason with its decision.
* Of an SSE stream only `data:` lines are filtered, as in the code; what other
  fields carry passes unscanned and is no concern of `StreamFiltered`.
* `Gateway` and `SseStream` take a finding as its label; spans, overlaps,
  attachments and failures of the engines are `Payload`'s, whose bodies go
  through both proxies in `Mitm`. All occurrences of a label in a body are one
  value.
* A host is in lower case and without a final dot, as `classify` makes it; a
  plain HTTP request is filtered without asking the classifier, as in the code.
* `PinCache.mark` has no caller, so the pin cache is empty in every state and
  left out.
* A host that signs its bodies gets them unmasked and JSON as it came, although
  the record says redact; `FoundIsMasked` excepts it.
* How a body is written is followed for requests only, as compressed or not and
  as serde_json's JSON or not. The reverse proxy decodes nothing, so a
  compressed body is one that is no text there.

Behaviours of the code that the properties make room for, each seen as a
counterexample of a stronger statement:

* After a verdict whose append failed, the ticket stays decided in memory and
  in the pending index: clients are told of it and `resolve` answers
  AlreadyResolved until a restart (the exception in `ToldTicketDecidable`).
* Evicting a ticket removes the index entries of its fingerprint even if they
  belong to a newer ticket for the same request. An unexpired override, or the
  pending entry of an undecided ticket, is lost then; `OneTicketPerRequest` and
  `RestartRestoresOverride` are therefore about queues without eviction.
* A request whose path makes no URL with the upstream's is answered 502 after
  its record said allow or redact, and nothing is sent (`upstream_url_fails`);
  `AuditTrail` therefore says of a 502 before forwarding only that its record is
  not that of a review.
* `handle_request` takes the compression off a request before it filters it, so
  a host that signs its bodies gets the decompressed one without its
  Content-Encoding, although the comment at `src/mitm/mod.rs:186` says that the
  original bytes are forwarded to keep the signature valid. `FloorHeld` says
  what remains: nothing is masked or written anew.
* An allowed JSON body is written anew by the transparent proxy, and a compressed
  one decompressed; only the reverse proxy forwards allowed bodies byte for byte
  (`AuditAgrees`).
* The stream of a transparent proxy's upstream that stalls has no record.
* OPA raising an allowed request to redact is recorded as redact and forwards
  the body unchanged, as no finding is masked by the built-in policy; the
  response path masks the whole body in this case.
* `merge_policy_outcomes` takes source and reason of an event with a weaker
  decision when the accumulated outcome has no reason, so the source on a
  stream's record may be of another event than the decision.
* A process killed between the text of a review event and its newline: the next
  acknowledged event shares the line, and replay skips it. `review_durable` is
  therefore about appends that complete or write nothing.
* A request that names its ticket is let through on its status, after the
  override has expired.
* After a reload the writer tasks of the old and the new sink can put two
  records on one line, which the reader drops; `TrailTold` speaks of the records
  that can be read.
* A call of a session that waits at the lock while another session's call, with
  a later clock, expires its entry loses the labels recorded so far.
* The transparent proxy forwards a multipart body whose decision is review as
  it came, as nothing holds a request there.
* A rule-set replaces the operator's own lists, of which only the baked-in
  floor remains; after a restart an older signed rule-set is accepted again.
* Tokens of a label with a colon cannot be turned back.
* Once the ring is full the desktop's pump shows nothing new, as its length no
  longer grows; records before the pump's first poll are not shown.
* Two tasks that make the CA at once can leave a certificate of one and the key
  of the other; a torn certificate makes every later start fail.
* A set of the system proxy that fails half way, a command whose exit status is
  an error, overlapping commands and a kill leave settings that teardown does
  not know of. A proxy of the user's own is cleared, not restored.
* Rules that do not compile make the bridge answer with the body unchanged.
  An `XMLHttpRequest` whose scrub times out is sent with an empty body.

Not modelled:

* Configuration loading (`config.rs`): YAML into records with defaults, no
  state. The checks made when a runtime is built are `Payload`'s `loads`.
* Metrics (`observability.rs`): counters and gauges that nothing reads back;
  only that usage is counted once is checked.
* Benchmarks (`benchmarks.rs`): files read and one copied, and arithmetic over
  floating point.
* Entry point and admin console: argument parsing and an embedded page.
* Inside modelled components: regular expressions and validators, the bytes of
  ZIP, XML, PDF and X.509, ciphers and signatures (modelled by what they
  promise), header copying, previews, logging, the window and tray.

## 6. Plan

The code that has state or control worth checking is modelled, and its safety
properties are proved. What remains open:

1. The five liveness properties, for a prover that handles fairness and
   `ENABLED`. Until then they hold on the instances of section 3.
2. Dropping `WholeAppends` from `LogImplementsLedger`, and `RoomForAll` from
   `OneTicketPerRequest` and `RestartRestoresOverride`, if the code comes to end
   a torn line before it appends and to keep the index entries of newer tickets
   when it evicts an older one. The theorems about it would then need neither.
3. `config.rs`, as a function from documents to configurations, should its
   defaults come to depend on one another.
