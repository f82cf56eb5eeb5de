# TLA+ models of impeccable's live mode and browser extension

impeccable is a command-line engine (Rust, `src/crates/`) that design agents call. Most of its
verbs are sequential: they read files, compute, print. Two parts are not, and these modules model
them.

*Live mode*: a long-lived helper process (`live-server`) connects an overlay in the user's browser
with agents that poll for work, keeps every variant session in a journal on disk, and survives
restarts. The overlay keeps its own copy of the session, in memory and in localStorage, and must
come back to it after a reload, a lost connection or an HMR update.

*The browser extension*: the same engine compiled to wasm runs in one offscreen document that all
tabs share; a worker that the browser may end at any time, a content script per document, and
DevTools take part in every scan.

## The system

| component | source | state it keeps | operations | hard because |
|---|---|---|---|---|
| session store | `live/src/session.rs` | `<id>.jsonl` journal, `<id>.snapshot.json` | `append_event`, `read_state`, `get_snapshot`, `list_active_sessions`; the reducer `apply_event` | crashes between file operations; two processes; failed writes; late events |
| event queue and delivery | `live/src/server_state.rs` | `pending_events`, `pending_polls`, lease timer, exit timer | `enqueue_event`, `flush_pending_polls`, `lease_event`, `acknowledge_`, `release_`, `retire_`, `schedule_lease_flush`, `restore_...` | leases expire, polls time out, threads run between handlers, responses get lost |
| helper server | `live/src/live_server.rs` | the above behind one mutex | `POST /events`, `GET /poll`, `POST /poll`, `GET /events` (SSE), start-up | two handlers release the mutex half way |
| agent targets | `server_state.rs` 769-1163 | `pending_agent_targets`, `resolved_agent_targets` | register, claim, decline, resolve, refuse | one request, many tabs, three timers |
| manual edits | `live/src/manual_edits/` | `pending_apply_deferreds`, tombstones, transaction file | commit, chunked apply, timeout, rollback, discard | late replies after a timeout, crash in a transaction |
| source lock | `live/src/source_lock.rs` | a lock file per source file | take, wait, clear stale, release | processes race to remove a dead holder's lock |
| inject journal | `live/src/journal.rs`, `live_inject.rs` | `inject-journal.json`, injected files | record, heal | crash between the injection and its record |
| live verbs | `live_poll.rs`, `live_complete.rs`, ... | none | clients of the helper | retries, lost answers |
| overlay | `skill/scripts/live-browser.js`, `live-browser-session.js` | the page's state, localStorage | pick, Go, accept, discard, checkpoints; reads frames and source files; resumes | replies, frames, reads and DOM mutations come after the state has changed; reloads forget |
| rule core | `browser-bundle/60-offscreen.js` | sessions, the turn, the snapshot in the core | scan-start, scan-continue, scan-cancel, scan-cancel-tab, analyze-candidate | coroutines that stop to ask their tab, one core for all tabs |
| worker, content script, DevTools | `extension/background/`, `content/`, `devtools/` | a tab's scan state; a document's generation and groups; ports | scan, tear down, recover, report, rescan | awaits in which everything else happens; the worker's memory ends with it |
| HTTP turnstile | `common/src/http.rs` | tickets | arrival order of mutations | a handler that keeps its ticket |
| capture service, question server, telemetry, hooks, build phases | `cli`, `context`, `hook`, `comp-verbs` crates | queues, files per session | see the plan | concurrent processes on shared files |
| detector, html, browser, skills, bundle, wasm, the rest of the front ends | other crates | none that outlives a call | pure functions, I/O, packaging | not a subject for these models |

How they interact: the overlay POSTs events; the helper appends each to its session's journal,
then queues it; an agent's `GET /poll` leases the most urgent free event, and its `POST /poll`
acknowledges the event and appends the outcome. A snapshot keeps the *pending event*, and a
restarted helper requeues exactly that. The overlay follows the session through the frames of
`GET /events` (server-sent events), reads the variants from the source file when it is told that
they are done, and asks for the helper's list of sessions whenever it connects.

In the extension the worker tells a content script to scan; the content script uploads a snapshot
of its page to the rule core and answers the core's questions about it (hit tests, images, pixels)
until the core is done; its reports go to the worker, which keeps the tab's state and tells the
DevTools panel.

What makes each part correct:

* store: what readers see is the journal's replay; entries are numbered densely; what was
  acknowledged is there; a request that waits is the pending event; decided sessions stay decided.
* queue: one holder per event; nobody sleeps beside work; nothing is queued for ever; `exit` only
  when no page is connected.
* agent targets: a request is answered once; it gets no second session, and none it is not told
  about; a roll call ends when everybody has spoken, and speaks for nobody else.
* server: the queue and the journals agree, so that a restart neither forgets nor repeats work;
  a decision of the user's comes to an end.
* overlay: a session the page is done with never comes back in it; one that the user has begun is
  not lost; variants that are ready arrive.
* rule core: a scan goes on over its own page's snapshot; every message is answered once; nobody
  keeps the core for itself.
* worker and tab: no page shows another page's findings; "scanning" is true and ends; tearing down
  one scan does not take the next one away; what the page finished is known.

`PROJECT.json` lists every hazard found in this code, at its line, with the properties about it.

The overlay's source is `src/skill/scripts/`. The 21 other copies of `live-browser.js` in the
repository (`src/.cursor/skills/`, `src/.gemini/skills/`, `src/plugin/` and so on, one per agent) are
byte for byte the same file, put there by the build; what is said here of the source holds of them,
and only the source is mapped.

## Modules

| module | models | state and code |
|---|---|---|
| `LiveSession` | the reducer as operators, no state | one operator per arm of `apply_event`; a snapshot keeps the fields that delivery and recovery depend on, diagnostics as the set of their kinds |
| `SessionStore` | one session on disk | `journal`, `torn`, `bytes` and `snapFile` are the two files; `pc`, `op`, `prior` are the local variables of `append_event`, which is the three actions `BeginAppend`, `AppendLine`, `Persist`; `Crash` ends it anywhere; `rebuilt` is what replaying the journal would give, kept incrementally |
| `PendingQueue` | `pending_events` as operators on a sequence | one operator per queue function; `lease_until` is abstracted to free, held, lapsed |
| `Delivery` | what the queue promises overlay and agents | abstract: requests nobody has answered, which of them are leased, what each agent was handed and whether its time has run out; one step is whatever one handler does |
| `EventQueue` | parking, leasing, waking | `queue`, `parked`, `timer`, `exitTimer` are fields of `ServerState`; `at` and `work` say where each agent's request is; one action per handler, lease thread, timer and fault |
| `LiveServer` | store + queue + handlers + restart | `snap` is what each journal adds up to; `Post`, `Poll`, `Reply` are the handlers; `PickUp`, `Prepare`, `Deliver` are the lease thread's three critical sections; `Compiles`/`CompileFails` the reply's second one |
| `HeldRequest` | the promise to an agent that asks for a session | abstract: requests, answers, sessions opened |
| `AgentTarget` | requests held while the pages answer a roll call | `conns` is `sse_clients`; `pending` and `claim` are `pending_agent_targets`; `resolved` is the bounded `resolved_agent_targets`, in the order of `no`; one action per handler, timer thread and passage of time; `heard` says which pages can send a message about a request, and messages themselves are not kept: a page may send any at any time, as often as it likes; `verdict`, `opened` and `word` are history |
| `Overlay` | the overlay in one tab, the helper's journal as far as it answers the overlay, the source file and the page's DOM | `page` is the script's variables and localStorage (`saved`, `handled`); `posts` are the fetches on their way, in the queue, or settled and not read; `frames` the event stream; `server`, `source`, `dom` say what the helper, the file and the page have of each session; one action per click, reply, frame, timer, read, and per step of the agent; of the sessions in `Compiled` the source is a template that is not read: what the framework mounts is looked at (`Mounted`, `GiveUp`, `NotMounted`); `AnchorMissing` and `Retry` are a page without the element to replace |
| `RuleCore` | the offscreen document | `sessions` is the Map, `chain` the promise chain, `obj` the session objects, `at` where a coroutine stands; a handler and the microtasks it triggers are one step; clients may send anything |
| `CoreClients` | content scripts of several tabs over `RuleCore` | `generation`, `active`, `driver` are `scanGeneration`, `activeSessions` and the loop in `drive`; `outbox`, `inbox` are messages in order; `drawn` and `reported` are what the page shows and what the worker was told |
| `ExtensionScan` | one tab: worker, content script, DevTools | `st` is the tab's entry in `tabState`; `jobs` and `tears` are the awaits inside `sendScanToTab` and `tearDownTab`; `recovery` and `waiting` are `scanRecoveries`; `prepare` is where a `prepareRuleCore` is, which goes through the same recovery; `CoreAnswers` is the core; `Restart` forgets all of the worker's memory |
| `SessionStoreProofs`, `PendingQueueProofs`, `EventQueueProofs`, `AgentTargetProofs`, `LiveServerProofs`, `OverlayProofs`, `CoreClientsProofs` (with `RuleCore`), `ExtensionScanProofs` | theorems about these | |
| `MC...` | finite instances for TLC | |

`LiveServer` composes `LiveSession` and `PendingQueue`, abstracting `SessionStore` to the snapshot
(justified by `TrustedSnapshotIsReplay`) and `EventQueue` to "a poll gets a free event", which is what
`Delivery` promises of it (`QueueKeepsPromise`).
`AgentTarget` stands alone: it meets the rest only where `Generate` journals and queues an event.
`Overlay` abstracts `LiveServer` to what each session's journal says and to frames that may be
missed. `CoreClients` extends `RuleCore`: each of its actions does to the core what an action of
`CoreNext` does, or nothing (`ClientsKeepTheRules` proves it), so that the theorems about `CoreSpec`
hold of it. `ExtensionScan` abstracts both to a result, an error or silence.

Definitions introduced by the comment *Faulty variant* are not part of any specification. Each is
what the definition after it would be with a plausible mistake; `PROJECT.json` pairs it with the
property that then fails, to show that the property depends on that line of code.

## Runs

Passing:

| run | question | bounds |
|---|---|---|
| `StoreExclusive` | do crashes between the file operations of threads that share the mutex ever show? | 2 writers, 9 kinds of events, 4 writes: two complete appends around a crashed one |
| `StoreFaulty` | does the reducer keep its promises when lines are lost or glued too? | 2 writers, 4 kinds of events, 3 writes |
| `EventQueueServed` | is a parked poll woken whenever there is work; one holder, no untimed lease, no exit of the exit timer's beside an overlay; is no request lost, and each poll given the most urgent one it wants (`Delivery`); everything served in the end? | 2 agents (one takes all, one filters), 2 entries, 2 faults, events that name a session and events that do not (a posted `exit`, a `prefetch`), leases that lapse also inside a handler |
| `LiveDurable` | do the queue and the journals agree? | 2 sessions (one accepted, one discarded), 2 interchangeable agents, 3 entries, 1 restart |
| `LiveSettles` | is every decision carried out or reported failed, do retired generates stay retired? | 1 session, 2 agents, 2 entries, 1 restart, posts during preflights |
| `TargetVerdicts` | is every request answered once, with the one session opened for it, whatever the pages do? | 2 interchangeable pages, 2 requests, one answer remembered, 2 connections per page, 2 sessions per page and request |
| `Overlay` | does the page leave what it is done with, keep what it has begun, and get what is ready? | 2 sessions, the second one's source a compiled template, 1 decision, 1 accident, or 2 when one thing happens at a time |
| `CoreClients` | does each tab get its own answers, and the next tab its turn? | 2 tabs, 3 sessions, 2 generations of one tab's script, 1 question per session, drivers that throw |
| `ExtensionScan` | is what the worker and the panel say of a tab true? | 2 scans with a candidate each, 2 documents, DevTools opens once, the worker ends once |

The number of entries limits the runs of the helper. Two entries are the fewest with a retired
generate and its decision; three allow both in one session beside a request of the other. Two agents
let a lease lapse and the next agent take the event while the first one's answer is still to come
(0.57 million states; the agents are symmetric, and the run has no liveness property). Two faults let
one response be lost and the next holder die. Two agents are the fewest that can contend for an event.
With a checkpoint of the accepted session besides, 2.0 million states pass as well, not part of the runs.

In `TargetVerdicts` two pages are the fewest that can contend for a request, take a lapsed lease
over, or disagree in a roll call; with two requests and a record of one answer, the first answer is
forgotten while its page may still press Go; two connections let a page reconnect before the old
connection is seen to close, and two sessions let a page press Go twice. The theorems below cover
larger instances. The pages are symmetric: no action or property tells them apart, and the run has
no liveness property.

In `Overlay` the second session is what late replies, frames and reads of the first one can hit.
An accident is a reload, a broken stream, a post lost with or without its effect, an HMR update
of part of the page, or a page that has rendered without the element to replace; `Lose`, `Drop`,
`Reload`, `Hmr` and `AnchorMissing` draw on one budget. With the second
session compiled one run has both kinds of source, also the change from one to the other; a reload
may leave the component of the second one unmounted. With two accidents at any time and no
annotations the safety properties hold too (3.0 million states, not part of the runs).

In `CoreClients` three sessions are a scan and two lazy candidates, or two scans of one tab around
another tab's. In `ExtensionScan` two scans and two documents are the fewest where a report of the
one meets the other; a worker that ends once forgets whatever had happened. One candidate a scan,
analyzed when the scan is done, is enough for a worker that comes up after the page's last report
and hears of the scan only because the candidate needs the core.

Not passing; each shows a disagreement between the code and what the repository says of it
(`findings` in `PROJECT.json`):

| run | what happens |
|---|---|
| `LiveStaleLease` | a discard during a preflight: the lease thread appends its stale generate, which becomes the pending event again; a restart forgets the discard |
| `OverlayCapture` | the stream reconnects while an annotated Go is captured: the checkpoint of the restored session overtakes its generate, is refused, and the page throws its own session away |
| `OverlayLateError` | an accept fails after the next session has begun: the error hides the new session's bar and frees the picker |

What the passing runs leave out because the code does not promise it, or breaks it in the same way
as a finding above:

* `StoreExclusive` has one process. `live_complete` appends without the helper's mutex; then the
  second snapshot lacks the first one's entry and is trusted (`Exclusive = FALSE` shows it).
* `LiveDurable`: nothing is posted during a preflight (`SlowPreflight = FALSE`), one decision per
  session, no late error. Otherwise, besides `LiveStaleLease`: two mount failures are both queued
  and the snapshot keeps one; an error reply to a retired generate is journaled without its source
  and clears the pending decision. Checkpoints, which touch neither the queue nor the pending event
  of a snapshot, are left to `StoreExclusive` and the proof.
* `StoreFaulty` claims only that what survives of a journal folds consistently. With a failing disk
  an acknowledged entry may be lost, and a snapshot be trusted that says more than the journal: the
  error of the write is dropped.
* `DecisionSettles` says that a decision is carried out or reported failed, and nothing less; but it
  ends where `LiveStaleLease` begins: when a stale stamp, or the late error of a retired generate, has
  taken the decision's place in the snapshot and a restart may still come (`MayBeForgotten`). Without a
  restart it is carried out all the same, since its event is queued.
* `ExitOnlyWhenAlone` is about the exit timer's exit. POST `/events` takes an `exit` and a `prefetch`
  without an id and queues them with overlays connected; these are told apart by the token they carry.
* `TargetVerdicts` has claims that arrive after their page has gone, but no property that a request is
  answered before its timeout: such a claim is granted, and while it stands no roll call can end.
* `NoLostWakeup` is about a punctual timer (`skew`, chosen at the start, is FALSE). A lease that lapses
  between two clock reads of one handler, or in the 2 ms grace after which the timer fires, can be
  left without a timer, and a poll then sleeps until it times out and asks again.
  `EventuallyServed` holds with skew too.
* `KeptWhenCalm` is about one thing at a time (`calm`, chosen at the start): no annotation, nothing on
  its way when the user presses Go and no wrapper left of a session the page is not done with, no
  reload while the generate is outstanding, no accept that fails. The wrappers matter from the third
  session on: the one of a failed session (handled) hides the one of an accepted session across a
  reload, the page is free, and the next session it begins gives way to the accepted one when it
  is reloaded again. With two sessions this condition excludes nothing, and the run has two because
  its liveness property is dear; `OverlayKeepsWhenCalm` proves the invariant for every number.
  Without calm, a late reply, read or frame of one session can take the next one away:
  `OverlayCapture` and `OverlayLateError`, and likewise the reply to a late discard, a late read of the
  source, and the error frame of a failed generate that was missed. With calm too the page gives up
  a compiled session that still shows its bare wrapper after the tries that follow a done
  (`recoverEmptyCycling`): the variants are in the source, but no HMR update has brought them.
  `givenUp` records it, and `Undecided` leaves such a session out.
* `CompletedArrives` is about a page that waits and has the wrapper, or room for it. The code means a
  page whose element or component is not there to go on waiting until it is (`NotInPage`); and to
  give up a compiled session as above is an end of the wait. A session that is restored as arrived
  keeps saying so in its state, with or without variants in the page.
* `NoOrphanHoldsTheCore` and `EverySessionSettles` except a driver that threw while it answered: the
  `finally` of `drive` forgets its session and does not cancel it, so it holds the core until the worker
  cancels the tab's sessions (its tab navigates, closes or is scanned by the worker again).
* `ScanSettles` excepts what the code has no answer to: a document that never completes (an aborted or
  failed navigation has no `onCompleted`), and a rule core that never answers the very scan, because
  another tab's driver threw and keeps its turn (`HeldUp`). Nothing else keeps a tab "scanning".
* `CompletionIsHeard` lets a worker that came up after the page had reported know no more than the id
  of its scan: a candidate that asks for the core makes it ask the page, and nobody repeats the report.
* `ScanningIsTrue` is about the worker's state, and one direction: it does not say "scanning" without
  cause, but a scan may run that it does not know of (a worker that has lost its memory). The panel is not told of a scan that failed
  (`panel.js` has no case for `scan-failed`) and can go on showing its spinner.

## Fairness

Weak fairness of the lease threads, the lease timer, lease expiry and poll timeouts: the operating
system schedules threads and time passes. Weak fairness of `Poll` and, in `EventQueue`, of
`Answer`: the skill's instructions have an agent poll again and answer what it is given, and faults
(lost responses, deaths) are bounded. In `LiveServer`, strong fairness of `Reply` and `Compiles`:
an agent does not hand its events back for ever, nor send variants for ever that do not compile;
weak fairness would not do because `Retry` and `CompileFails` take the agent away from the state
again and again. Nothing is assumed of the overlay, of faults or of restarts.

`Overlay`, `CoreClients` and `ExtensionScan` have weak fairness of one action, `Progress`: messages and
replies arrive, timers fire, fetches and awaited calls settle, the stream reconnects. In `CoreClients`
a document finishes loading too. In `ExtensionScan` neither `Completed` nor `CoreAnswers` is in it: a
navigation may be aborted, and what holds the core may hold it for ever. In `Overlay` it has no HMR,
and a wait for a missing element ends only if a wrapper is there. Weak fairness of the disjunction is enough because, users and accidents apart,
none of it goes on for ever. The user, the agent, HMR and accidents may stop at any time.
`Overlay` takes the stream's reconnection for granted (the code gives up after 20 failures).

`LiveSettles` leaves out one reply: an accept that `live_accept` did not handle, answered with
`agent_done` without `carbonize` (`live_poll.rs:460`). The queue drops the event, the reducer
ignores the entry, and the session stays in `accept_requested` until a restart redelivers it.

## Proofs

`SessionStoreProofs` is about every set of writers and events, every bound and every overlay.

* `ApplyEventGood`: the reducer preserves `GoodSnap`, that is, well-formedness, the pending
  request and the decision; one lemma per arm of the reducer.
* `Typing`, `RequestsStayPending`, `DecisionsStand`: the invariant is that `rebuilt`, a readable
  snapshot file and every writer's `prior` are good snapshots. It needs the local copies, because
  what one process persists was read before another one's append. No assumption on locking or
  write faults.
* `SnapshotIsReplay`, `EntriesAreNumbered`: assume `Exclusive` and no write faults. The inductive
  invariant says where the single active writer is: until it appends, its `prior` is the replay of
  the journal, and afterwards the replay is its `prior` with its entry applied. The stamp then
  separates snapshots written before and after. Without `Exclusive` it is false.
* `AckedIsDurable`: assumes no write faults only; the journal grows, and a writer in `persist`
  has its entry in it.

`PendingQueueProofs` has the lemmas about the queue's operations that the next module needs.
`RetainIs` says what `Retain` keeps, by induction over the recursive function that models Rust's
`retain`; `SelectedIsCandidate` that `select` picks an entry that is wanted and not held;
`EnqueueQueue`, `SetLeaseIs` that numbers stay unique and no event has two entries.

`EventQueueProofs` is about every set of agents, filters and events and every bound. A handler
computes on a record of the state, so the lemmas are about such records: `Sound` (types, unique
numbers, who is parked waits) and `Exclusive` (an agent has the event of the entry it was given, which
is held while its lease is fresh, and no other fresh lease is on it). The inductive invariant `QInv`
is the first of them with `LeasesAreTimed`, `NoLostWakeup` and `ExitOnlyWhenAlone`. Events may come
without an id; what they are never is the exit timer's own exit (`EventQueueAssumption`).

* `FlushSound`: a flush is a recursive function that serves one parked poll a round. Every round
  shortens the line, so after as many rounds as there are polls nobody waits beside an event he
  wants. Induction is by the least counterexample, as the library's induction rule is out of reach.
* `QueueLosesNoWakeup`: every step that frees an entry flushes, or leaves the punctual timer armed.
* `QueueHasOneHolder` assumes `ToldApart`: no two events have the session and the type that an answer
  names. It is false of two mount failures of one session. An agent that hands the second one back
  frees the first, because `release` takes the first entry that matches, while another agent holds it.
  TLC finds this in seven steps when `Events` has two such; the run's events are told apart.

* `QueueKeepsPromise`: `EventQueue` implements `Delivery`, also under `ToldApart`. A handler first
  changes the record to some x, which serves nobody (`Shifts`, `Comes`, `Goes`: agents go on or let go,
  at most one request is new, and what left the queue was answered, overridden by a decision, or an
  exit without an id, which is off when an overlay comes), and then serves a line of agents, which gives r. `Served` says of x and r what
  `Delivery` says of handing out: same requests, no lease withdrawn, and each agent is as before or has
  the most urgent request that it wants of those nobody has. It is transitive (`ServedOn`), so a flush
  has it round by round, and serving the later agents leaves the earlier choices the best, as a lease
  only takes rivals away. `Carries` joins both halves; `CarriesGives` concludes for every handler. The
  invariant gains `Empty`: who is idle or parked has no request, so a hand-out replaces none. When
  leases lapse inside a handler (`skew`) a more urgent request may come free after the choice, and
  `Delivery` promises no order.

`LiveServerProofs` is about every set of sessions, agents, posts and replies and every bound. It first
says what an entry does to a snapshot, as far as delivery depends on it: it leaves phase, decision and
pending event alone (`Alike`), clears the pending event (`Cleared`) or asks for a new one (`Asks`);
`EntryIs` shows which, and when an answer is `Late`. The inductive invariant `LInv` has, besides types:

* `Leases`: a lease under way names, by its number, the entry it was given, or none. A thread that
  comes back to a queue that has changed meanwhile stamps its own request or nothing.
* `Counted`: the sessions that have something queued, leased or pending are fewer than the numbers
  given out, so what a restart requeues has room. Without it the type of the queue is not inductive.

`WithdrawnForGood` needs no more: only a post adds a request or cancels a session, a decision removes
the generate in the same step, and a step that stamps changes an entry and never inserts one.

The two theorems on restarts, `QueuedSurvives` and `AnsweredIsOver`, assume `Orderly`, which says what
the overlay and the agents are relied on for: no post during a preflight (else `LiveStaleLease`), one
kind of decision per session, no steer, mount failure or orphaned discard (these share the one place a
snapshot has for a pending event), and answers that name the decision they answer. TLC evaluates it
for the constants of `LiveDurable`. Their invariant `RInv` adds to the two properties:

* `PendingOK`: what is pending is a generate of an undecided session, or the decision that the phase
  names. So a late answer to a generate cannot take a decision with it.
* `Durable`: a queued generate is stamped as far as the journal knows.
* `Doers`: nobody else has the event of a session whose generate is still being stamped, and the
  stamping agent's entry is in the queue, leased to it (`NoStamperBeside`, `StampRInv`); a publication
  being compiled was acknowledged, and would clear what its session awaits, or be late.

`ReplyTakes` and `ReplyTells` are the heart: what `infer_source_event_type` makes of an answer
acknowledges the session's entry of the answered kind, and the journal clears the same request or
none. `SettlesRInv` concludes for every answer, and `RestartRInv` from what `Restored` returns
(`RestoredIs`, by induction over the sessions in order).

`AgentTargetProofs` is about every finite set of pages and every bound. The inductive
invariant `Inv` is the type invariant, the two invariants of the run, and two that they need:

* `AnswersKept`: a request that is held has no answer yet, and what is recorded of an answered one
  is the session of its answer. A late Go is judged by that record alone.
* `WordsCounted`: who has reported is connected, and its latest word is a decline.

The argument:

* `OneSessionAndTold` rests on `AnswersKept`: a Go is welcome either while the request is held,
  and then answers it, or when its session is on record. An evicted record only refuses more.
* `NoPageUnheard` rests on `WordsCounted`: the code compares the number of reports with the number
  of pages. Since reporters are connected pages (`Decline` and `Disconnect` see to that), equal
  numbers mean equal sets; the proof uses the library's cardinality theorems.
* `RollCallsEnd`: each step that can complete a roll call judges it, or leaves a grace timer.
* `PromiseKept`: `Init` and each action of `AgentTarget` map to `HeldRequest`'s, or to a stutter.

`CoreClientsProofs` first proves `RuleCore`, for every set of runs, ids, tabs and requests, every number of questions, and
clients that send any message at any time. Its inductive invariant adds to `AnsweredOnce`:

* `MapIsTrue`: who holds a request or is parked is in the Map under its id, and who was superseded is
  not. Ids are reused, so a session must not be confused with its successor.
* `OwnRequest`: no two sessions hold the same request.
* `ParkedHasTurn`: who is parked is at the head of the chain, the core has its snapshot, and its
  request has been answered.

The argument: a run that goes on has the turn, and either parks again or settles
(`ParksKeeps`, `SettlesKeeps`); so one run parks at most (`OneParked`), and no other can load a
snapshot. A cancel reaches only sessions that are in the Map (`CancelKeeps`, `OpenIsInMap`,
`OfTabIsInMap`), takes them out of it, and answers exactly what they held; a new session queues behind
whoever is left (`StartKeeps`). `SnapshotsAreOwn`, `AnswersComeOnce` and `TurnsAreReachable` follow.

Then it turns to `CoreClients`, for every set of tabs and runs and every number of questions and scans,
with two inductive invariants, the second relative to the first. `CoreSide` ties the scripts to the core:

* `Owned`: a session has its driver's id, tab and kind, and holds no request but its driver's.
* `Sent`, `Starting`: starts are on their way in the order of their runs, each before its session is
  born; a run without a session has its start on the way.
* `Said`: what an answer that was not read yet says of its session.
* `Actives`, `Attends`: `activeSessions` is the live drivers of this generation; who has or wants the
  turn is driven, or a cancel of it is on its way, or its document has been left, or its start failed.

From it follow `ClientsKeepTheRules` (every step is one of `CoreSpec`, or none of the core), hence
`CorePromisesHold`, the core's three theorems of the composition, and `NobodyIsOrphaned`.

`PageSide` says why a report is of what was drawn, although answers, cancels and documents cross:

* `Chained`, `Ordered`: the sessions of a tab get the turn in the order of its runs. `Moves` and
  `ChainMoves` say once what any step of the core can do to a session and to the chain.
* `Reading`: a page reads its answers in that order, except those that say `superseded` or `error`.
* `Alone`: one scan and one candidate of a tab are driven at most, and no scan while another is wanted.
* `Observed`, `Shown`: a scan has drawn its visual stage before a candidate of it starts; from then on
  what is drawn is the snapshot that the candidate is based on, until its last answer has been read.

`ReportsAreDrawn` follows. The lemmas on `InOrder`, and on what comes before what in a sequence, are
again by the least counterexample.

`OverlayProofs` is about every number of sessions, clicks and accidents. The functions of the page
compute on its record, so `Good` is about such records: the page's type over the set N of the
sessions that have begun, and neither the current nor the stored session is handled. One lemma per
function says that it keeps `Good`; the inductive invariant `OInv` adds what the posts, the frames and
the helper's, the file's and the page's trees may name, which is sessions that have begun. It is
needed because a handler takes the session it acts on from a frame or a list: `OverlayLeavesHandled`
holds since every way to a current session (wrapper, storage, list) asks whether it is handled, and
since what is marked as handled is left in the same step.

`KeptWhenCalm` needs a second invariant relative to the first, `CInv`: when one thing happens at a time,
all that the page has and waits for is about the last session that has begun (`OneInv`).

* `Near`: nothing else is current, saved, pending, observed or read about, and nothing says that variants
  have arrived, or that they are complete, before they were in the source (`Seen`). A wrapper of the
  session that the page finds is then worth resuming, and a read that finds none is of a session that
  was decided on. A wait for the element starts over with a read that claims nothing.
* `PostsNear`: until the reply to the session's generate is in, every other post waits for it; a refused
  checkpoint says that the generate was lost, an answered decision that the helper knows it.
* `HelperNear`, `FramesNear`: what the journal, the source and the frames on their way say of the
  session. An error or an end comes of what the user decided or the agent gave up.
* `EarlierLeft`: earlier sessions are over for the agent, and what is left of their wrappers is handled.
  So the wrapper a page finds is the session's or yields to what is saved.
* `HandledIsDead`, `WantedIsHeld`: what the page has handled, nothing more will come of; what is still
  wanted is current and saved, so a reload finds it again. Wanted is more than undecided: also a session
  whose generate failed for the page while the agent works on it, since its variants will come. A
  compiled session that was given up is not wanted any more; giving up clears it like a discard.

The functions of the page keep `Near`, keep a session they hold (`Holds`), and a step that lets it go has
an answer or a frame that makes it `Dead`. `GoNear` is where one session follows another: a page that
is free to begin has nothing wanted, so the session before is `Left`.

`ExtensionScanProofs` is about every number of scans, documents, openings of DevTools and ends of the
worker. The inductive invariant `EInv` has, besides types and the bound on IDs:

* `Given`, `Jobs`, `Cancelling`: IDs are given in order; until a scan has been sent, nothing is on its
  way that is about it; scans and cancels reach the page in order.
* `Recovering`, `Anew`: a worker without memory asks the page once, and all it hears until it knows the
  answer is about one scan, the page's. Without this, recovering the ID could let a report of an
  older document in.
* `Torn`: what is left of a scan that was torn down goes with a tear-down that is still running; a
  `remove` on its way is never behind a scan that it could hit.
* `Documents`, `Truths`: what the reports on their way say of the current scan in the end. `SaysPart`
  and `SaysWhole` read the messages that wait for the recovery, those in the line and the worker's
  state as one history, of which the last report counts. So they survive every handover from the
  page to the line, to the recovery and to the state; only the sender's step has to establish them.
  A worker that came up since may know no more than the ID (`OnlyRecalls`): a request to prepare the
  core also recovers it. `page.told`
  keeps whether the page has reported a complete scan to the worker that is up, so that `Truths` can set it apart.

`HeardIs` reduces a whole line of reports to its last one on the scan, again by induction over a
recursive function. `ScanReportsThisPage` follows from `Documents` and `Torn`, `ScanningIsTold` and
`CompletionReachesWorker` from `Truths`, `TearDownSparesScans` from `Jobs` and `Torn`.

Assumptions: `RuleCoreAssumption` (a natural bound, `NULL` is no value) for `RuleCore`;
`AgentTargetAssumption` (finitely many pages, natural bounds, `NULL` is no value) for
`AgentTarget`; for `SessionStore`, `LiveSessionAssumption` (the overlay's phase names are not the
reducer's, and the failure history has room) and `StoreAssumption` (what the constants are);
`LiveServerAssumption` (natural bounds; what may be posted and answered has the fields and types that
the handlers let through; `NULL` is none of it) for `LiveServer`;
`EventQueueAssumption` (natural bounds, the exit timer's exit is no event that is posted, posted
events other than `exit` and `prefetch` have an id), `OverlayAssumption` (natural bounds, `Compiled` is a
set of sessions) and `ExtensionScanAssumption` (natural bounds, at least one
document, `NULL` is no number) for these three; `RunsAssumption` (runs are numbers, and serve as ids
and as requests; `NULL` is no driver) for `CoreClients`.

Only model-checked: liveness (outside the prover). Every invariant and action property of the runs
that pass is a theorem.
`AgentTarget` has no liveness property: that every request is answered is its timeout thread alone.

## Not modelled

The content of events and snapshots that no property depends on; `SessionStore::flush`, which has
no caller; manual edits, source lock, inject journal, turnstile (see the plan);
source transformation, detection and rendering, which are sequential functions of their input.

Of the store: that the copy of a legacy journal may fail or be cut short, which `append_event` does
not look at; the content of plans and detector waivers.

Of agent targets: overlays of older versions, which send no clientId and are counted by connection;
a generate whose `agentTarget` has no result (the overlay always sends one); the overlay's own protocol, which is narrower than the messages `AgentTarget` lets a page send; a
generate whose journal append fails, which changes nothing; the system clock set back.

Of the overlay: manual edits, inserts, steering, agent targets and parameters; component previews
(manifests instead of the source); variants that arrive one by one; reloads that the script asks for
over a handled wrapper, and what a carbonize leaves in the tree; failed reads of a source file that
is there, for HTML and for the check that a compiled wrapper is still in its file; a second tab on the same session. A post is modelled where it can have an effect: most
checkpoints only repeat the last one. `handled` never forgets (the code keeps eight).
The bar, its layout and styles, and picking by pointer are most of the file, and not a subject.

Of the extension: popup, badge, overlay toggle and hover, the sidebar pane, several frames of a
tab, a tab that closes. Messages between two parties arrive in the order they were sent; the worker
ends only when it is inactive, as the browser promises; in `CoreClients` `onCompleted` comes for every
document, after the messages of the one before. In `ExtensionScan` candidates are not analyzed while
their scan still runs or after it has failed (`CoreClients` has them at any time), and one at most.

## Plan

In this order:

1. `SourceLock`: waiters, dead holders, unreadable locks; mutual exclusion.
2. `ManualApply`: deferred replies, timeout, tombstones, transaction and restart.
3. The overlay's agent-target protocol over `AgentTarget`, and a second tab.
4. `Turnstile` (no mutation overtakes an earlier one, no deadlock), `InjectJournal`.
5. `LiveServer` over `Delivery` itself, in place of its own "a poll gets a free event".
6. Hook claims, capture service, question server, build phases.
