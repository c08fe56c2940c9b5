# A formal model of the AI workspace assistant

TLA+ modules for the parts of this repository whose correctness depends on what
happens *between* two database transactions: the ingestion queue that turns an
uploaded file into searchable chunks, the approval gate between the agent and the
world, members and invites, sessions, documents between table and bucket, questions and
what they cost, the screens that show them; and for the algorithms whose result is easy
to get wrong by one: splitting, fusing, framing, folding. TLC checks them on small instances, TLAPS proves the central
theorems for instances of every size. `PROJECT.json` lists components, runs, mutants, the
map from definitions to source lines, findings, hazards and theorems.

Paths below are relative to the repository (`app/...`, `frontend/...`).

## 1. Inventory

The system is a FastAPI process (any number of replicas), a Postgres database, an
object store, a model provider and a mail provider, and a React frontend. A request
has one SQLAlchemy session; transactions run under READ COMMITTED, and the only row
lock in the program is the `FOR UPDATE SKIP LOCKED` of `claim_next`. So nearly every
check in a service is a read that another request may outdate before the write.

| component | state it keeps | operations | what makes it correct |
| --- | --- | --- | --- |
| Ingestion queue (`app/workers/queue.py`) | `ingestion_jobs`: status, lease, attempts | enqueue, claim, heartbeat, reclaim, complete, release, fail, purge | one live row per document, one worker per job, no document left unsettled |
| Runner (`app/workers/runner.py`) | one asyncio task, one heartbeat task per job | start, poll, drain, stop; crash | every job is taken up again after every interruption |
| Ingestion job (`app/workers/jobs/ingest_document.py`) | `documents.status`, `document_chunks`, `usage_events` | two transactions around extraction, splitting, embedding | a ready document has all its chunks, once; no text is paid for again without a fault |
| Documents (`app/services/document_service.py`) | `documents`, objects in the store | upload, upload again after a failure, delete | the status is what will become of the document |
| Approval gate (`app/services/approval_service.py`) | `pending_actions`, `audit_events` | propose, decide (approve, edit, reject), mark failed, resume the graph | executed is approved, once, to members only; the status is the truth |
| Executor (`app/services/action_executor.py`) | `events`, `tasks`, mail sent | execute | an outcome is committed with what it is the outcome of |
| Agent turn (`app/services/agent_service.py`, `app/ai/agent`) | LangGraph checkpoints | run, interrupt, resume | a paused run waits for something a human can decide |
| Recipient resolution (`app/ai/tools/resolve.py`) | – | match names and addresses to members | nobody outside the workspace is addressed |
| Workspaces and members (`app/services/workspace_service.py`) | `workspace_members` | create, change role, remove | a workspace keeps at least one admin |
| Invites (`app/services/invite_service.py`) | `invites` | create, accept, revoke, expire | used by its addressee, and without races once |
| Sessions (`app/services/auth_service.py`, `frontend/src/api/client.ts`) | `current_refresh_jti` of a user; cookie, CSRF value and access token in the browser | login, rotate, logout; single-flight refresh | one valid refresh token, a session that ended stays ended |
| Usage and budget (`app/services/usage_service.py`) | `usage_events` | enforce, record | spending stays within the budget, or within a known overshoot |
| Rate limiter (`app/middleware/rate_limit.py`) | counters per window | count, refuse | at most twice the limit in any window-long interval |
| Chat and streaming (`app/services/chat_service.py`, `useChatStream.ts`) | `chat_messages`, the browser's message list | answer, stream, abort | a shown answer belongs to the last question |
| Pages (`ChatPage.tsx`, `DocumentsPage.tsx`, `useAsync.ts`, `sse.ts`) | what the browser shows, loads under way | send, stop, open, load, poll, remove; read frames | what is shown is, or is about to be, what the server has |
| Object store (`app/services/storage`) | the bucket | put, get, delete | no row without its object, no object without an excuse |
| Tasks (`app/services/task_service.py`, the frontend's task pages) | `tasks` | create, bulk create, update, delete | a task belongs to a member |
| Calendar and email (`app/services/calendar_service.py`, `email_service.py`) | `calendar_events` | create, mail, download, render | one invitation per event, which its guests get and can read |
| Splitter and embedder (`app/ai/splitter.py`, `embedder.py`) | – | split, batch, retry, pair | nothing is lost at a cut, no chunk is too long |
| Retrieval (`app/ai/retriever`) | – | two searches, rank fusion | what both searches rank comes first |
| Process lifespan (`app/lifespan.py`, `migrations/env.py`, `checkpointer.py`) | advisory lock, schema | migrate, open the checkpointer, start the runner, stop | one migration at a time; it serves over the schema it needs |
| Audit listing, health and admin endpoints, other pages, evaluation, prompts, scripts, migrations | | | see section 9 |

How they interact: a document upload inserts document and job in one transaction; the
runners of all processes share the job table; `ingest_document` writes the document
row the upload and delete requests write too. A chat with the agent runs a LangGraph
graph whose checkpoint is committed on a connection of its own, and then inserts one
`pending_actions` row per tool call; a `decide` request executes the action and
resumes the graph. Everything the executor does goes through the calendar, task and
email services, and everything leaves an audit entry.

The hard behaviours, all listed with their lines in `PROJECT.json` under `hazards`:
runners that crash, are shut down or lose their heartbeat between any two
transactions; requests that act on a status they read earlier; settling a job by its
id alone; two reviewers deciding at once; a mail that was sent but not acknowledged;
a crash between a side effect and its record; a graph that waits for a decision that
cannot come; a budget read before the work and written after it; an object stored before
its row and erased before it; a screen whose load is overtaken by what its user does.

## 2. Modules

| module | models | kind |
| --- | --- | --- |
| `IngestionQueue` | queue, runner, ingestion job, document requests | detailed specification |
| `DocumentLifecycle` | what a document's status promises | abstract specification of it |
| `MCIngestionQueue` | instances, symmetry | model checking |
| `IngestionQueueProofs` | type correctness, safety, paid once but for faults, bounded attempts, the refinement of `DocumentLifecycle` | proofs |
| `ApprovalGate` | proposals, decide requests, executor, paused agent runs | detailed specification |
| `ConsentGate` | nothing is carried out without unspent consent to it | abstract specification of it |
| `MCApprovalGate` | instances, symmetry, the claim the code does not keep | model checking |
| `ConsentGateProofs` | what consent amounts to | proofs |
| `ApprovalGateProofs` | type correctness, membership, truthful statuses, the refinement of `ConsentGate` | proofs |
| `Membership` | roles, removals, invites, and the requests that change them | detailed specification |
| `Roster` | what a workspace promises of its members and offers | abstract specification of it |
| `MCMembership` | instance, symmetry | model checking |
| `MembershipProofs` | type correctness, invited only, an admin remains, the refinement of `Roster` | proofs |
| `Session` | refresh tokens and their rotation, requests, tabs, logout | detailed specification |
| `MCSession` | instances, symmetry | model checking |
| `SessionProofs` | type correctness, nobody forgotten, what holds of a session nothing disturbs | proofs |
| `DocumentStore` | uploads and deletions between the table and the bucket | detailed specification |
| `DocumentsPage` | the documents screen over it: loads, poll, removals | composition with `DocumentStore` |
| `MCDocumentStore`, `MCDocumentsPage` | instances, symmetry | model checking |
| `DocumentStoreProofs` | type correctness, rows have objects, halves have excuses, the limit's overshoot, the screen | proofs |
| `RateLimit` | the middleware's fixed windows | detailed specification |
| `ChatTurns` | questions, streams and agent runs, their messages and bills | composition with `RateLimit` |
| `MCChatTurns` | instance, symmetry | model checking |
| `ChatTurnsProofs` | type correctness, the ledger, the order of a conversation, the limits, the budget | proofs |
| `ChatPage` | the conversation screen of one browser | detailed specification |
| `Splitter` | paragraphs to chunks, chunks to vectors, both to rows | algorithm |
| `FrameReader` | `readEvents` over a stream that is cut anywhere | algorithm |
| `IcsWriter` | `build_ics` and the client that undoes it | algorithm |
| `RankFusion` | two rankings and their reciprocal rank fusion | algorithm |
| `TaskBoard` | tasks and who they are given to | detailed specification |
| `Diary` | events, their guests, and how these learn of them | detailed specification |
| `Startup` | boot migration, lifespan, shutdown and crashes of several processes | detailed specification |
| `MCParts` | instances of the last seven, one machine to a behaviour | model checking |
| `MCStartup` | an instance, the claim the code does not keep | model checking |
| `PartsProofs` | migrations, tasks, invitations, the conversation screen, the splitter, the frame reader, the fusion, the writer of invitations | proofs |

A detailed module opens, after its variables, with a section of *mistakes*: mutated
definitions the code could have been written as. Each property is known to fail once
one of them replaces the definition it imitates (`mutants` in `PROJECT.json`).

### IngestionQueue

A database transaction is one step, taken at its commit. Each `await` between two
transactions is a step boundary. The runner's program counter:

| `pc[w]` | the runner is ... | leaves by |
| --- | --- | --- |
| `down` | not started | `Start` (`IngestionRunner.start`, `reclaim_expired`) |
| `idle` | polling | `Claim` (`claim_next`, heartbeat task started) |
| `claimed` | in `ingest_document`, before its first commit | `BeginIngest`, `IngestError` |
| `ingesting` | extracting, splitting, embedding | `Embed`, `IngestError`, `EmbedError` |
| `embedded` | in the transaction that replaces the chunks | `FinishIngest`, `CleanupError` |
| `ingested` | back in `_drain_one` | `Complete`, `CleanupError` |
| `completed` | `complete` committed | `Purge`, `CleanupError` |
| `failing` | in the except clause | `Fail`, `Abandon` (fail itself raised) |
| `releasing` | cancelled inside the try block | `Release` |

`Crash` is possible everywhere, `Shutdown` wherever the code catches the
cancellation. Paying and storing are apart: `embedded` counts what the embedder was paid for
a document's text, at `Embed` or, for batches that are lost when a later one raises, at
`EmbedError`; `billed` counts the usage rows, which go in with the chunks. A set of chunks has
the number of its usage row for a name, and `gone` is what a runner's open transaction has
deleted: it does not see what another one commits after that. `Heartbeat`, `HeartbeatDies` and `Lapse` move the lease. Upload,
deletion, and re-upload of a failed document are requests; the re-upload is split in
two (`RetryRead`, `RetryCommit`) because its decision rests on an earlier read.

Data left out: names, bytes, text, error messages, workspace ids, and the clock. The
code asks one question of the clock, whether `lease_until` has passed, so a lease is
`none`, `live` or `lapsed`. Job ids increase and stand for `created_at`.

### ApprovalGate

A `decide` request is the sequence `Click` (the row is read and the request found
acceptable), `Approve` or `Reject` (first commit), `Execute` or `ExecuteFails` (mail
leaves, rows are flushed), `Executed` or `MarkFailed` (second commit) and `Tell`
(`_resume_graph`); `Lost` ends it anywhere. The agent's side is `TurnRun` (the graph
runs and its checkpoint is committed), `TurnCommit` (its calls become pending or
refused rows in the request's one commit) and `TurnLost`. `Propose` is the email
endpoint. `Alter` changes a stored payload behind the application's back, as
`app/tests/test_agent_approval.py` does: the hash check exists for it.

An event without guests (`Private`) is told nobody: it sends no mail and needs no
provider. A payload is a model value with a set of addressees; its hash is the payload itself
(SHA-256 of canonical JSON taken as injective). Audit entries are counters. LangGraph
is not in the repository: `asked`, `Resumed` and the one-decision rule of `Tell` model
it from how `graph.py`, `state.py` and `agent_service.py` use it: a resume must answer
all paused calls, an unpaused graph ignores one, a resumed run may ask again. One
`run_agent` request per thread is in flight at a time.

### Membership

Here a transaction is several steps, because the services read in one statement and
write in another. A request in flight is a record `req[q]`; its field `at` is the next
statement:

| request | `at` goes through |
| --- | --- |
| `change_role`, `remove_member` | `reading` (target row), `counting` (if the target is an admin about to stop being one), `writing` (`UPDATE` or `DELETE` and commit) |
| `create_invite` | `looking` (the pending offer to supersede), `offering` (revoke, insert, commit) |
| `accept_invite` | `checking` (already a member?), then `joining` or `confirming`; `expiring` when it is too late |

The permission check (`require_admin`, `get_workspace_context`) is the request's first
step; of the caller's membership it keeps the role alone, so `Read` loads the target's row
afresh even when it is the caller's own. `seat` tells the rows of one
user apart: an update of a row that is gone fails, even if the user has joined again.
Removal is a change to the role `none`. The unique constraints of both tables are in
`Join` and `Offer`. A user stands for an address, a token for its invite.

`overlap` is a history variable: have two requests ever been in flight at once? It
separates what concurrency breaks from what it does not.

### Session

One user, one browser, several tabs with a few requests each. The refresh token is in a
cookie and its CSRF value in localStorage, which the tabs share; the access token is a
variable of each tab. A token, and the CSRF value and access token minted with it, is
named by the *exchange* (login or refresh) that minted it, 0 being none; so the server's
check (`Granted`) compares three numbers. An exchange travels in steps:

| `exch[e].at` | the exchange ... | leaves by |
| --- | --- | --- |
| `unused` | has not been sent | `Send` (in `Open`, `SignIn`, `Refused`), `Elsewhere` |
| `sent` | is on its way to the server | `Check` (a refresh, up to the comparison of the jti), `Issue` (a login), `Refuse`, `ServerError` |
| `checked` | has been found valid, its new token not yet committed | `Issue` |
| `issued` | is committed; the answer is on its way | `Arrive`, which sets the cookie whoever reads the body |
| `arrived`, `denied` | waits for the tab's script | `Refreshed`, `Entered`, `Denied`; `Drop` when nobody waits any more |

A request (`call[t][c]`) is `sent`, served, or refused with 401; then it is `waiting` for
the refresh its tab shares (`flight[t]`), and `again` on its way with the new token, once.
A reload waits for a refresh of its own first (`opening`), the login form for its answer
(`entering`); a logout is `leaving` between its read and its commit and has `left` before
its answer reaches the browser. `Unreachable` is a refresh whose `fetch` throws, `Fails`
any other request that does. `Close` is closing or reloading a tab: what it sent goes on.

`calm` is a history variable: has anything happened yet that may end a session in spite of
the code? Failures, another device, an expired cookie, exchanges of two tabs that overlap,
a login beside a refresh, a logout beside other requests, a tab closed in the middle of its exchange, and a second
401 right after a refresh disturb it; any number of requests that find the token
expired, late or early, and tabs that take turns, do not. Overlapping refreshes of two
tabs do destroy the session: `refreshInFlight` is a variable of one tab, the token is
shared by all of them.

### DocumentStore and DocumentsPage

No transaction spans a table and a bucket. `upload_document` is `Upload`, `LookUp` (the
hash), then `CountRows`, `PutObject`, `InsertRow`, or `Requeue` for a failed document;
`delete_document` is `Delete`, `Find`, `EraseObject`, `DeleteRow`. Each is one statement
or one call of the store, `Dies` may end any request in between, and a call of the store
may fail with or without effect. A row is named by its storage key, which is fresh. The
runner of `IngestionQueue` is reduced to `TakeJob`, `ReadObject` (the object may be gone),
`Publish` (the commit that makes the row ready) and, in a transaction of its own, `Finish`
(the job is completed); anywhere in between a run may be `Interrupted`, which leaves row and
job to another run, or be the last attempt and fail (`GivesUp`). So a document that is ready
may be processed again, and may fail. `condemned` and `collided` are history variables, the
excuses of a row without object and of an object without row.

`DocumentsPage` adds the browser: `list` is what it shows, `load` the one load of
`useAsync` whose generation is current, `asked` what it waits for. A removal filters the
list of the render it was clicked in (`captured`). Two history variables say what the page
cannot know: `tangled` (a load failed, or a removal overlapped something), and `unfinished`, the
documents some run made ready without completing their job: the poll has ended, and what
another run makes of them nobody tells the page.

### RateLimit and ChatTurns

A request is counted by an upsert that holds its row, so `RateLimit` counts, sweeps and
decides in one step; when the counter is unavailable the request passes. `ChatTurns` puts
the three chat routes behind it. A request goes from `asked` (its identity is checked, the
budget read) over `opened` and `begun` (its transaction has started) to `retrieved` or
`running`, `priced`, and to one commit of thread, messages and ledger; a stream checks its
budget once more, inside the response that has begun. A turn is named by the start of its
transaction, for that is what `now()` writes into every `created_at`; the ids of its two
messages are ordered. `checkpoint` is what the graph's messages of a thread have cost, on
a connection of its own. `spent` is a history variable: what a turn has really cost.

### ChatPage

The turns of one browser, each with its `fate` on the server and the `ear` the page has on
it: a stream that is opening, being read, finished or over, and whether it has been aborted. The
page's state is the code's: `asking`, `answer`, `streaming`, `abort.current`, `thinking`,
`active`, the thread of the history and its load. An abort reaches a stream's loop only
when it comes to its next event or to its `finally`. `excuses` is a history variable of what the
page has no answer to, and each property names the excuses it grants: a message sent
before the turn before had settled (`rushed`), an agent run sent while an answer is awaited
(`crossed`), a view changed during an agent run (`strayed`), a load that failed (`broken`,
`unloaded`), a stream abandoned before its thread was committed (`abandoned`).

### The small machines

- `Splitter`: a paragraph is a sequence of ink and blanks, a character keeps its identity,
  so the model can tell what a cut has lost. `TakeLong`, `TakeFitting`, `TakeNext` and `EndPage` are the greedy
  loop with `_hard_split`, then come the batches of the embedder with their retries, and
  the rows that pair texts with vectors. A hard split may end with a piece that the one
  before contains whole; it is embedded and paid for again.
- `FrameReader`: the stream is a sequence of symbols, of which the reader has been given the
  first `arrived`, in chunks of any size; `ends` says where each frame ends. A data line is
  two halves, so that a frame can be torn inside its JSON. `Only` picks the lines of a frame
  by their places instead of going through them, so that it can be reasoned about.
- `IcsWriter`: characters with widths in octets, and the name of a property one symbol.
  `Put` is one turn of the loop in `_fold` and `EndLine` the join of the lines; in the code
  they make a string, here each symbol is handed to the client as it is written
  (`Receive`), for what a client reads depends on the order of the symbols alone. The
  client (`Handed`, `Understood`) follows RFC 5545, not the code. `CN` parameters are
  escaped like text, where the RFC wants quotes; the properties ask of them no more than
  that nothing breaks.
- `RankFusion`: scores are fractions. `Candidates <= K + 1` is an assumption: with it what
  both searches rank is above what one of them ranks first. The program's numbers are 20
  and 60.
- `TaskBoard`: a request is a series of statements; `members` come and go between them.
  A PATCH assigns every field it names and the unit of work writes those that differ from
  the row as it was read, so two PATCHes can end in a mix that no order of them gives.
- `Diary`: a proposal's guests are resolved when it is made, and invited even if they
  leave before the decision, as the executor's docstring intends. Mail goes out before
  the commit, so a rolled back event may have been announced.
- `Startup`: processes overlap, as in a deploy, and crash anywhere. The connection of the
  boot migration is modelled with its transaction: the first statement begins it, Alembic
  leaves a transaction it did not begin to whoever did, closing rolls back.

## 3. Abstract specifications

`KeepsLifecycle` is `DocumentLifecycle!Spec` with `status <- docStatus` and
`searchable <- Searchable` (there is a set of chunks). Every step of the queue is a legal move of one document (or,
for a reclaim, of several that go back to pending together) or a stutter. In
particular a document that failed is never revived by a runner, and `ready` appears
only together with its chunks.

`KeepsConsent` is `ConsentGate!Spec`, where a request has consent from its approved
commit until its side effect (the mail for emails and events, the committed rows for
task batches). Every step of the gate grants one consent, spends one on exactly the
payload it was given for, wastes one, or stutters.

`KeepsRoster` is `Roster`'s initial condition and next-state relation, weakened to
allow anything once requests have overlapped: until then, the several statements of a
request amount to one `Propose`, `Admit`, `Settle` or `Change`, or to nothing, and every
`Change` leaves somebody who can manage the workspace.

## 4. Runs

| run | instance | what it shows |
| --- | --- | --- |
| `ingestion` | 2 documents, 2 runners, 1 re-upload, 3 jobs, 2 attempts, 1 fault, heartbeats run | one worker per job, nothing lost, paid twice or stored twice, the lifecycle and `Settles` |
| `ingestion_stalled` | 1 document, 2 runners, 2 re-uploads, 3 jobs, 3 faults, heartbeats may die | what survives when two runners share a job: attempts are bounded, and used up before a document is retired |
| `approval` | an event with guests, one without and a task batch in one thread, an email; 2 reviewers, 2 decisions, 1 fault | consent, members only, truthful statuses |
| `membership` | 3 users, 2 requests, 2 invites, 4 requests in all | only the invited get in, whatever races; without overlaps an admin remains and `Roster` is kept |
| `session` | 2 tabs with 2 requests each, 4 exchanges, 1 failure | who waits is answered; a session nothing disturbs is never denied and survives a reload |
| `documents` | 3 files, one without text, 2 requests, a limit of 1, 3 keys, 1 fault | rows have objects, halves of documents have an excuse, the limit gives by one |
| `documents_page` | 2 files, 2 requests of one page, 1 fault | the list rests on what is not so only where a run broke off after the document was ready |
| `usage` | 2 requests, 3 turns, limits of 1, a window of 2 ticks on a clock of 3, a budget of 2 | limits, ledger, budget, order of the history |
| `chat` | 3 turns, 1 change of view | the screen |
| `parts` | seven machines, one to a behaviour; see below | splitting, framing, folding, fusing, tasks, invitations, boots |
| `approval_race`, `startup` | smallest instance | findings, section 7 |

Type invariants are proved, not run.

`documents_page` has a state constraint, `Untangled`: behind a tangled state every state is
tangled and `RestsOnTruth` has nothing to say, so it cuts off no counterexample.

Bounds: `MaxJobs` limits job rows ever created (three let a document fail, be queued
again and be queued a third time beside a stale runner), `MaxFaults` crashes, shutdowns
database errors and embeddings that broke off half paid (other ingestion errors are
unlimited), `MaxCalls` and `MaxClicks`
proposals and decisions. Two runners and two requests suffice for every pairwise
interleaving, and all the races of this code are between two parties and one row. The
limit of two attempts lets a job fail once, be tried again and be given up. The
invariants of section 6 are proved without any of these bounds.

Three keys let one upload win, one lose and one come after; a document limit of 1 is the
smallest that two uploads can pass together. A clock of three ticks holds two windows and
a boundary, a budget of 2 is used up by one turn and not by half of one, and three turns
let one begin before, between and after two others. Three turns on the screen are one
that is shown, one that replaces it and one after that; one change of view takes the user
away before, during or after any of them, and clears all that a second would find. The
theorems about the screen hold for any number of either.

In `parts`: chunks of 5 characters with an overlap of 2, so that a chunk holds two short
paragraphs or one, and a long paragraph (6 or 9 characters, blanks at every place that
matters) is cut once or several times; two pages, batches of two, two attempts. Three
frames in each of the three line endings, cut anywhere. Titles of at most three
characters of every kind the writer tells apart, and descriptions of up to five, with
escapes, wide characters and blanks wherever a fold can fall, at the smallest width the
format can have. Four passages of which a search returns three. Two
members, tasks, events and requests each, symmetric; five deployments. Three processes,
two that migrate and two that work.

Runs without deadlock checking: a queue without documents, and a gate without
proposals, may rest for ever, and the bounds stop the model eventually, as do
`MaxRequests` in `Membership` and `MaxExchanges` in `Session`, and all bounds of the
later modules; their machines, too, may be idle for good. In `Session`, four exchanges are a
login, a refresh whose token is rotated again, and one more for the other tab; `Room` keeps
one exchange for each request under way, so that no request is stuck at the bound.

## 5. Fairness

`Settles` is the one liveness property; browsers, clients and clocks promise nothing that
another could rest on. It is checked under `FairSpec`: weak fairness
of `Start`, `Claim` and `Work` of each runner and of `Lapse`. The lifespan of every
process starts its runner and the platform restarts processes that die; `_loop` polls
without end and awaits each step; clocks advance. Nothing is assumed of requests, and
no fault needs to happen. Weak fairness of `Claim` suffices because only runners take
jobs and there are finitely many. `Work` as a whole is fair, not each outcome: an
ingestion may fail every time.

## 6. Theorems

All are proved for every value of the constants, from `QueueAssumption` (finitely many
workers) and `GateAssumption` (what is private is an event, every action has a kind and a thread or
none), where the values that stand for "none" are not elements of the sets they are missing
from and bounds are naturals, and `MembershipAssumption` (finitely many users,
the founder is one), `SessionAssumption` (finite sets of tabs and slots), `StoreAssumption`,
`LimiterAssumption`, `TurnsAssumption` (finitely many request slots, and a dearest turn),
`StartupAssumption`, `TaskAssumption`, `DiaryAssumption`, `PageAssumption`,
`SplitterAssumption` (the overlap is less than a chunk; a paragraph begins and ends with
ink, as the code's `strip` leaves it), `ReaderAssumption` (a server ends its lines in one of
the three ways of the format), `FusionAssumption` (finitely many passages,
`Candidates <= K + 1`) and `IcsAssumption` (a character is one to four octets wide, as in
UTF-8, and a line holds at least five octets, the widest character behind the space of a
continuation; the code's limit is 75); otherwise these say that sets and numbers are what they are called.
Nothing else is assumed, unless stated.

**IngestionQueue.** `TypeCorrect` is inductive by itself. None of the safety properties
is; they follow from the invariants at the end of the module, most of which need the ones
before.

- `TableInv` holds whatever the faults (`TablesInOrder`). It adds to `OneRowPerDocument`,
  `TextStored` (the half of `ReadyIsSearchable` that needs no heartbeat) and
  `RetiredAtTheLimit` what they lean on: job ids below `nextJob`
  are the ones handed out, a row belongs to a document that exists, a runner holds an id
  that was handed out, a re-upload read a document that was once uploaded. Without the
  last, `RetryCommit` could queue a document that was never there. `NoSecondRow` and
  `RetiredOnlyAtTheLimit` follow.
- `LeaseInv` needs `~HeartbeatsFail`: a runner with a job has a beating heart, its row
  is not pending, and if running its lease is live, so neither `Claim` nor `Start` can
  give the row to another runner. `NoSecondWorker` follows.
- `StoreInv` rests on it: a runner that has yet to store its chunks (`Busy`) has a running job,
  which nobody else can take up, and what it has deleted in its open transaction is all there is, so
  its chunks take the place of any before them. With `TextStored` this is `ReadyStaysSearchable`.
  Without heartbeats it is false: each of two runners deletes what it sees and adds its own.
- `QueueInv` needs, besides, one re-upload at a time (`OneAtATime`; of two, the second may
  queue nothing, see section 7). `WorkInv` ties the position of a runner to its row
  and its document: a runner that is `ingesting` works for a document that is
  `processing`, one that is `ingested` for a `ready` one. So whenever a step removes or
  retires the row, the document has settled or settles in that step. `NothingIsLost` and
  `ImplementsLifecycle` follow; the latter goes through the actions and names, for each, the
  move of the abstract document.
- `PaidOnce` needs all of these and `SpentInv`: no document is in the hands of two runners, and it
  has been paid for at most once for each fault, and once more if it is `Settled`, that is, if
  whoever works on it is past the embedding and no other job of it waits. Every step that takes a
  document out of `Settled` is a fault or the re-upload of a failed one, which was not settled; and the step that pays
  brings one in that was not. It is stated under `OneAtATime`, and has to be: two re-uploads that
  overlap can have a text embedded twice with nothing having gone wrong.
- `AttemptsStayBounded` needs none of them: heartbeats may die and runners share a job. `AttemptsInv`
  gives a job that is `Loose` (pending, or running with no live heartbeat but that of a runner about to
  clear it away) one attempt of credit: to become loose beyond the limit takes a fault, for `Fail`
  would have retired it, and a claim trades the credit for the attempt. A runner that is releasing
  carries its own, its shutdown; hence the finite number of workers.

**ApprovalGate.** `GateInv` says that a pending payload went through the resolver, and
that a request acts on a copy that equals the hash it compared and resolves too.
`OnlyMembersAreAddressed` follows at once: `Execute` uses the copy, and an edit cannot
change addressees. `ImplementsConsent` maps each action of a request to `Consent`,
`CarryOut` or `Waste`. `ConsentGateProofs` proves of the abstract gate that effects never
outnumber approvals (`NothingUnasked`, by counting the open consents, for finitely many
reviewers), and `NoEffectUnapproved` instantiates that theorem with the refinement
mapping: what holds of the eight-line promise holds of the gate.

Of the statuses, `ApprovalsAreInHand` is inductive as it stands, once it is known who may leave
`approved`. `SuccessIsCommitted` needs `ToldInv` and `TurnInv`: a graph is paused on calls of
its own conversation only, the calls of a turn in hand have no row yet, and a request that
reports success has counted its action as executed. `TheStatusIsTrue` needs `Truthful` of each
action that one reviewer decided alone: at most one request works on it, while its status is
`approved`, and the position of that request says whether the mail has left and whether rows
are there. The interesting step is a second reviewer's commit, which makes the condition
false rather than the claim.

**Membership.** `InvitedInv` holds under every interleaving: an invite that a request
uses is addressed to the user of that request, and an address never changes once
written. `NobodyUninvited` follows. `AloneInv` says that while no two requests have
overlapped there is at most one, and everything it has read is still so; with the
cardinality lemma `AnotherAdmin` (more than one admin means one besides the target) this
gives `AnAdminRemains` and, action by action, `ImplementsRoster`. The condition is
needed, see section 7: two overlapping requests may each remove the other's admin.

**Session.** `HeldInv` holds whatever fails: what a tab waits for is under way, no two tabs
wait for one exchange, and a request waits only where its tab does. `NobodyIsForgotten`
follows. `CalmInv` describes an undisturbed session: one exchange at most, awaited by a
tab; a logout has the browser to itself; while a token travels, `Course` says how far
server, cookie and localStorage have come, and when none does `Halves` says that they
agree, unless a logout has cleared the server and not yet the browser. The last clause is why
`NoRefreshIsDenied` cannot be proved by looking at refreshes alone: `Refused` must know that
no logout is half done when it sends both halves of the token. `SessionOutlivesReload` and
`WhoShowsMayAsk` are parts of the same invariant.

**DocumentStore.** `StoreInv` adds to `RowHasObject` what a request has in hand: a key that
was given out and that no other upload has, an object stored before the row is inserted, a
row erased only by a request that condemned it. `LimitOvershoot` is not inductive: the rows
are bounded by what has been admitted and not yet inserted, so `LimitInv` counts rows and
admitted uploads together, and needs that sets of requests and of live rows are finite
(`Countable`). `HalvesHaveExcuses` counts, too: an object nobody can reach (`Orphans`) and a
document without its object that no deletion is about to remove (`Headless`) are halves, a step
that leaves a new one raises `faults` or adds its key to `collided`, and `ExcuseInv` says why no
other step can: a key that lost an insert is in nobody's hands, so it is excused once and for
good, and what a deletion has erased stays erased. A key is one half or the other, never both, and
one that was headless is none when its row goes. `PageRestsOnTruth` is about `DocumentsPage`: while nothing is
`tangled`, a removal is alone (`Alone`), what it captured is what the list shows, and at
rest the list and the copy of a load differ from the table by no more than a poll will bring
(`Behind`), but for documents that are `unfinished` and shown as ready. What carries the
induction is `JobsAreUnsettled`: a document with a live job is unsettled, or was just published by
the run that has it in hand, or is unfinished; so a run that takes up a ready document takes an
unfinished one, and no other document changes behind the page's back.

**ChatTurns.** `TurnsInv` follows a turn from its number to its commit (`Sound`: what it has
cost by the point it has come to), and says that numbers are not shared, that none of a
turn in hand is in a table yet and that messages carry the stamp of their turn.
`AnswersPaid` is part of it. `HistoryInOrder` follows because the two messages of a turn
share one stamp, and no other turn has it.

`LimitsAreHeld` rests on `LimitInv` of `RateLimit`: what one row of the counter has let through
is at most the limit and the failures so far, two rows together at most twice the limit and
those failures once, and the current row has counted all that went through it but for the
failures. A stretch as long as a window touches two rows at most. `BudgetIsNearlyHeld` rests on
`BudgetInv`: what has been covered, and for each turn under way what one turn may cost at most,
is less than the budget and the dearest turn of every slot. A turn that begins has read a
ledger below the budget; one that ends trades its reserve for its cost. What the ledger says and
what turns have cost are compared by an injection of the units of one into those of the
other, for sums are cardinalities here (`SumOver`), of which the library has the theorems.

**Parts.** `UpgradesAreSerial` needs that whoever is between lock and unlock holds the lock.
`TasksGoToMembers` is an action property: `TaskOK` says that a request has looked up
everybody it names but those it has `left`, each a member at some moment of it, and
`WritesWhomItLookedUp` that what is written is among them. `InvitationsAgree` and
`GuestsLearn` share `DiaryOK`: whatever has been handed out agrees with the row, a row in
hand is held by one host, and an approved one is committed only by a host past its mail.

`InvitationsReadBack` needs two things. One is about texts: `EscapeIsUndone`, by induction
over the length of a text. `str.replace` works from the left, so `Replaced` is
described by what a further character changes (`ReplacedGrows`: one for a pattern of one
character, and for CRLF the last but one as well), hence `Escape` (`EscapeGrows`), and what
the client understands follows character by character; the order of the replacements in
`_escape` is what the induction turns on. `Typed` grows in the same way, and the two agree at
every length but between a CR and the LF that belongs to it. The other is about the run:
`FoldInv` says where in the line the writer is (`LinePlaced`), what the client has made of
the symbols before (`Heard`: the trace that `EscapeIsUndone` provides, at the place the
writer has come to, whatever folds lie before), that the octets the client has counted since
the last end of a line are those the writer has counted, and one more after a fold, when
the limit is one less (`OctetsCounted`), and that a line not folded fits (`AllFit`). A text
never breaks a line, for escaping leaves neither CR nor LF in it; and a space at the start of
a physical line is the fold's, because a content line begins with its name.

The induction has its own footing. `Least` (a set of naturals that is not empty has a least
element) comes from the well-foundedness theorems of the library, which speak of sets;
`DataInduction` and `TextInduction` follow, and a predicate is the set of what satisfies it.

**ChatPage.** One invariant, `PageInv`, has all three properties. `SentInOrder` and `Controlled` hold
whatever the user does: a stream that nobody aborted is the controller's, and the controller is that
of the question asked last; so tokens of two questions are never mixed. `OneUnderWay` and
`ViewKept` say what the page has kept of a turn whose user waits, `Loaded` that a history is of
the thread that is open; from these, what is due is on the screen, or in a copy about to be, or
stands in for itself (`TheAnswerStays`). `InPlace` says where a turn under way belongs, and that
`active` is the open thread but while the stream of a new thread is read (`MessagesGoWhereShown`).
The last property was false as first stated: no proof of the step that sends an agent run could
be found, and four turns show why, of which the run was given three. The excuse `crossed` is what
they taught, see section 7.

**Splitter.** `SplitInv` says that pieces, the chunk being filled included, are texts of at most `Size`
characters, which is `ChunksFit` once a join is known to be counted with its separator and a
window to be no longer than it is cut. `NoRunIsLost` needs `PlacedInv`: every run of what has
been read is in a chunk of its page or in the one being filled, which a step may extend, flush or
cut to its tail, but never drop. Its core is `HardSplitHolds`: windows lie `Size - Overlap` apart,
so the one that begins last before a run of `Overlap + 1` characters holds it whole, and what is
stripped off is blank. `RowsInv` takes it from the chunks to the rows: vectors are those of
the first chunks, in their order, whatever failed and was tried again.

**FrameReader.** `ReadInv` says that there is a frame the reader has come to: what it yielded
are the events before that frame (`InOrder`, with their numbers), and its buffer is what has
arrived since (`HasRead`). `FramesInv` says where in the stream the frames lie. The core is
about one frame: what begins like a frame has no boundary before that frame's end
(`NoneInTheBody`, `NoneBeforeTheEnd`), and its first boundary, once the end is there, is the
pair of endings that closes it (`OneAtTheEnd`). A CRLF whose LF has not arrived is the case to
watch: between CR LF and CR nothing is a pair. What `parseFrame` makes of any beginning
of a frame is a table of three rows (`ParsedIs`), so that the end of the body yields the frame whole,
torn in its data, or not at all.

**RankFusion.** `FusionInv` gives a chunk's score by the place the loop has come to: the sum of the
shares of its ranks among those passed. Sorting is by counting: in a finite linear order the
number of elements below one is its place, each place is taken, and once (`Ranks`; an injection of
a finite set into itself is onto). `TwoOutweighOne` is the arithmetic: two shares, each at least
that of the last candidate, exceed the one share of a first place because `Candidates <= K + 1`.

## 7. Findings

Two have a run that TLC must find violated.

- `approval_race`: two decisions that both read `pending` are both executed; the
  comment in `decide` says the second finds the row no longer pending.
- `startup`: the boot migration is rolled back. `run_migrations` takes its advisory lock
  with a SELECT, which begins the connection's transaction; Alembic, configured with that
  connection, leaves the transaction to whoever began it (`migrations/env.py:117-124`), and
  nobody commits. The process logs that migrations are up to date and serves. CI and the
  tests migrate by the command line first, whose connection is Alembic's own, so
  `test_ingestion.py:663-670` finds nothing left to do. A commit after taking the lock, which
  a session lock survives, would do. The lock is also given back before the transaction
  ends, so serialisation would not survive a commit at the very end.

The others are steps of the models, permitted by the properties, which are stated around them:

- `release` and `claim_next` never look at `attempts`, so a job that keeps being
  interrupted starts more often than `MAX_INGESTION_ATTEMPTS`, though the docstring of
  `release` promises that it gives up in the end (`queue.py:151-152`). Each interruption buys one
  more attempt, and nothing else does (`AttemptsBounded`).
- Two runners that share a job, one with a dead heartbeat, can each store the chunks of its document:
  the second deletes what it saw before the first committed. The document is then ready with every
  passage twice, until it is ingested again; the docstring of `ingest_document` calls it idempotent
  by construction (`ingest_document.py:34`).
- An embedding is paid for before the transaction that records it: what a crash, a database error
  or a batch that raises leaves behind was paid for and is in no ledger, and the next attempt pays for
  the whole text again (`ingest_document.py:58`, `:80-95`). `PaidAgainForFaultsOnly` counts what was
  paid, not what was recorded.
- A ready document whose run is shut down, or crashes, or fails to complete its job, is processed again
  and may even end failed. Its page has stopped polling by then and goes on showing it as ready
  (`DocumentsPage.tsx:36-53`); `RestsOnTruth` excuses just that (`unfinished`).
- `delete_document` removes the object first: a crash before the row goes leaves a document without
  its bytes, ready or pending, until somebody deletes it again. `HalvesAreExcused` counts it against
  that one fault.
- Two re-uploads of one failed document: the second writes `pending` on the strength of a
  read that the first one's job has outdated; nothing is queued, and nothing will ever
  change the status (`document_service.py:92-93` says otherwise).
- `complete` and `purge_terminal_jobs` are inside the `try` of the ingestion, so a database
  error there makes a ready, searchable document `failed` (`queue.py:208-210`).
- A resumed agent run may end on a new interrupt that nobody parses, so the graph waits for a
  decision about an action that has no row (`agent_service.py:286-287`). `_resume_graph` sends
  one decision to a thread, not to a call (`approval_service.py:205`): a graph that is paused on
  another call by then takes it as the answer to that one, and one paused on several takes none.
- Two admins who demote each other, or leave, at once: each request counts two admins, both
  write, and the workspace has none (`workspace_service.py:84`, `:98`).
- A refresh that has compared its token when a logout commits writes the new token's jti
  over the cleared one, and the session goes on (`api/auth.py:79-81` says the token is dead
  the moment the column is cleared). Two tabs that refresh at once present one token twice, and the
  second is denied, which is what `client.ts:21-24` sets out to avoid, within a tab.
- An agent turn is billed for all messages of its checkpoint (`agent_service.py:207`), so
  every further turn of a thread pays for those before it again; what the model is asked
  when every proposal was refused (`agent_service.py:292`), or when a decision resumes the
  graph (`approval_service.py:441`), is not billed at all; and a provider that reports no
  usage is recorded as 0, where the chat path estimates (`chat_model.py:18-23`).
- A stream that its client abandons has spent tokens that no row holds. A stream's second
  budget check fails inside a response with status 200, which `api/chat.py:64-66` calls an
  ordinary 429.
- Requests that were refused count against the rate limit; `Retry-After` and the budget's
  hint are truncated to whole seconds, and the hint is exact for a single event only
  (`usage_service.py:108` calls it a real answer, not a guess).
- On the screen: `meta` sets the active thread before it is committed, so a stop or a failure
  in a new thread leaves an id that does not exist, and the next message is refused; an agent
  run is not cancelled by opening another thread, and its end brings its own back. An agent
  run sent while an answer streams starts in the thread that was active, and when both have
  ended the next message may go to a thread that is not the one shown; the `finally` of a stream that
  was replaced turns the newer one's spinner off (`useChatStream.ts:60`), and a load for the turn
  before wipes the question that has just been sent (`ChatPage.tsx:57`);
  `ChatPage.tsx:25-26` says the two ids differ only while a new thread is being streamed into.
- A removal on the documents page restores whatever list it was clicked on, over an upload or a
  load that finished meanwhile, until the next load.

## 8. What is only model-checked

`Settles`, for liveness is beyond the proof system used here. Every other property of a
passing run is a theorem. `Splitter`, `FrameReader` and `RankFusion` need no induction over
data: they proceed by steps, and the cuts, lines and sorts of one step are stated by places
and cardinalities. What `Replaced` and with it `Escape` do to a text of any length does need
it, and the library's induction theorems take the predicate as an operator, which none of
the provers can instantiate; so `PartsProofs` proves induction for sets in place of
predicates (`DataInduction`, `TextInduction`), see section 6. The findings of section 7 are
counterexamples or steps of the models, not theorems.

## 9. What is not modelled, and why

- How `DocumentStore` and `IngestionQueue` share a document is stated, not composed: each has the
  other's part in a reduced form. A request that uploads several files is several requests;
  `signed_url` has no caller.
- How long the connection of a stream's request stays open beside the generator's own
  (`api/chat.py:83`), and so how many streams exhaust the pool: the framework decides.
- The other side of `created_at`: clocks that go back. Ids are taken to increase.
- Concurrent graph runs of one thread write their checkpoints as they end, the last one wins;
  LangGraph is not in the repository. The list of threads beside the conversation may be
  stale until its next load.
- Lock waits and deadlocks inside one transaction: each transaction is atomic here. The
  re-upload locks document then job, `fail` job then document; Postgres aborts one, which
  is a request that did not happen, or `Abandon`.
- A heartbeat that is late though it is alive (an event loop blocked longer than the
  lease): it has the effect of `HeartbeatDies`.
- `revoke_invite`: nothing calls it, there is no endpoint; invites are revoked when a new
  one supersedes them. Invites to addresses that never register stay pending and are
  like those nobody accepts.
- In `Session`: sending is one step (the script reads localStorage, the browser adds the
  cookie); a tab is not closed while it signs out; a logout that fails either never reached
  the server or did all it does. Whether a page that is restoring ever stops is not asked: a
  refresh whose `fetch` throws leaves it so (`AuthContext.tsx:40`), and only a reload helps.
  Registration is one insert; passwords and token formats are abstracted.
- Matching a name to a member (`resolve.py`): the models take its result. Of a task only the
  assignee is kept; the update of a row that was deleted meanwhile is an error and no change.
  The organiser of an event never changes, for the program neither deletes nor renames users.
- Providers' wire formats, times and time zones of events, rendering of email bodies,
  extraction from PDF and DOCX, the back-off between embedding attempts.
- Audit listing, health and admin endpoints: single statements guarded by one permission
  check.
- Prompts, evaluation, scripts, other pages, logging, request context: text, offline tools
  and layout.

## 10. Plan

Done, in this order: `IngestionQueue` and `ApprovalGate` with their abstractions,
`Membership` and `Roster`, `Session`; `DocumentStore` with `DocumentsPage`; `RateLimit` with
`ChatTurns`; `ChatPage` with `FrameReader`; `Splitter`, `RankFusion` and `IcsWriter`;
`TaskBoard`, `Diary` and `Startup`; proofs of every safety property but those of section 8.

Left, in order of importance:

1. `DocumentStore` and `IngestionQueue` composed over one document row.
2. Recipient matching against a reference definition on bounded directories.

The project keeps to a dozen runs, and has them: a new question takes the place of an
instance that another run covers as well, and small machines join `parts`.
