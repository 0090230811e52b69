# Support ticket management: a verification project

The repository is a FastAPI service for support tickets. Clients create
tickets, change their status and assign agents; every change leaves a row in an
audit table; a worker process receives an SQS message for every new ticket,
computes a triage result and stores it. This project models the parts of it
where several requests, transactions, messages and processes meet, checks the
models with TLC on small instances, and proves what matters most with TLAPS for
every instance. Line numbers below are lines of the repository's files.

## The system

| Component | State | Operations | Where |
| --- | --- | --- | --- |
| Ticket service | `tickets`, `ticket_events` | create, update status, assign/unassign, get, list | `app/services/ticket_service.py`, `app/repositories/ticket*.py`, `app/api/v1/tickets.py` |
| Sessions | one transaction per request, READ COMMITTED, row locks | begin with the first statement, flush, commit, roll back | `app/database.py` |
| Publisher | none | `publish_created`, after the commit | `app/queue/publisher.py` |
| Queue (SQS, LocalStack) | messages, receive counts, DLQ | send, receive, delete, visibility timeout 60 s, redrive after 3 receives | `scripts/localstack-init.sh` |
| Worker | stop event, current batch | receive, handle, delete, stop | `app/worker.py` |
| Processing service | `ticket_processing_results`, `ticket_events` | `process`, `record_failure` | `app/services/processing_service.py`, `app/repositories/processing_result.py` |
| Users and agents | `users` | get-or-create customer, create/update/deactivate agent, list | `app/services/agent_service.py`, `app/repositories/user.py` |
| Schema, plumbing | none | DDL, routing, error mapping, settings, logging | `migrations/`, `app/api`, `app/main.py` |
| Console | the page's own | manual test page | `frontend/index.html` |

How they interact. An HTTP request gets a session and a service
(`app/api/deps.py`). A handler is a coroutine: between any two of its awaits
other handlers run, and the worker is another process altogether. They share
the database and nothing else; the API tells the worker of a new ticket by a
message, which may come late, twice, or never.

What is hard:

* **Reads without locks.** `update_status` and `assign_agent` read a ticket with
  a plain SELECT, validate what they read, and write later. READ COMMITTED lets
  another request commit in between.
* **Writes of changed columns only.** The ORM's UPDATE names the columns whose
  value differs from the one the session *loaded*, not from the one in the
  table. Setting a value "again" writes nothing, and two sessions on one row
  can produce a mixture.
* **Time.** `created_at` is `now()`, the time the transaction began; commits
  happen in another order.
* **At-least-once delivery** with a visibility timeout that nothing extends,
  batches handled one message at a time, and a receive count that also counts
  receives that came to nothing.
* **Failures between two effects**: between commit and publication, commit and
  acknowledgement, commit and refresh, processing and deletion.
* **A worker that ends.** Deletions and the parsing of a message's id are
  unguarded, the container is not restarted, and a stop is looked at only
  between batches.
* **Check, then insert.** A user is looked up by e-mail address and then
  inserted; only the unique index stands between two requests that have both
  found the address free, and it makes one of them wait for the other.
* **A bounded pool of connections**, which a request needs at its first
  statement and again at the refresh after its commit.
* **Pages of a moving table.** Count and page are two statements, pages are
  offsets, and rows appear in another order than their `created_at`.

For each component, what makes it correct: the ticket tables agree with their
audit log, and the log explains every change; a request's answer tells what it
did; a result row and its PROCESSED event come together; no message leaves the
queue before its ticket was processed; a requested stop loses nothing; every
message is decided; an address has one user, a column of his changes only to
what somebody asked for, and an answer tells what became of the request; a walk
through the pages misses a ticket only for a reason one can name. `PROJECT.json`
lists the hazards, each at its line, and the properties that cover it.

## The modules

| Module | Models | Uses |
| --- | --- | --- |
| `TicketEnums` | the vocabularies of `app/enums.py` | |
| `TicketLog` | abstract: a ticket and its audit log change together | `TicketEnums` |
| `Tickets` | PATCH requests on sessions, row locks and a connection pool | `TicketEnums`, implements `TicketLog` |
| `TicketsProofs` | theorems: types, locks, status and its log | `Tickets` |
| `TicketsLogProofs` | theorems: assignments, answers, `TicketLog` implemented | `TicketsProofs` |
| `Triage` | what the worker computes of a ticket | `TicketEnums` |
| `ProcessingPromise` | abstract: at least one run for every message that is done with | |
| `Processing` | publication, queue and workers | `Triage`, implements `ProcessingPromise` |
| `ProcessingProofs` | theorems for any number of workers, `ProcessingPromise` implemented | `Processing` |
| `ProcessingDeliveryProofs` | theorem: how often a message is handled | `ProcessingProofs` |
| `ProcessingDeployedProofs` | theorems for the one worker that is deployed | `ProcessingProofs` |
| `SupportDesk` | the API and the worker over one database and one log | `Tickets`, `Processing` |
| `SupportDeskProofs` | theorems about the composition | `SupportDesk`, `TicketsLogProofs`, `ProcessingProofs` |
| `Directory` | users: customers of tickets, agents | `TicketEnums` |
| `DirectoryProofs` | theorems about `Directory` | `Directory` |
| `Listing` | pages of tickets or users while they change | |
| `ListingProofs` | theorems about `Listing` | `Listing` |

Each `MC...` module is a small instance for TLC. Definitions marked *wrong on
purpose* are the mistakes that a property is known to catch: with one of them
in the place of the definition after it, TLC finds the property violated.

### Tickets

Concurrent PATCH requests on the tickets table. State:

| Variable | In the code |
| --- | --- |
| `stored`, `status`, `agent_id` | committed rows of `tickets` |
| `events` | per ticket, the committed rows of `ticket_events`, in commit order |
| `rowLock` | PostgreSQL's lock of an updated row, until its transaction ends |
| `clock` | counts transactions; a transaction's `now()` is the value at its begin |
| `pc`, `call`, `txn` | where a handler is, its arguments, what its session has loaded |
| `answer` | 200, 200 of an update that changes nothing, 404, 422, or an error |

One action per await of the handlers: `Accept` (the route), `EnsureActor`
(`_ensure_actor`), `LoadForStatus` and `LoadForAssignment` (`tickets.get` and
the checks that follow without an await), `LookupAgent` (`users.get`), `Flush`
(the UPDATE and INSERT of `events.record`, where the lock is taken), `Commit`,
`Refresh`. `Abort` is any exception, lost connection or crash inside the
transaction, `LoseAnswer` any after the commit. `CreateTicket` is what other
requests see of `create_ticket`: ticket and CREATED event at once.

`Connected` are the requests that hold a connection: from the first statement of
a transaction to its end (`app/database.py:11`). `FreeConnection` guards the
first statement and the refresh. `PoolSize` is `db_pool_size + db_max_overflow`;
a wait that times out is an `Abort`, or a `LoseAnswer` at the refresh.

**TicketLog** is what the service promises of the tables, without requests: a
change and its entry come in one step, the log only grows, and the old value of
an entry is one that the log once gave the ticket, namely at the length (`read`)
it had when the request read the ticket. It allows stale reads, since the code
has them, and nothing else. `ImplementsLog` maps `log` to `events` without their
times and authors.

The history fields `by` and `read` of an event (who wrote it, and how long the
log was when that request loaded the ticket) are not in the table; they let the
properties say "the two requests overlapped".

What is abstracted: users are a fixed set (rows are never deleted and roles
never change), subjects, descriptions, priorities and categories are left out,
ids are model values, each request is sent once.

### Processing

From the commit of a ticket to the decision on its message. State: the result
rows with their columns (`computed` stands for the five computed columns, which
are written together), the number of PROCESSED events of each ticket,
the place and receive count of each message, and for each worker its place in
the loop, the rest of its batch, the receipt it is handling and the row its
session has read.

`CommitTicket`, `Publish`, `EndPublish` are `create_ticket` from its commit on;
`Publish` may happen never, once or several times before `EndPublish`, because
the client library retries, the answer may be lost, and the process may die.
`Poll`, `Receive`, `ReceiveFails`, `Take`, `Delete`, `Stop` are `Worker.run` and
`_handle_message`. `HandOut` is what a ReceiveMessage does in the queue; if only
its response is lost (`ReceiveFails`), the messages are counted and in flight
and nobody has them. `Load`, `SaveCompleted`, `SaveUnacknowledged`,
`ProcessFails` are `process` and the ways it can end; `LoadForFailure`,
`SaveFailed`, `RecordFails` are `record_failure`. A message is about a ticket,
or names none (`Unknown`), or is deleted unread (`Garbage`: no JSON, another
event), or ends the worker (`Malformed`, `Choke`: worker.py:95 and 105 stand
outside of any try). `Vanish` is a message that the queue forgets, because its
retention period has passed or LocalStack was started again. `Expire` is the
visibility timeout, `Spent` the redrive policy, applied when somebody receives,
as SQS does. `DeleteFails` and `Crash` end a worker; `RequestStop` is the signal
handler; `Restart` is somebody starting the container again.

`Pursued(t)` are the messages of a ticket that are in the queue or in the
dead-letter queue, `Forgotten(t)` those the queue has lost after a worker had
tried them. `AbandonedIsPending` is about README.md:79, which leaves tickets
whose publication failed to a re-publisher that walks the PENDING rows: a ticket
that was never processed and that no message pursues is PENDING, so that such a
walk finds it, with the one exception the code has. If a worker has tried the
ticket and recorded its failure, and the queue then forgets the message, the
ticket is FAILED and nothing will come back to it. `FailedIsPursued` is the
other side: a FAILED row is pursued, or is that exception.

`RowIsConsistent` says what the columns of a row mean together; it holds with the
one worker that is deployed. With several, a COMPLETED row can keep the
`error_message` of a concurrent failure (processing_result.py:55);
`MixtureIsOverlap` says that only a worker whose row another one has changed
since it was read leaves such a row.

The flush and the commit are one step here: the UPDATE holds the row's lock
from the flush to the commit, nothing of it is visible before, and neither
decides on anything it reads. `Written` is the UPDATE of changed columns.

The insert branch of `save_completed` and `save_failed` is not modelled for
tickets: a ticket with a message has a result row, inserted in the same
transaction (`PublishedAfterCommit` checks the premise). For an unknown ticket
`save_failed` violates the foreign key, which is `RecordFails`.

**Triage** computes the five columns: the priority from the keywords that occur,
the department from the category, the summary (its length; the ellipsis makes
it 201), and the spam verdict from the number that the generator seeded with
the ticket's id gives first. Being a function of the ticket, it is the same in
every run, which is what `ProcessingPromise` says: further runs of a ticket
store the same outcome.

**ProcessingPromise** has accepted tickets, runs, outcomes and the fate of each
message. A message is done only after a run of its ticket, or given up. Its
`GiveUp` takes several messages at once, as one receive may move several to the
dead-letter queue. `ImplementsPromise` maps `outcome` to the computed columns and
`fate` to the message's place.

### Directory

Concurrent `POST /tickets` (as far as the customer goes), `POST /agents`, and
`PATCH` and `DELETE /agents/{id}`. `users` are the committed rows, `claim` the
uncommitted entries of the unique index on the address: `Insert` waits while
another transaction has one and ends in the 500 of a violated constraint once
that is committed. `Commit` makes the new user and the ticket that was inserted
after him visible together. `LoadAgent` and `Write` are the two halves of an
update; `Updated` writes the columns that differ from those that were loaded.

Three variables are history: `seen`, who was there when a request looked;
`overtaken`, which requests have written the agent's row since a request loaded
it; `wrote`, the row a request's UPDATE left. `AnswerTellsEffect` needs them. A
404, 409 or violated constraint means that the request left nothing, and a 404
that there was no such agent to find. A 200 means that the ticket or the agent
is there or, for PATCH and DELETE, that the row the UPDATE left is as was asked,
except for a column that a request in `overtaken` had asked to be otherwise.
That exception is agent_service.py:70: a deactivation that has read an inactive
agent writes nothing, and if the agent was reactivated in between it is answered
200 without effect. No document says who should win; the property says that
nothing else has this result.

### Listing

One client walks through the pages while tickets are created, late or not, and
changed. `Count` and `Fetch` are the two statements of a page; the filters are
the set `matching`, and `Change` moves a ticket in or out of it, as often as one
likes. Where
`created_at` is equal, as for the tickets of `scripts/seed.py`, `Ordered` allows
each order, each time. `GET /agents` has the same two statements.

A walk is not a snapshot, and the properties say how far from one it can be.
`MissedIsExplained`: from a complete walk during which nothing ceased to match, a
ticket that the last page could see is missing only if it is tied and another
one of its `created_at` was shown twice in its place (base.py:33 and the missing
tie-breaker), or if it was committed late, when a page had already shown a ticket
that is not newer. `RepeatIsArrival`: an untied ticket is shown twice only if one
arrived above it during the walk, also when the ticket itself went away and came
back. `TotalFitsPage`: total and page fit if both statements saw the same rows.
Each of these exceptions occurs in the run; without any one of them TLC finds
the property violated.

### SupportDesk

`Tickets` and `Processing` as they are, with `stored` in common: `CreateTicket`
is one step of both. The worker's transaction gets a begin time from the same
clock, and its commit appends a PROCESSED event to the same log.

## The runs

| Run | Instance | Shows |
| --- | --- | --- |
| `tickets_busy` | 1 ticket created in the run, 3 requests with status updates, assignments of an agent, a customer, nobody or an unknown user | type and lock invariants; table and log agree; gaps in the log only by overlap; honest answers; `TicketLog` implemented |
| `tickets_seeded` | a seeded ticket and an unknown id, 3 requests, 2 connections, fairness | the same promise where there is no CREATED event; every request is answered though it may wait for a connection or a lock |
| `processing_one_worker` | the deployed worker, two copies of a message and one about an unknown ticket, 2 receives, batches of 2, one crash or stop, messages may vanish | sent after the commit; handled at most as often as received; unpursued tickets are PENDING, or failed and forgotten; FAILED means pursued or forgotten; rows make sense; graceful stop |
| `processing_overlap` | two workers, two copies, no crashes | result and event agree; deleted means processed; handled at most as often as received; mixed columns mean overlap; `ProcessingPromise` implemented |
| `processing_live` | one worker, a message of a ticket and a malformed one, 3 receives, one crash or stop, messages may vanish, fairness with restarts | `ProcessingPromise` implemented through crashes and the malformed message; every message is decided; a stop is heeded |
| `directory` | 3 requests: two addresses for new users, one agent to rename, reactivate and deactivate, a customer to update in vain, fairness | an address has one user, a violated constraint means overlap, answers tell what happened, no column changes unasked, everybody is answered |
| `listing` | 2 seeded tickets with equal times, 2 new ones, pages of 1 or 2, every filter, any number of changes | omissions and repetitions explained, totals fit |
| `desk` | 1 ticket, 1 request, 1 worker, its message and a malformed one, 2 receives | a result comes with its event; every change comes with one event that names it; `TicketLog` implemented with a worker beside |

Runs that refute a statement of the repository's documents:

| Run | Statement | What happens |
| --- | --- | --- |
| `tickets_terminal` | README.md:46, closed is terminal | a lost update reopens a closed ticket |
| `tickets_history` | README.md:78, history reconstructs | rows ordered by `created_at` do not end in the ticket's status |
| `tickets_audit` | README.md:82, the audit | an ASSIGNED or UNASSIGNED event whose UPDATE was never issued |
| `processing_redrive` | README.md:69, worker.py:120 | a failing deletion ends the only worker |

Three smaller divergences need no run to be seen. `ALLOWED_STATUS_TRANSITIONS`
has three arrows that README.md:46 does not draw (OPEN and IN_PROGRESS to
CLOSED, RESOLVED to IN_PROGRESS). `assign_agent` accepts every user, whatever his
role, though README.md:38 speaks of agents. The dead-letter queue counts
receives, not the attempts of README.md:69: a batch counts for all its messages,
also those that its worker did not live to handle.

**Bounds.** Two requests suffice for every race of one ticket's two handlers;
three let a third request commit between the load and the write of two others,
so that a chain of events has two links that can break, and let two that hold
all connections keep a third waiting. Tickets are independent: no handler
touches two. `processing_live` has the deployed `maxReceiveCount` of three; two
are enough elsewhere for a retry after a failure and for the redrive. Batches of
two have a message that waits while another is handled. One outage is enough
for a crash or a stop at every point of the loop with a restart after it;
`processing_overlap` and `desk` have none, as `processing_one_worker` and
`processing_live` are about them (`desk` still sees its worker end and start again, by the malformed
message). Three requests in `directory` let two race for an address and a third
deal with the winner. Four tickets in `listing` give walks of up to five pages
with arrivals before, on and after the page being read; nothing bounds how often they
cease to match and match again. Each passing run reaches
the failures its properties are about: the mistakes named *wrong on purpose* are
found in it.

**Symmetry** (requests; workers, error texts and copies of one message; tickets)
is used only in runs without liveness properties.

**Fairness.** `Tickets!Fairness` and `Directory!Spec`: the event loop runs an
accepted request whenever it can go on. Clients send nothing of necessity and
failures are never owed. A wait for a row lock, for an uncommitted address or
for a connection ends since the holder is itself scheduled, and no request
holds a connection while it waits for another one; the number of requests is
finite, so nobody is overtaken for ever. `Processing!Fairness`: the worker's loop
goes on, a visibility timeout passes, and a long poll does not overlook a
visible message for ever (strong fairness, as the poll is left and entered
again). `AttendedSpec` adds that a worker that ended is started again: that is
an operator's duty, not the code's, and `processing_redrive` drops it along with
everything else that is done to the worker from outside.

## The proofs

Every safety invariant, action property and refinement that a passing run
checks is also a theorem, for every value of the constants. What remains with
TLC is liveness (below). Each proof has the same three steps: the invariant
holds initially, every action keeps it, and it implies the property. The
inductive invariants were checked by TLC on the instances above before they
were proved.

**Tickets** (`TicketsProofs`, `TicketsLogProofs`), from `TicketsAssumption`:
the sets of ids are nested as their names say, `None` is none of them.

* `TypeCorrect`. The type of `agent_id` and of the events says that a stored
  assignee exists, which only the lookup a few steps earlier guarantees;
  `Checked` carries that from the lookup to the commit, and `Called` that an
  accepted request has a well-formed call. `TypeInv` is the conjunction.
* `LockCorrect`, inductive with `TypeInv`.
* `StatusAgreesWithLog`, `StatusChain`, `ReopenedByOverlapOnly`. Their
  inductive invariant is `LogInv`. `StatusSeen` is the heart of it: the status
  in a session is the one the log named when the session loaded the ticket,
  i.e. that of the last status event among the first `txn[r].log` ones. It
  holds after a load because status and log agree, and afterwards because logs
  only grow at their end (`LogsGrow`). When a request commits, either the
  previous status event came after its load, which is the overlap, or it is the
  one its session saw, and the link holds. Reopening follows, as CLOSED has no
  allowed successor (`EventsAllowed`).
* `AgentAgreesWithLog`, `AgentChain`. `AgentInv` says of table and session
  alike whom a prefix of the log leaves the ticket to (`LeavesTo`); before the
  first reassignment that is nobody if the log goes back to the creation, and
  anybody for a seeded ticket.
* `AnswerAgreesWithLog`. `AnswerInv` ties each event to the request that wrote
  it: none before its commit, one after it, in the log of its ticket, with what
  it asked for.
* `ServiceImplementsLog`: with `LogInv` and `AgentInv` every step is a step of
  `TicketLog` or a stutter. The old value of a new entry is a value of the
  log's history because the session's is (`StatusSeen`, `LeavesTo`).

`TicketsLogProofs` also proves what a process beside the service may do without
disturbing any of this: append a PROCESSED event, or begin a transaction (the
`Foreign` lemmas). They are for the composition.

**Processing** (`ProcessingProofs`), from `ProcessingAssumption`: messages are
about tickets, known or not, or of a kind without a ticket, and a computed
result is not the null value. For any number of workers, messages and copies:

* `TypeCorrect` and `StopIsGraceful` by `WorkerInv`: what a worker's place in
  the loop says about the receipt it holds and the batch behind it.
* `PublicationFollowsCommit` by `QueueInv`: what is held or tried was sent.
* `ResultAndEventAgree`, `DeletionFollowsProcessing`,
  `AbandonedTicketsArePending` by `DataInv`: a row leaves PENDING only after its
  message was tried, and a tried message is in a queue, was processed, or is
  forgotten. With several workers a row that
  was read is stale when it is written, and the UPDATE names only the columns
  that differ from what was read. The result still is right since a session's
  result is either missing or the one every run computes (`ComputedIsExpected`)
  and, once there, is never taken away (`LoadedIsKept`): the columns a stale
  session leaves out already have the value it would write.
* `PipelineImplementsPromise`, by the same invariants.

`ProcessingDeliveryProofs`: `DeliveryIsBounded` counts. A receipt is in one
batch or one worker's hands (`ReceiptsUnique`); the runs of a ticket are at
most as many as the receipts that can cause no further one (`Spending`), each
of which is a message with one of its `MaxReceives` receive numbers. A result
stored without acknowledgement is stored again under another receipt only.

`ProcessingDeployedProofs` assumes `OneWorker`, which is what
`docker-compose.yaml` starts: `RowsMakeSense` and `FailuresArePursued` need
that what the worker read is what the row says when it writes
(`LoadedIsCurrent`). Neither holds with two workers, where a stale session
mixes the columns of a failure with those of a success. The hypothesis belongs
to these two theorems. `MixturesAreOverlaps`, in the same module, does without
it: for any number of workers, an UPDATE that leaves contradicting columns can
only be one of a stale session, as a session whose row is current writes columns
that fit together (`RowSteps`).

**SupportDesk** (`SupportDeskProofs`), from `DeskAssumption`: the assumptions
of both parts, and no seeded tickets, as the two parts begin with one empty
database. Each step of the composition is a step of the pipeline, and of the
ticket service a step or a foreign one, so that the invariants of both carry
over; `DeskInv` adds that a ticket has a PROCESSED event exactly if it was run,
and that a worker's transaction is younger than its ticket. `ResultsAreLogged`,
`DeskImplementsLog` and `EveryChangeRecorded` follow. The last is the audit's
promise for the whole system: whoever makes a new ticket, a new status, another
agent or another computed result, it comes in one step with exactly one more
event, whose type and new value say which change it was. It says nothing of the
status and the error text of a result row: a failed attempt leaves no event.

**Directory** (`DirectoryProofs`), for any number of requests and addresses.
`EmailsAreUnique` comes from `ClaimInv` and `AddressInv`: an uncommitted entry
of the index belongs to one request whose address no user has, so that its
commit adds the first. `ViolationNeedsOverlap` from what a request has seen: it
inserts only if nobody it saw had the address. `ChangesAreAsked` needs that an
update is written to the agent it has loaded (`RequestInv`); `TypeCorrect` and
`CustomersComeWithTickets` are conjuncts or consequences of `EffectInv`.
`AnswersTellEffects` needs `WrittenInv` besides. Between load and write a column of
the row is as it was loaded, or as a request asked that has overtaken this one
(`Explained`); so a column that the UPDATE leaves out, since it has the wanted
value in the session, has it in the table too, or was asked to be otherwise.

**Listing** (`ListingProofs`), for any number of tickets and any page size the API
accepts, from `ListingAssumption` (tickets are finitely many: their ids are
UUIDs). The place of an untied ticket in a query's result
is one more than the number of rows above it, whichever order tied rows come in
(`Rank`), and rows that are newer than all others come first (`Prefix`).

`MissesAreExplained`: as long as nothing leaves, what was asked for so far is
accounted for. If all that was shown is newer than some time, at least `Offset`
rows are (`Deep`). And for a ticket that is not shown, not overtaken and not
replaced by a repetition, the rows above it and those tied with it that were
shown, `Reached`, are at least as many as the offset (`Ahead`): they only become
more by arrivals, and a page that does not show the ticket ends before it, all of
its items counting once as none is repeated. A last page is not full, so that
such a ticket would be on it.

`RepetitionsAreArrivals`: as long as nothing arrives above a ticket, one that
was shown stays before the next offset (`Behind`), whether or not it goes away
and comes back.

`TotalsFit` is the length of a subsequence. Time needs `HasNewest`: the maximum
in `Now` exists.

**Only model-checked.** `EveryRequestAnswered` (Tickets, Directory),
`EveryMessageDecided` and `StopIsHeeded`: the prover has no rules for fairness
and ENABLED. That the four refuted statements are refuted is TLC's as well.
`Triage` has no theorem of its own yet; the proofs about Processing use no more
of it than that it is a function of the ticket.

## Not modelled

* `processed_at` (set when the row is inserted, before any processing, and never
  updated) and `updated_at`: nothing in the code reads them.
* `GET` of one ticket or agent: a single SELECT that changes nothing.
* `UserRepository.delete`, which nothing calls; `upsert_pending` on a row that
  exists, as it is called only for a new ticket.
* Validation of request bodies by the schemas, routing and dependency wiring,
  alembic's machinery, logging, the health answers.
* The console, a manual test page outside the deliverable. Its only state that
  could go wrong is the selected ticket, listed as a hazard.

## What could follow

* **Triage**: that the suggested priority is that of the strongest keyword,
  whatever else occurs, and the bound of the summary, as theorems.
* **Directory**: the pool of connections, which only `Tickets` has.
* **Processing**: which mixtures of columns two workers can leave, one by one;
  `MixtureIsOverlap` says only when there can be any.
* **SupportDesk**: the invariants of the parts as theorems of the composition
  (`AgentMatchesLog`, `DeletedIsProcessed` and the others), which the proofs
  there already contain as lemmas.
