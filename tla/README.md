# A verification of DeskTriage

DeskTriage is a Go web server one support agent runs for himself. It shows his
Freshdesk tickets, keeps private state about them (today, blocked, a note, a
review date, a priority) in SQLite, and writes notes, assignments and statuses
back to Freshdesk. This directory holds TLA+ specifications of it, TLC
configurations that check them on small instances, and TLAPS proofs of the
properties that hold for every value of the constants.

## 1. Inventory

### Components

| Component | Source | State it keeps | Operations |
|---|---|---|---|
| Local ticket state | `srv/state.go`, `db/queries/ticket_state.sql` | table `ticket_state` | `PUT /ticket/{id}/state`: load, change one field, upsert; a card or a sidebar back |
| Ticket writes | `srv/ticket.go`, `srv/freshdesk_status.go` | none of its own | add a note, hand over (note, unassign, clear local state), change status |
| Ticket pages | `srv/ticket.go` | none; fills the cache | detail page, inline preview, navigation counts |
| Board | `srv/dashboard.go`, `srv/focus.go` | none; fills the cache | dashboard, today view, refresh |
| API cache | `cache/cache.go` | table `api_cache`: body, time, max age per key | get (fresh or stale), set, delete, flush, clean-up |
| Write limiter | `srv/ratelimit.go` | mutex and map in memory | `Allow(ticket, 5 s)` |
| Freshdesk client | `freshdesk/client.go` | none | one HTTP call each, 30 s timeout; pagination |
| Server, process | `srv/server.go`, `cmd/desktriage/main.go`, `srv.service` | phase; `AgentID`, `Config`, `Freshdesk`, `apiSem` | routing, shutdown, SIGHUP re-exec, restart by systemd |
| Sessions, CSRF | `srv/auth.go`, `srv/csrf.go` | HMAC key and password in table `config`; cookies | login, logout, middleware |
| Configuration | `config/config.go`, `srv/admin.go` | table `config`, `Server.Config` | seed from `.env`, save form, reload |
| Sprints | `sprint/sprint.go`, `srv/admin_sprint.go` | table `sprint_anchors` | resolve a date, next start, add and delete anchors |
| Account managers | `srv/admin_account_manager.go` | table `account_managers` | add, delete, list |
| Migrations | `db/db.go`, `db/migrations` | table `migrations` | run the missing ones in order |
| Browser | `srv/static/script.js`, `srv/templates` | DOM, localStorage | keyboard, palette, previews, note draft |

### How they interact

Every request is a handler in a goroutine of `net/http`. Handlers share four
things and no lock protects a sequence of steps on any of them:

* **Freshdesk**, the source of truth, which other people and automations change too;
* **`ticket_state`**, read and written in single SQL statements;
* **`api_cache`**, filled by readers (look up, fetch, store: three steps) and
  invalidated by writers after their Freshdesk call;
* **process memory**: `AgentID`, and the limiter, which alone has a mutex.

A handler passes the request's context to Freshdesk and to SQL. A client that
hangs up therefore makes every later step of its handler fail. Most of those
failures are logged or dropped on purpose (`_ = s.Cache.Delete(...)`).

### What is hard, and what makes each component correct

| Component | Hard to test | Correct when |
|---|---|---|
| Local state | an assignment of up to 30 s lies between load and upsert | one edit changes one field (`RowsAtomic`); a review date and its deferral time go together (`RowsPaired`); only a handover removes a row (`ClearedOnlyByHandover`), and for good (`HandoverClears`) |
| Ticket writes | four writes in two systems, each can fail, be lost or be cut off | the client is told what happened (`AnswersTrue`), a plain failure can be retried (`FailureMeansNothing`), every request ends (`EveryRequestAnswered`) |
| Pages, cache | a fill races an invalidation | a page shows what was written before it was asked for (`NoteShownUnlessOverlap`, `StatusShownUnlessOverlap`), entries are versions of their own ticket (`CacheIsPast`), staleness ends (`CacheHeals`) |
| Board | two filter calls at two moments, a partial answer cached | no ticket twice (`BoardHasNoTwins`), none missing (`BoardComplete`) |
| Decisions from the cache | the cache is minutes old | today means ours (`TodayIsMineUnlessStale`), a skipped change was unnecessary (`StatusSkipJustified`) |
| Limiter | lock, clock, boundary, restart | `SpacedInProcess`, `DenialsJustified`, `EveryCallerDecided` |
| Sessions | two first requests each generate a key; restarts | a login lasts (`LoginLasts`) |
| CSRF | several pages of one browser, one cookie | every form on an open page is accepted (`FormsAccepted`) |
| Configuration | a save stops half way, two overlap, the running server reloads | saved and running settings agree (`RunningIsSaved`), the agent is the owner of the key (`AgentIsClients`) |
| Migrations, process | interrupted between two statements, run again | what serves has its whole schema (`ServingIsMigrated`), the process comes up again (`ComesUp`) |
| Cache, pool | ages cut to seconds, shared keys, goroutines behind one semaphore | the cache keeps an abstract promise (`CacheKeepsPromise`), no slot is lost (`PoolRight`), blanks are explained (`BlanksExplained`), no lookup goes back in time (`NeverOlder`), every page is answered (`EveryPageAnswered`) |
| Sprints | several anchors, extrapolation both ways, wrap at 26 | sprints divide the days (`SprintsPartition`), numbers tell them apart (`NumbersTellApart`) |
| Review dates | zones, midnights, weekends, replies, two reads of the conversations | the ticket is in the right section on the right day (`RepliedIsReviewed`, `ReviewOnItsDay`) |
| Pagination | results shift between pages | nothing missed (`NothingMissed`) |
| Browser | answers out of order, elements replaced, two dialogs, two tabs | one preview (`OneUnlessLate`), commands for what is focused (`ListIsCurrent`), notes and drafts survive (`NoteKept`, `DraftKept`) |

`PROJECT.json` lists every hazard at its line, with the properties aimed at it
or what of it no property covers.

## 2. The modules

```
TicketRow ──── LocalState            what the local state promises
    │               ▲ refines (RowsAtomic)
    └── Desk ──┬── DeskUpdate ──┐
               ├── DeskWrites ──┼── TicketDesk ── MCTicketDesk
               └── DeskReads  ──┘       │
                                        └── TicketDesk_proofs ── DeskHistory_proofs
RateLimiter ──┬── MCRateLimiter
              └── RateLimiter_proofs

Site ──┬── Startup ──┐
       ├── Access ───┼── Server ──┬── MCServer
       └── Account ──┘            └── Server_proofs

CachePromise                         what the cache promises
    ▲ refines (CacheKeepsPromise)
ApiCache ── Lookups ──┬── MCLookups
                      └── Lookups_proofs

Sprints ── Reviews ──┬── MCReviews       Paging ── Paging_proofs
                     └── Reviews_proofs

Cards ──┬── Previews ──┐
        └── Palette ───┼── Browser ──┬── MCBrowser
            NoteDraft ─┘             └── Browser_proofs
```

The ticket pages (`TicketDesk`):

* **TicketRow** is the data of one `ticket_state` row and the effect of every
  form field, including which forms are answered with 400 (`Rejected`) and which
  set the today flag and so call Freshdesk (`TurnsTodayOn`). `Edit` is the
  `switch` of `HandleUpdateState`.
* **LocalState** is the abstract specification: each accepted form is one atomic
  change of one row, a handover removes a row, and nothing else happens.
* **Desk** has the shared state, the job and the local variables of each request,
  the possible outcomes of a Freshdesk call (`Call`: was it done, was the handler
  told) and of an SQL statement, and everything that happens around the handlers:
  other agents, client replies, expiry, the end of a rate-limit window, clients
  hanging up, restarts.
* **DeskUpdate** is `HandleUpdateState` with `assignToSelf` and `buildTicketCard`;
  **DeskWrites** is `HandleAddNote`, `HandleHandover` and
  `HandleUpdateFreshdeskStatus`; **DeskReads** is `HandleTicketDetail`,
  `HandleTicketPreview`, `fetchAllTicketCards` (dashboard and today view),
  `fetchDashboardData` as far as it looks at conversations, and `HandleRefresh`.
* **TicketDesk** puts them together and states the properties.
* **RateLimiter** is `rateLimiter.Allow` with its mutex, clock and map.
  TicketDesk uses only its effect, the set `limited` of tickets whose window is open.

The server around them (`Server`):

* **Site** has what the others share: the phase of the process, the settings
  stored (`table`) and running (`config`, `client`, `agent`), the browsers' jars
  of cookies and open pages, the requests, and an SQL statement that may fail.
* **Startup** is `main.run`: `RunMigrations` statement by statement, seeding key
  by key, serving, and on SIGHUP the shutdown, the close of the database and the
  exec; `Interrupt` is a crash at any moment, and systemd starts the process again.
* **Access** is `authMiddleware` and `csrfMiddleware`, `HandleLogin` and
  `HandleLogout`, the key each of two requests may generate, and what browsers do.
* **Account** is the settings form (three statements, then the reload into the
  running server) and `ensureAgentID`, which a board uses and `HandleRefresh` upsets.
* **Server** composes them. A page of TicketDesk is one kind of request here.

What they show about Freshdesk:

* **CachePromise** is the abstract cache: an answer is fresh from its store until
  it expires, then still there for stale reads. **ApiCache** is `cache.Store` with
  its clock; **Lookups** puts pages on top of it: look up, fetch, store, in turn or
  in goroutines behind `apiSem`, with `resolveContact` asking a second API.
* **Paging** is `paginateSearch` and `paginate` under `fetchAllTicketCards` and
  `GetConversations`, page by page while Freshdesk changes.
* **Sprints** is the package `sprint` (`Resolve`, `NextStart`); **Reviews** is the
  review date of one ticket from the form to the section of the board, with several
  boards in progress, each of which looks up, asks for and stores the conversations.

The browser:

* **Cards** has the cards and the focus; **Previews** is `togglePreview` with
  `setFocus`, clicks, Escape and the htmx swaps; **Palette** is the command palette
  and its handover dialog; **NoteDraft** is the script of the note form in two tabs.
* **Browser** composes them: a key, a click or an answer of the board's can change
  what the open palette lists commands for, and a command of the palette is a
  request for a card, like a button of that card.

Definitions called "slips" stand just before the definition they distort. They
are mutated forms for testing the properties; no specification uses them.

### Correspondence with the code

`pc[r]` is the place of request `r` in its handler. Each place is one SQL
statement, one Freshdesk call or one use of the limiter, so every interleaving
of two handlers between such operations is a behaviour. `mem[r]` is the
handler's local variables: `row` (`existing`), `item` (`ticket`), `n` (`convos`,
as their number), `want` (the status filter), `list` (`tickets`), `pend` and
`again` (lookups of conversations still to make), `cur` (the ticket of the
current lookup). `resp[r]` is the answer: `ok`, `bad` (a plain 4xx or 5xx),
`bad_unassign` ("Note was added but failed to unassign ticket"), `limited`
(429) or `unseen` (the client was gone, or the process died). `log` is history
for the properties only.

| Handler | Steps (`pc`) |
|---|---|
| state update | `load` → (`assign_agent` → `skip` → `assign` → `del_ticket` → `del_dash`) → `upsert` → (`card` → `card_fetch` → `convs...`) |
| note | `allow` → `create_note` → `del_convs` → `del_ticket` |
| handover | `allow` → `create_note` → `unassign` → `clear_row` → `del_convs` → `del_ticket` |
| status | `status_check` → `allow` → `set_status` → `del_ticket` → (card) |
| detail | `agent` → `ticket` → `ticket_fetch` → `ticket_set` → `convs` → `convs_fetch` → `convs_set` |
| preview | the same from `ticket` |
| board | `agent` → `dash` → `filter_mine` → `filter_unassigned` (or `stale`) → `dash_set` → `rows` → `updaters` ⇄ `convs...` |
| refresh | `flush` |

In `Server`, `pc[r]` is the same for its requests. `phase` is the place of the
process, `at` and `stmt` the migration it has got to and its next statement;
`created` is what the migrations have executed, `recorded` what they say they have.

| Part | Steps |
|---|---|
| process | `migrate` (for each: `check` → `create`, or `alter` → `fill`, → `record`) → `seed` → `serve` → `closing` → `closed` → exec, which starts anew; `down` after a stop or a failed start, until systemd boots it |
| every request | `guard` (both middlewares) → `forbid`, or `auth_key` (→ `auth_store`) if it has a cookie, or its handler, or the login page |
| login page, login, logout | `show`; `password` → `login_key` (→ `login_store`); `leave` |
| settings form | `save_url` → `save_key` → `save_password` → `reload` → `set_config` → `set_client` |
| board, refresh | `agent` → (`agent_fetch` → `agent_set` → `agent_cache`); `flush` |

In `Reviews`, `page[p].step` is the place of a board: `closed` → (reads the row)
`look` → `ask` → `store` → `known`, for a deferred ticket the same once more
(`fetchDashboardData`), → `shown`. A call to Freshdesk lies between `look` and
`store`, so two boards can store their answers in either order.

In `Lookups`, `stage[p]` is the stage of a page and `look[p][k]` the place of one
lookup: `wait` (for `apiSem`) → `look` → `fetch` (or `agents`) → `store` → `done`.

### Abstractions

* A ticket is its responder, its status and a revision that counts its changes;
  conversations are their number. Subjects, bodies, times and labels are left out.
* The other cache entries (companies, contacts, status choices, `agent:me`) are
  not state. What they decide is kept as a choice: the agent may be unknown
  (`AgentUnknown`), the status filter may fall back to Open and Pending (`LookDash`).
* An expired `ticket:` or `conversations:` entry counts as absent, as it does for
  `GetJSON`, the only reader of those keys. `tickets:dashboard` keeps its content
  after it expired, for `GetStaleJSON`.
* Each filter call is one answer, or on failure any part of it (the pages read so
  far). The lookups of one board's goroutines happen one after the other, in any
  order; two boards interleave freely.
* A client that hangs up during a call is one that does so right after it: in both
  cases nothing the handler does afterwards has an effect. A call that takes effect
  although its answer is lost is the fault `lost`.
* `Server` has one step per SQL statement and per use of the shared `Server`
  fields. Secrets are named by the request that made them, ages of cookies are
  "old" or not. Whether a cookie is marked secure is left out.
* `ApiCache` counts time in parts of a second: what is stored is the whole
  second, what is compared is exact. An answer is the version of what Freshdesk
  had when it was asked. `Reviews` counts instants in the same way, with days of
  a few instants and an offset for the server's zone.
* `Reviews` has one clock for Freshdesk, which stamps the replies, and the server,
  which stamps deferrals and entries. `CallTime` is the longest an answer can be on
  its way into the cache: a call has a 30-second timeout for each page of
  conversations (`client.go:34`), the statement that stores it `busy_timeout`. What
  else changes the entry only takes it away: a note or a handover deletes it,
  and the ticket page, which stores it in the same three steps, does so for two
  minutes instead of five (`Forget`, at any time). A card is built at one
  instant: anchors and today's date are read together. Who wrote last, which the first look-up is
  for, is only a badge and left out; without the store of that first look-up the
  second would be different, so both look-ups are steps.
* `Lookups` has the keys of a page in three stages: in turn, in goroutines, in
  turn again; which key belongs to which is a constant (`Plan`).
* `Paging` assumes that Freshdesk gives its results in one order, and one reader
  at a time, since readers do not see each other here. A page is what has the
  ranks asked for in that order. What was read is a set with the number of results
  that made it up: that number, with repetitions, is what the client compares with
  the total. The order of the board is left to its sections.
* In `Previews` each card has a counter for its element: an answer that comes for
  an element that was replaced changes nothing anybody sees. `under` counts the
  previews under a card, because one that comes back from `stashedPreviews` can be
  the second there. Of two requests made for the same element it does not matter
  which is answered first (`Foremost`). A ticket that is in
  two sections has two cards of one id; here it has one. `Palette` keeps of a list
  of commands what it was made for. The texts of `NoteDraft` are numbers in the
  order they were typed.
* The 400s for malformed IDs and empty or long notes are left out: nothing happens
  before them. The 400s of `HandleUpdateState` that come after the load are in.
* `WindowCloses` may happen at any time; how long 5 seconds are is for `RateLimiter`.

## 3. The runs

All runs but `server`'s fair restarts may stop: a fixed set of requests, edits
or changes comes to an end, and so every configuration allows deadlock. The
modules' `TypeOK` are not properties of the runs: the theorems called `Typing`
prove them for every instance.

| Run | Bounds | Checks |
|---|---|---|
| `desk_reads` | 3 overlapping pages, notes, handovers and status changes of 1 ticket, no faults | `NoteShownUnlessOverlap`, `StatusShownUnlessOverlap` |
| `desk_board` | 2 overlapping boards, today edits, handovers and flushes, 2 tickets, API failures, 1 upstream change | `BoardHasNoTwins`, `CacheIsPast` |
| `desk_serial` | 3 requests of nine kinds one after the other, no faults | `HandoverClears`, `CoherentWhenIdle`, `BoardComplete`, `TodayIsMineUnlessStale`, `StatusSkipJustified` |
| `desk_edits` | 2 requests one after the other: every form, the note, the status and the handover, with and without a stored row, every fault, 1 restart | `RowsAtomic` (TicketDesk implements LocalState), `AnswersTrue`, `ClearedOnlyByHandover` |
| `desk_live` | 2 overlapping requests, API and SQL failures, hang-ups, fairness | `RowsPaired`, `FailureMeansNothing`, `EveryRequestAnswered`, `CacheHeals` |
| `limiter` | 3 callers, 2 tickets, interval 2, time to 5, 1 restart, fairness | `SpacedInProcess`, `DenialsJustified`, `EveryCallerDecided` |
| `server` | 3 overlapping requests of 6 kinds, 1 browser, 2 URLs, API keys and agents, 1 password, databases migrated up to any version, 1 stop at any moment, `db` and `api` faults, fair restarts | `ServingIsMigrated`, `LoginLasts`, `FormsAccepted`, `RunningIsSaved`, `AgentIsClients`, `ComesUp` |
| `api_fetch` | 2 pages over 2 keys (a board that asks for conversations in a goroutine and once again, a ticket page with conversations, then a contact that is an agent), 1 slot, seconds of 2 parts, time to 4, 2 versions, `api` faults, one client may hang up | `AgesRight`, `PoolRight`, `BlanksExplained`, `NeverOlder`, `CacheKeepsPromise`, `EveryPageAnswered` |
| `reviews` | 1 ticket, days and seconds of 2 instants, four kinds of server: zones −1, 0, 1 around a weekend with 2 deferrals and a reply; 3 anchors and 3 edits of them; 2 boards at once with a reply; 1 board with 2 messages and `api` and `db` faults. Time to 6, entries trusted for 1 second, answers 1 second on their way | `RepliedIsReviewed`, `ReviewOnItsDay`, `SprintsPartition`, `NumbersTellApart` |
| `paging` | 5 tickets, 4 conversations, pages of 2, 2 changes while reading, `api` faults | `NothingMissed` |
| `browser` | 5 scenes: 3 cards with previews and changes; 2 cards with the palette and changes; 2 cards with the palette, words and 2 handover dialogs; 2 cards with the palette and previews; the note form in 2 tabs with 4 texts and 4 requests. 2 requests of a kind under way, 1 card replaced, any number refused or removed | `OneUnlessLate`, `ListIsCurrent`, `NoteKept`, `DraftKept` |

Why the bounds are enough to be interesting: each race in question takes two
requests (load/upsert against a handover, fill against an invalidation); three
are needed where the damage shows in a third (write, read that undoes the
invalidation, page). One ticket suffices for everything but the board, whose
entries must not be mixed up: two there. Two differing time points around an
interval of 2 reach both sides of the limiter's boundary. The other runs are cut
the same way: two requests that each find no HMAC key, a third that presents a
cookie, and one stop between any two statements; one slot that two pages want;
seconds of two parts, so that an age of one second can be early or late by a
part; three anchors around a turn of the year, one of them replacing another;
three pages of results and two changes, one to shift and one to shift again; a
preview under way in a card that is left, closed or replaced, and one more, with
one refused and one successful button to stash a preview and bring it back; two boards
that ask for the same conversations before and after a reply, and store them the
other way round. The proofs' bound `ConvAge + CallTime` is tight in `reviews`: without
`CallTime`, TLC finds a board that hides a reply.
Symmetry is used over requests and boards only, and never in a run with fairness.
All the safety properties of the passing runs are also proved, for any number of
requests, tickets, pages, cards and days; §4 says under which assumptions.

`desk_serial` and `desk_edits` forbid overlap on purpose: they show that the
properties hold for requests one after the other. What overlap does to them is in
the run and the list below.

### Runs that find the code at odds with its own words

| Run | The words | What happens |
|---|---|---|
| `lost_update` | "updates a single field of the ticket's local state" (`srv/state.go:18`) | two overlapping edits: the second writes back the other fields as it loaded them |

### What the properties step around

Where the code cannot keep a promise in every case, a property names the case
and shows that there is no other:

* An edit that loaded before a handover inserts the row again after it
  (`HandoverClears` is checked without overlap).
* A page that fetched before a write stores what it fetched after the
  invalidation (`NoteShownUnlessOverlap`, `StatusShownUnlessOverlap`).
* "Skipped if already assigned" goes by a board up to five minutes old
  (`TodayIsMineUnlessStale`), and a status change is skipped on the word of a
  ticket page two minutes old (`StatusSkipJustified` without others' changes).
* Two requests that each store a HMAC key (`seen.keys`); two first pages of one
  browser, each with a token (`seen.doubled`); a save that failed half way or
  overlapped another (`seen.torn`); a changed account, to which `AgentID` and
  `agent:me` do not follow (`seen.rekeyed`).
* Migration 4 interrupted between adding its column and recording itself: the
  process never comes up again (`Startable`).
* A key fetched by two pages at once (`seen.raced`): the older answer may be stored
  last. A fresh entry that cannot be read is fetched and counts as such.
* A ticket that leaves the results shifts the next one past the reader (`sure`).
* "Tomorrow" is cut at UTC's midnight (`CutEarly`).
* "Close any other open previews first (only one at a time)" (`script.js:266`): a
  preview closed while it loads is added to its card again by its late answer
  (`script.js:289-296`), beside the one open by then. And an answer with an error
  takes the card's preview into the stash (`script.js:488-498`), from where the next
  swap of any card brings it back (`script.js:500-510`), beside the one open by then.
  `extra` are the cards that got a preview in one of these two ways and still
  have one. A preview in a card that is replaced while it loads stays at "Loading…",
  because the answer goes to the old element.
* A reply can stay hidden for as long as an entry is trusted and an answer can be on
  its way (`ConvAge + CallTime`), and a reply of the second of the deferral for good.
* A handover dialog clicked away while it is being sent: the answer closes
  whichever dialog is open then, with its note (`seen.left`). Lists of the
  palette asked for while an older one is being made (`seen.overlap`). A draft
  typed while a page waits for its answer is erased by it (`passed`).

Some more claims of the repository are not kept, and need no model to see it:

* `srv/dashboard.go:98` says "Fetch ALL unassigned tickets", but a failure of that
  call is logged and the partial list cached for 5 minutes.
* "Marking a ticket as Today automatically assigns it" (`README.md:105`), but an
  assignment that fails is only logged (`state.go:63-65`) and the edit answered as
  done; `AnswersTrue` says that it was tried, or that the cached board had the ticket
  as ours.
* `srv/ticket.go:358` says one note per 5 seconds per ticket; a restart forgets the
  times (`ratelimit.go:10`), so `SpacedInProcess` is about one process.
* The restart is called graceful, but `Shutdown` runs in a goroutine of its own
  while `ListenAndServe` returns at once (`server.go:140`): requests are cut.
* Comments give other ages than the code for the agent (`dashboard.go:482`) and
  for contacts (`ticket.go:584`); conversations are kept for five minutes by the
  board and for two by the ticket page.
* `Opt+Enter`, which the README documents (`README.md:112`), never works: `key` is
  used before it is assigned (`script.js:330`).

### Fairness

`FairSpec` gives weak fairness to the steps of each request that has started
(the Go scheduler runs every goroutine; a Freshdesk call ends with the client's
30-second timeout, an SQL statement with `busy_timeout`) and to the expiry of
cache entries (time passes). `Start` is not fair: nothing makes a client ask. In
`RateLimiter` each caller is a goroutine already in `Allow`, a `sync.Mutex` is
not held for ever by the others, and the holder runs on. In `Server` only the
process itself is fair (`WF_vars(RunProcess)`): the unit file says
`Restart=always` with five seconds between, and a start runs on. In `Lookups` each
page's steps are fair, and so is each goroutine's acquisition of a slot: weak
fairness is enough, since the waiting goroutines are served in turn by a channel.
`Browser` states no fairness: a browser may be closed at any moment.

## 4. The proofs

All theorems hold for every value of the constants that satisfies their
assumptions (`RowAssumption`, `NoRowAssumption`, `DeskAssumption`,
`NoneAssumption`, `LimiterAssumption`, `SiteAssumption`, `CacheAssumption`,
`LookupsAssumption`, `ReviewsAssumption`, `PagingAssumption`,
`BrowserAssumption`), which TLC evaluates in every run.
They say that `None` is not one of the data, that the agent, the other
responders and "nobody" differ, that a job carries what its kind needs, and that
the rows stored at start are paired (migration 004 gave the older ones their
deferral time); of the server that every API key has an owner and that a browser's
open pages carry the token of its jar; of the lookups that ages are whole seconds
and at least one, that there is a slot, and that what counts as "nothing" is no
answer; of the reviews that a zone is less than a day off UTC and that an anchor has
a number from 1 to 26, as the form demands; of the pages that they have a size; of
the browser that a board has each ticket once, and finitely many.

A theorem whose property needs more says so in its own `ASSUME`: that requests do
not overlap, or that certain faults do not happen. Below is why.

| Module | Theorem | Says |
|---|---|---|
| `TicketDesk_proofs` | `Typing`, `RowsStayPaired` | `[]TypeOK`, `[]RowsPaired` (with `EditType`, `EditPaired`: what a form makes of a row) |
| | `Answering`, `Retrying`, `Clearing` | `[]AnswersTrue`; `[]FailureMeansNothing` if `lost` is not among the faults; `ClearedOnlyByHandover` |
| | `CachePast`, `NoTwins` | `[]CacheIsPast`, `[]BoardHasNoTwins` |
| `DeskHistory_proofs` | `NotesShow`, `StatusesShow` | `[]NoteShownUnlessOverlap`, `[]StatusShownUnlessOverlap` if `db` is not among the faults |
| | `RowsRefine`, `HandoversClear` | one request after the other: `TicketDesk` implements `LocalState` (`RowsAtomic`), with every fault; `[]HandoverClears` if the database works |
| | `BoardsComplete` | one after the other, Freshdesk answers and nobody else works on it: `[]BoardComplete` |
| | `CoherentBetweenRequests`, `StatusSkips`, `TodayMeansMine` | one after the other, no faults, nobody else: `[]CoherentWhenIdle`, `StatusSkipJustified`, `[]TodayIsMineUnlessStale` |
| `RateLimiter_proofs` | `Typing`, `Spacing`, `Denials` | `[]TypeOK`, `[]SpacedInProcess`, `[]DenialsJustified` |
| `Lookups_proofs` | `Typing`, `Ages`, `Refines`, `Slots`, `Blanks`, `Fresher` | types with the control of the stages, `[]AgesRight`, the refinement `CacheKeepsPromise`, `[]PoolRight`, `[]BlanksExplained`, `[]NeverOlder` |
| `Server_proofs` | `Typing`, `Migration`, `Logins`, `FormTokens`, `SavedSettings`, `BoardAgent` | `[]TypeOK`, `[]ServingIsMigrated`, `[]LoginLasts`, `[]FormsAccepted`, `[]RunningIsSaved`, `[]AgentIsClients` |
| `Reviews_proofs` | `Sprinting`, `Numbering` | `SprintsPartition`, `NumbersTellApart` |
| | `Replies`, `Reviewing` | `[]RepliedIsReviewed`, `[]ReviewOnItsDay` |
| `Paging_proofs` | `Reading` | `[]NothingMissed` |
| `Browser_proofs` | `OnePreview`, `Drafts`, `Listing`, `NotesKept` | `[]OneUnlessLate`, `[]DraftKept`, `[]ListIsCurrent`, `NoteKept` |

*The desk.* `TypeOK` is not inductive: `upsert` stores `mem[r].row`, which is a
row only because `load` came before, and `job[r].edit` is a form only for an
update. `TInv` adds a control table (`ControlOK`: which kinds of request can be
at which place), `RowLoaded` (a loaded row is there, and paired, where it is going to be
stored) and `RowsPaired`. Each action of `Next` preserves each conjunct it can
disturb; actions that leave rows and memory alone share a frame lemma.

*The answers.* `EInv` is a table from places to effects: `Due`, what a request
at a place (or with an answer) must already have achieved, and `Honest`, what it
cannot have achieved yet. A handover at `clear_row` has put its note and its
unassignment on Freshdesk, one at `create_note` has done nothing. What a status
change found in the cache, and what became of an assignment (done, found
unnecessary, failed), are effects too; `AInv` adds that a today edit past `assign`
has one of the three. `AnswersTrue` is these tables read at the end; `Clearing` is the same table read at `clear_row`,
with the lemma that no other action removes a row. `Retrying` needs a table of
its own, because a lost answer breaks it.

*The cache.* `CInv` says of every place that can hold a ticket (`ticket:{id}`,
`tickets:dashboard`, a handler's memory) or a conversation count that it holds
a past state of the right ticket, and of every list that it has a ticket once.
Every action is of one of three kinds, each with a lemma: Freshdesk moves
(`FreshdeskMoves`: revisions and counts only grow, so a past state stays one), a
handler reads (`HandlerReads`), the cache changes (`CacheChanges`). Neither
property is inductive alone: a list is stored in the cache and read back, and
`Merged` has no twins only if each filter's answer has none, which needs
`fd[t].t = t`.

*A page after a write.* `SInv` follows a writer `q` that no other request
overlaps (`Undisturbed`). Once `q` has deleted the entry, what is in the cache, and
what a reader that started after `q` was answered has in hand, is no older than the
write (`ConvsShown`, `TicketShown`); until then nothing is claimed. An entry can
only come back from a reader, and one that did not start after `q` overlaps it.
`db` must be excluded: the handlers drop the error of `Cache.Delete`, and the old
entry then stays. Everything else may fail.

*One request after the other.* `OneAtATime` says that at most one request is
between its start and its answer. Then what an update has loaded is the row as
it is (`RowCurrent`), so its `upsert` is one atomic step of `LocalState` and
every other step is a stutter: without `Overlap = FALSE` this is false
(`lost_update`). `RowsEditedAfter`: past `clear_row` the row of a handover's
ticket is gone until a later request edits it. For the decisions from the cache,
`Coherent` says that cached tickets and conversations are Freshdesk's, except
those the request in progress is still going to drop. Each hypothesis is one way
to break it: another agent, a call that took effect without an answer, a delete that
failed, a request cut off before its delete. `BoardFull` follows the lists of a board
from the filters into the cache; only Freshdesk's failures and others' changes can
shorten them. `MineNow` carries "today" to the responder: through the skip, which
trusts the cached board, up to a handover that leaves that board as it was
(`Doubted`). The rows stored at start that are marked today must be ours to begin with.

*The limiter.* `SpacedInProcess` speaks of admitted callers; the inductive
invariant ties them to the map (each admitted time of this life is at most
`last[key]`, and the caller between `Check` and `Record` has seen the map as it
is, because it holds the mutex) and to the clock.

*The lookups.* `TInv` adds to the types what each stage of a page can have under
way. `PoolRight` counts: every step keeps the number of holders, or changes it
together with `slots` by one, which is where the cardinality lemmas are used.
`BlanksExplained` needs `Accounted` (a key of a stage that is over is done) and
that a key once done without an answer is one that failed. `NeverOlder` is about
two moments of one page: the inductive invariant orders them (`Floors`: what a lookup has in hand, or
the cache holds, is at least the floor taken when it began, unless the key is in
`seen.raced`). The refinement maps `held` to the bodies stored and `fresh` to the
entries whose age is not over: each step is a step of `CachePromise` or leaves
both as they are (`StepKeepsPromise`), and a tick of the clock is `Expire`.

*The server.* Each theorem has an invariant of its own, and all use the typing.
`MInv`: what is recorded was executed, in order, and the place in the script
says what of the current migration was. `KInv`: the key a cookie was made with is the
stored one or its request is among `seen.keys`. `FInv` says it per browser: all
tabs, and all requests under way that will open one, carry the token of the jar,
or the browser is doubled. `RInv`: outside a save, `config` and `client` are the
table's; inside one, what was loaded is, unless it tore. `AInv` follows the agent
from the call that fetches it to the field and the cache that keep it.

*Reviews.* `Resolve` and `NextStart` fold over the anchors and step from sprint to
sprint. The k-th sprint of an anchor has a closed form (`Nth`); that stepping gives
it is proved with sets of the numbers reached, since induction principles are
out of reach here. A day is in the sprint of the latest anchor before it or
counted back from the first, so neighbours meet. Numbers and years together count the
sprints (`Ordinal`). For the dates, `ReviewRight` says what a stored row can be
(`RowRight`: the day asked for, or an earlier one in the cases of `CutEarly`), that
messages are in the order of time and not from the future. An answer on its way is at
most `CallTime` old (`OnItsWay`), so an entry lacks only messages that came at most
`CallTime` before its stamp, or later, whichever board stored it and whatever it
replaced (`CachedRight`); what a board takes from an entry it trusts lacks nothing
older than `ConvAge + CallTime` before the board began (`Bound`, `BoardRight`).

*Pages.* What was asked for are the ranks up to `(page − 1) · size`, and `count`
is exactly that as long as reading goes on. What is sure was read, is still to come
in the second search, or has a rank beyond (`ReadRight`). Ranks only grow unless
something before leaves (`Shifted`), which is when `sure` loses what follows. A
search ends when the count reaches the total and a list with a short page:
both mean that no rank is left (`RanksFill`, `PageIs`).

*The browser.* `PreviewsRight` makes the property strong enough to last: at most one
card outside `extra` has a preview in any state, loading, shown, failed or left at
"Loading…", and that card has one only, so that closing it closes it (`Single`). `DraftRight` adds that a page whose note was added
knows the last text to be a note, unless another was typed or sent since: so the
erasing of the draft, which comes later, loses nothing. `PaletteRight` says what the
list being made was asked for, and that the handover under way is that of the dialog
there is, both until the events named in `seen`.

### Only model-checked

Liveness (`EveryRequestAnswered`, `CacheHeals`, `EveryCallerDecided`, `ComesUp`,
`EveryPageAnswered`) is out of the prover's reach.

## 5. What is left

1. A composition of `TicketDesk` with `Lookups`, so that the cache of the former
   is shown to be the one of the latter, as `CachePromise` already allows.
2. The order within the sections of a board, and the count of its pages.

Not modelled:

* account managers: one SQL statement per operation, and names on a page;
* generated queries as such: each is the SQL statement of the action that uses it;
* templates, styles, attachments and the service worker: no state of their own;
* the decoding of Freshdesk's answers, and the ETag, which is stored and never read;
* `config.Load`, which nothing calls;
* of the browser script: shortcuts that click a button, the help overlay, the
  banners for errors.
