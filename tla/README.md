# A TLA+ model of ScratchIRCd

ScratchIRCd is an IRC server in C: one event loop (`poll`), two resolver worker
threads that talk to the loop over pipes, SQLite for everything that outlives
the process, and services (NickServ, ChanServ, MemoServ) inside the server.
This directory models it in TLA+, checks the model with TLC on small instances
and proves the central invariants with TLAPS for every instance.

Every handler of the server runs to completion in the event loop before the
next one starts, so a handler is one step of the model. What interleaves is the
order in which peers, resolver answers, deadlines, operators, database failures
and restarts reach the loop, and that order is where the hard cases are.

## Inventory

| Part | State | Operations | What is hard |
|---|---|---|---|
| Connection table (`server.c`, `webirc.c`, `nick.c`) | `clients[]`, id index, nickname index, per-address counts | accept, TLS handshake, WEBIRC, NICK, disconnect | one of four updates failing; an identity that changes in mid-life; id exhaustion |
| Registration gates (`common.c` and the handlers that open a gate) | per-client flags | NICK, USER, PASS, CAP, PONG, WEBIRC, answers, deadlines | a lost wake-up; a gate passed with stale data |
| Resolvers (`dns.c`, `dnsbl.c`) | two pipes each, a `stopping` flag | submit, resolve, answer, drop, shut down | late, lost and misdirected answers |
| Server bans (`kline.c`, `zline.c`, `geoban.c`, `ban_db.c`) | ban and exception tables | set, remove, sweep, check at registration, automatic ZLINE | a ban set while somebody is registering |
| Channels (`channel.c`, `channel_policy.c`, `joinpart.c`, `kick.c`, `invite.c`, `sa*.c`) | members with two sources of privileges, modes, masks, invitations | JOIN with redirects, PART, KICK, INVITE, SAJOIN, SAPART | two linked lists per membership; freed channels |
| Channel modes (`mode.c`, `mode_persist.c`, `samode.c`) | modes, key, limits, redirects, mask lists | MODE, SAMODE | lines of several letters; authority lent for one line |
| ChanServ (`chanserv*.c`) | channels, access, runtime and mask tables; a cache in every live channel | REGISTER, ACCESS, SET, CSSET, CSDROP, save, restore | rows, cache and live state change separately; restores that fail |
| NickServ (`nickserv*.c`, `authenticate.c`) | accounts, tokens | IDENTIFY, REGISTER, LOGOUT, SASL, NSSET, NSDROP, RECOVER, RESET, VERIFY | live sessions of an account that is gone; founder succession |
| Event loop (`server.c`, `client.c`, `dispatch.c`) | input and output buffers, budgets, cursors | poll turn, dispatch, flush, TLS retry | fairness across clients that move between slots; send queue limits |
| Budgets (`dispatch.c`, `oper.c`, `auth_limit.h`) | token buckets | consume, refill | clocks that jump, windows |
| Lifecycle (`main.c`, `restart.c`, `die.c`, `rehash.c`) | signal and restart flags | signal, RESTART, DIE, REHASH | a signal between any two statements |
| Channel logs (`channel_log.c`, `chanserv_db_logging.c`) | durable queue, row count, open day | enqueue, flush, rotate | a crash between file and table |
| Presence (`presence.c`, `watch.c`, PMSTATS in `dispatch.c`) | watch lists, WHOWAS ring, one free hook | add, remove, online, offline | two features sharing one hook |
| MemoServ (`memoserv*.c`) | one row per memo, hidden by either side | send, reply, forward, read, delete, purge | two-sided deletion; quotas; accounts dropped and registered again |
| History, message policy, operators | tables; per-message decisions | append, prune; deliver or refuse | rights revoked while in use |

`PROJECT.json` lists every component with its status, and every hazard at the
line where it bites.

## Modules

### Registration

`Registration.tla` is the life of a connection from `accept_clients()` to
`server_disconnect()`.

* State: `live` is `server->clients[]`; `client` the `Client` records;
  `clients_by_id`, `clients_by_nick` and `connection_counts_by_ip` the three
  indexes; `dns_lookups` and `dnsbl_lookups` the requests whose answer has not
  been read; `bans` and `elines` the two ban tables; `next_client_id`.
* A Client object and its socket are a *slot*; slots are reused, ids are not.
  A host name is identified with the address it was forward-confirmed for, so
  a stale one is visible as a mismatch.
* Actions carry the names of the handlers: `accept_clients`,
  `advance_tls_handshake`, `command_nick`, `command_user`, `command_pass`,
  `command_cap_begin`, `command_cap_end`, `nospoof_handle_pong`,
  `command_webirc`, `handle_dns_result`, `handle_dnsbl_result`, the four
  timeouts, and the operators' `command_kline`, `command_zline`,
  `command_geoban`, `command_eline`. Each that can complete registration ends
  in `command_maybe_register`, as in the code.
* A failure inside a handler is a member of the set `e` the action is given:
  an allocation, a full resolver pipe, an unreadable database, no random bytes.
* Deadlines have no clock: an expiry is possible whenever what it expires is
  outstanding, which includes every real timing.

### ChannelAuthority

`ChannelAuthority.tla` is channels and who holds authority in them.

* State: `channel` maps a name to its live record (or `None`); `joined` is each
  client's own channel list, the other side of a membership; `account` is who
  is identified; `registration`, `access`, `stored` and `accounts` are the
  SQLite tables. `fresh` and `connected` bound the connections.
* A channel record has the modes, the persisted part (`runtime`), the
  invitations, the cached policy (`loaded`, `valid`, `founder`, `mode_lock`,
  `secure_ops`) and for each member the manual, the service and the effective
  privileges.
* A mode line is a pair of changes, so that one letter can change what the next
  one relies on. Masks are related to clients by a constant; `+j` is a flag and
  its window a fault (`"throttled"`).
* `join_one` is one level of the C function; `JoinChain` follows redirects to
  `IRC_JOIN_REDIRECT_MAX`. A handler's faults are the same at every level.
* `Restart` forgets everything but the tables: an in-process RESTART and a
  crash look alike to what is modelled here.
* `Commands` limits which commands peers send in an instance. SAJOIN, INVITE
  and KICK name registered clients here; the code also finds a client that has
  a nickname and is still registering.

The two modules meet in `connected` and `account`: `Connect` is the step in
which `Registration` completes a registration, and operator rights are
constants of both.

### Resolver and ServerLife

`Resolver.tla` is the control that `dns.c` and `dnsbl.c` share: the worker
thread, the request and the result pipe, the `stopping` flag, and the stop and
join of the destructor. Requests and answers are counts, bounded by `PipeMax`;
what they say is in `Registration`. A turn of the loop reads at most 64
answers (`SERVER_DNS_RESULT_BUDGET`); `DrainResults` empties the pipe, which
holds fewer here.

`ServerLife.tla` is `main()`. It composes `Resolver` and `ChannelLog` (it
extends both) with the restart loop, the signal handler and the commands RESTART
and DIE.

* `pc` is the statement `main()` is at; each signal check, flag assignment and
  start or stop of a component is a step, since a signal can fall between any
  two. `pending`, `active`, `shutdownReq` and `restartReq` are
  `shutdown_signal_pending`, `server_active` and the two flags of `Server`.
* A signal handled on the loop's own thread is one step (`SignalOnMain`). One
  handled on a worker thread interleaves with `main()` statement by statement
  (`SignalOnWorker`, `HandlerStep`). Only the first is taken by a worker, so
  that repeated signals do not stop a worker for ever.
* A turn of `server_run()` either brings nothing (`QuietTurn`), a log request,
  a lookup, RESTART or DIE, or fails; `Maintain` runs once per clock second.
* `Crash` ends the process anywhere and `Boot` starts it again; the queue table
  and the text files are what survives.

### ChannelLog and DurableLog

`ChannelLog.tla` is `channel_log.c` over its SQLite queue.

* `rows` is the table, `nextId` its AUTOINCREMENT counter, `count` the cached
  `log_queue_count`, `state` the `ChannelLogState` of each channel, `lines` how
  often each row's line was appended, `files` and `closed` the text files and
  those that end with the boundary of midnight.
* A flush is `job`, advanced by `Fetch`, `WriteRow`, `DeleteBatch`; each can
  fail, and the process can die between any two. The due flush deletes
  everything at or before the last row in `(event_time, id)` order, the flush
  of LOGGING OFF everything up to the last id of its channel, as the two
  statements do. `channel_log_rotate_all` is passed the time and a pass reads no
  clock, so the clock stands still while one runs. That a batch deletes exactly
  what it wrote is a proved fact and no assumption.
* LOGGING ON can fail to make its file, and without the logs directory it turns
  logging on and gives up on the file; both are `SetLoggingOnFails`.
* `disturbed` is a history variable: the channels whose rows may have left day
  order because of a fault, a clock set back, or LOGGING ON with rows queued.

`DurableLog.tla` is what it promises: events are accepted, appended at least
once, and retired only after that. `ImplementsDurableLog` maps `queued` to the
ids in the table and `logged` to the ids with a line.

### Throttle, MemoStore and Accounts

`Accounts.tla` is NickServ beyond what channels see, with MemoServ.

* `db` is the account table, `session` what the server holds for a connection
  (account, SASL state), `mails` every token ever made. A password is the
  number of changes it went through and a token its ordinal, so that guessing
  one does not exist and using an old one does.
* `regs` numbers registrations. Two registrations of one name differ in the
  model and not in the code, and the properties say that nobody can tell an
  old session, token or memo from a new one by its staying valid.
* `Throttle.tla` is the fixed-window limiters with their tables of slots
  (`throttle_slot` refuses when every slot is live), `MemoStore.tla` the memo
  rows. `work` records what the limiters counted and let through.
* A network administrator passes the registration and the mail limiter unchecked
  and uncounted (`exempt`; `commands/nickserv.c:238`, `251`, `272`); the limiter
  of password hashing exempts nobody. `NetAdmin` lets a client in
  `config.admins` be one or not at each request, since OPER and MODE change it.
* The limiters read the wall clock. A window that starts in the future is over
  (`Over`), so `ClockSetBack` gives every address a new allowance, and a restart
  does because the tables are in memory. `work` starts anew at both:
  `RatesBounded` is about the requests the limiters count from one of these to
  the next, and promises nothing across them.
* `config` is chosen in `Init`: each configuration opens the commands about one
  subject, so that eight small state spaces are checked in one run.

### ClientIO and EventLoop

`ClientIO.tla` is one connection as operators on a record: `client_send_raw`,
`queue_append`, `client_flush_output`, `transport_write`, `read_client`,
`advance_tls_handshake`, and the poll events asked for. The unit of input is a
line, the unit of output a numbered half of a message, so that partial writes
cut messages. The TLS library is external and modelled by what the code relies
on: a write is repeated with the length it was first given, and a read or a
write can wait for the other direction.

`EventLoop.tla` is a turn of `server_run()`: drain, poll, serve, drain again,
maintain. `clients` is the array in its order; `Without` moves the last client
into a hole, as `server_disconnect()` does. `cursor` and `tlsCursor` are the
rotating positions, `turn` holds the local variables. The peer's side (lines on
the wire, room in the socket, handshake messages, resets) is in the record of
the connection. A PING is a message like any other: for a slow reader it goes
through the same output, and one that can be neither sent nor queued leaves none
outstanding and is tried again at the next maintenance (`PingSent`). The QUIT that
`server_disconnect()` broadcasts is not sent one by one: messages from other
clients to a slow reader are the `msg` lines, which a client may send at any time.

## Runs

| Run | Shows |
|---|---|
| `registration_gates` | One slot used by several clients in turn, one of them a gateway, every gate on, answers late or lost: no answer reaches another identity, nobody is registered unvetted, nobody is left waiting, also as a liveness property. |
| `registration_indexes` | Two clients competing for nicknames, ids and the one place of an address, with failing allocations: the indexes and counts are exact. |
| `registration_bans` | An operator bans and exempts while another client registers, with an unreadable ban database: nobody enters under a ban. |
| `geoban_exemption` | *Violated.* The GEOBAN sweep disconnects clients a type G exception covers. |
| `channel_membership` | Two channels redirecting to each other, overrides, failing allocations: both membership lists agree and SAMODE leaves nothing behind. |
| `channel_services` | Every order of founder, access, lock, SecureOps, registration and account changes on one channel: live authority and cached policy follow the tables, and what is enforced is stored. |
| `channel_admission` | JOIN through restarts, redirects, failing restores and saves: the stored policy is honoured, ownership comes from the account, an invitation admits once. |
| `channel_restore_loss` | *Violated.* A failed restore of a channel with members ends in its stored bans being overwritten. |
| `channel_log` | Batches smaller than the backlog, rows that wait across midnight, SET LOGGING, a clock set back and one failure or crash at any step: the log is a durable log, the cached count is exact, lines repeat only after faults, a closed day gets no more lines. |
| `server_life` | `main()` with a lookup worker and the log, signals on either thread, RESTART, DIE and crashes anywhere: no signal is lost, no worker survives its server, shutdown and restart complete, queued rows are logged. |
| `accounts` | Sessions, SASL, tokens, memos, limiters, administrators, restarts: sessions are current, tokens are honoured once and while they should be, memos stay with their owners, and what a limiter counts stays within twice its limit between restarts and clock changes. |
| `event_loop` | Peers that send without end, read slowly, answer late, leave or vanish, over TCP and TLS: output is intact and flushed, a PONG in time is heard, everybody is served. |

### Bounds

*Registration and channels.* Two clients are enough for every pair of actors
the properties speak of (a sender and a victim, a stale answer and its new
owner); `MaxId` lets a slot be reused and a gateway's client be renumbered, and
lets the ids run out. Two channels are enough for a redirect cycle; two mode
letters for a letter that changes what the next relies on. Two accounts are a
founder and a successor or access holder. The services run has no faults,
because a database that cannot be opened, or a founder change that is half
written, leaves a refresh undone (see the hazards), and no SAJOIN, which by
design asks no policy.

*Channel log.* Three rows against a fetch and a flush of two: batches have two
rows, a flush leaves some behind, and a ceiling of three is reached. Five clock
values are two days and the start of a third, and a row waits as long as a day
lasts, so rows are queued across midnight, which is what rotation must respect.
One channel is enough for TLC because the proofs cover any number.
`server_life` has one row, one worker and one fault: it asks about the order of
`main()`'s steps, and the log's own questions are asked in `channel_log`.

*Accounts.* Two clients, two names and two addresses give a stale and a current
holder of everything. Windows are two to three seconds of a clock of three or
four, so a window ends and another starts; one slot is a full table as soon as
a second address comes. The three limiter configurations set the clock back, two
of them have an administrator among the two clients, and one restarts.

*Event loop.* Two or three connections, a budget of two lines per turn and one
per client, a flush of two units, a socket that takes one: every budget is
smaller than what is asked of it. `MaxSaid` is three messages, so that one can
be written, one queued and one overflow.

Deadlock checking is off where the system may stop in the model:
`Registration` runs out of ids, in `channel_services` each connection is used
once and nothing restarts the server, `accounts` runs out of seconds and
registrations, and in the log and lifecycle runs a step may leave every
variable as it is (an event of a channel that is not logged, a quiet turn).

### Fairness

* `registration_gates`: weak fairness of `LookupTimeout(s)`, because
  `server_run()` calls `expire_connection_lookups()` in every second of its
  loop. Peers, resolvers and operators owe nothing.
* `server_life`: weak fairness of `main()`'s own steps, of each worker and of a
  signal handler that has started (threads are scheduled, and `getnameinfo` and
  `getaddrinfo` return), and of the clock. Signals, commands, crashes and
  `Boot` owe nothing.
* `event_loop`: the loop goes on, since `poll()` has a timeout of a second; and
  peers that stay connected read and complete handshakes. `EveryoneServed`
  does not need the peers: it must hold while others send without end.
  `OutputFlushed` does, since a peer that never reads is never sent anything.

## Disagreements with the documents

* `MILESTONE-3.md` says a type G exception protects from GEOBAN; the sweep in
  `geoban.c` does not consult exceptions.
* `docs/CHANNEL_RECREATION_AUDIT.md` says refusing the JOIN keeps an unreadable
  mask store from turning a registered channel permissive. The refused JOIN has
  already cleared the live masks of a channel that has members, and the next
  MODE on it, by anybody, saves the empty lists.

Smaller ones met while modelling, without a run of their own:

* SAMODE bypasses the mode lock (`samode.c`), SET MLOCK leaves `+s` on the live
  channel (`persistent_mode_mask()` has no `s`), a refused JOIN can leave an
  empty live channel, and SAJOIN into a registered channel that is not live
  makes the target its owner by hand.
* `docs/STORAGE_LIMITS.md:18` says that log events of a channel with logging
  enabled first enter the durable queue. A flush of rows left by an earlier
  process creates the channel's state with `enabled` unset (`state_for`,
  `channel_log.c:313`), and a state that exists is not checked against the
  table (`state_enabled`), so the channel's later events are ignored until
  LOGGING is set again. The model does the same (`OnDay`, `StateEnabled`);
  `EventIgnored` is then the step taken.
* The comment at `server.c:922` says a PONG in the buffer is handled before its
  deadline is enforced. It is not when the turn's line budget is used up, when
  the client's own share precedes the PONG, or when a client left during the
  drain and moved another into a place already passed. `PongHeard` names
  exactly these three.
* `read_client()` treats a buffer full of complete lines that the budgets have
  not yet let through as a failed read and disconnects.
* Decrypted lines that stay in the TLS session are not seen by `poll()`, and an
  `SSL_read` that wants to read holds up all output until the peer sends again;
  `OutputFlushed` names the second.
* NSDROP reports success when the memos could not be removed;
  `MemosOfThisRegistration` names that case.

## Proofs

`Registration_proofs.tla` proves, for every number of clients, nicknames and
addresses, every configuration and every set of faults:

* `Invariance`: `IInv`, the conjunction of the type invariant, both index
  invariants, `LookupsOwned`, `IdentityCurrent`, `Vetted` and `NotStranded`.
  The conjuncts need each other: that an answer is credited to the right
  address needs the ids of open lookups to be old ones, which needs the id
  index; that a registered client is vetted needs the identity to be current.
* `CountsAreExact`, which adds the cardinalities to `IInv`, and from it
  `LimitHolds`; `BansHoldAtEntry` and `AutoZlineHitsListed`, which are action
  properties that follow from `IInv`; and one corollary for each conjunct:
  `TypeCorrect`, `IdsAreCoherent`, `NicknamesAreCoherent`,
  `AnswersReachTheirOwner`, `IdentitiesAreCurrent`, `RegisteredAreVetted`,
  `NobodyIsStranded`.

The proof describes a client record by predicates on the record, shows what each
helper does to a record, has one lemma per handler, all with the same
conclusion (`Kept`), and combines them in `EveryStep`. The assumptions are the
named ones of `Registration.tla`: finitely many slots, `None` outside the other
sets, natural bounds, and the types of the configuration.

`ChannelAuthority_proofs.tla` proves, for every number of clients, channels and
accounts, every mode line, lock and access level, and every set of faults:

* `ChannelInvariance`: `IInv`, which says of the two membership tables together
  (`Sound`) that they agree, that members are connected, and that every live
  record is well formed with the right effective privileges; and of the rows
  and identities (`TablesOK`) that they have their types.
* From it `ChannelTypeCorrect`, `MembershipsAgree` and `PrivilegesAgree`.

`PrivilegesAreTheUnion` is false inside SAMODE, between lending ownership and
taking it back, so the lemmas about mode lines use `RightBut(ch, X)`: right for
everybody but the clients in `X`. The lemmas go from a channel record (what
refresh, restore, synchronisation and each mode letter do to it) to the two
tables (add, remove, leave, admit, one level of a JOIN, the redirect chain) to
the handlers, combined in `EveryStep`. The assumptions are the named ones of
`ChannelAuthority.tla`; `NoneIsNoRecord` says that the absent channel or row is
not a record.

`ChannelRecord_proofs.tla` and `ChannelPolicy_proofs.tla` go on from there to
what ties live channels to the tables, for every number of clients, channels and
accounts and every order of commands, logins, logouts and administrators'
changes:

* `PolicyInvariance`: `PolicyInv`, which adds to `IInv` that every live channel
  follows its registration (`Following`) and that a client still to connect is
  not a registered one. `Follows` says of one channel that its policy was
  loaded and its cache is the row; that no member holds a service privilege the
  row or the access list does not grant its account, nor with SecureOps one by
  hand beyond its level; and that its modes keep the lock and its runtime is the
  stored one.
* From it `AuthorityIsGranted` (`NoStaleAuthority`), `SecureOpsEnforced`
  (`SecureOpsHolds`), `LockKept` (`MlockHolds`) and `RuntimeIsStored`
  (`LiveIsStored`).
* `OwnershipByAccount`, `JoinIsDecidedByTheRows` and `InvitationIsUsedUp`, the
  action properties of JOIN. A JOIN walks a chain of redirects, opening, restoring
  and removing channels on the way; `ChainReaches` shows that it admits to at most
  one channel, and from a world (`Before`) with the memberships and invitations
  the step began with, so the checks were made against the rows of the state
  before the step.

Two parts of `PolicyInv` are there only for the induction. A live channel that is
not registered is loaded, not valid and without SecureOps, because REGISTER does
not reset the cached flag; and `fresh` and `connected` are disjoint, so that
`Connect`, which gives a client its account, changes no member's authority.

The hypotheses are named, and each is a way the code has around the property:

| Hypothesis | Why | Needed by |
|---|---|---|
| `PolicyIsLoaded`: the database opens, a founder change is written whole, no SAJOIN | SAJOIN creates a registered channel that is not live without loading its policy; a database that cannot be opened leaves the cache as it was; and CSSET FOUNDER and the promotion of a successor write the founder and the successor apart, and do not refresh the live channel when the second write fails (the fault `"successor"`; `commands/chanserv_admin.c:167-178`, `commands/nickserv_admin.c:346-352`) | all but `InvitationIsUsedUp`, which needs no SAJOIN only |
| `LocksChecked`: no SAMODE | SAMODE does not consult the mode lock | `LockKept`, `JoinIsDecidedByTheRows` |
| `StorageWorks`: rows are read and written | a save or restore that fails leaves the live channel and the rows apart | `RuntimeIsStored` |

Everything else, SAMODE included where `LocksChecked` is not named, and every
other member of `FaultKinds` may happen, which is more than the runs allow. With
`Faults = {"successor"}` in `ChannelServices.cfg` TLC finds `NoStaleAuthority`
violated in five steps (connect, join, register, name a successor, make that
account the founder), so that part of the hypothesis is needed. A write that
fails before it changes anything is a command without effect and is not told
apart from one not sent. `ChannelRecord_proofs.tla` has the definitions and the
lemmas about a channel's record (synchronisation, refresh, a mode line letter by
letter, saves, members, restore, one level of a JOIN, the chain);
`ChannelPolicy_proofs.tla` has one lemma per handler, `EveryStepFollows`, and
the theorems.

`ServerLife_proofs.tla` proves of the log, for any number of channels, every
ceiling, batch size, day length, and every sequence of failures and crashes:

* `LogInvariance`: `LogInv`. Beside the types it says that ids in the table are
  old and distinct (`IdsFresh`), that the batch of a flush is in the table and
  precedes everything else the flush may take (`BatchFirst`), that the rows of
  the batch no longer to be written have a line (`LinesCounted`), and that the
  table is finite with an exact count. `BatchFirst` is the heart: with it,
  `CoveredIsBatch` shows that the one DELETE of a flush removes the rows just
  written and no others, so neither the count nor the log is wrong afterwards.
* From it `QueueCountIsExact`, `OnlyFaultsRepeat` and `LogIsDurable`, the
  refinement: every step of the log is a step of `DurableLog` or leaves
  `queued` and `logged` alone.
* `ClosedDaysStayClosed` needs a second invariant, `OrderInv`: in a channel that
  was never disturbed, ids follow the clock, and every row still to be written
  is of a day after every closed file and not before the open one.

The lemmas first say which actions touch which variables; then each conjunct
has one lemma about the actions that do. The only assumption is `LogConstants`.

And of the process, for any number of lookup workers and channels:

* `ProcessRunsTheLog`: the process drives the log only through the log's own
  steps, so `Spec` of `ServerLife` implies `LogSpec` and every theorem above
  holds of the whole process, with its restarts and crashes. `ProcessIsDurable`
  draws that conclusion for the refinement.
* `LifeInvariance`: `LifeInv`, about the workers (none where `main()` has
  destroyed or not yet started them, and then nothing in their pipes), the
  signal handler (one that has not finished runs on a worker that has not
  ended, and has set the shutdown flag before the restart flag) and the flags
  (the server is active wherever the loop runs). From it `NoSignalIsLost` and
  `WorkersEndWithServer`. The handler's part is needed because `server_init`
  clears the flags: no handler can be half-way then, since its worker would
  have to be joined first.

`Accounts_proofs.tla` proves, for any number of names, addresses, clients and
memos, every configuration and every failure of a write:

* `AccountInvariance`: `AccountInv`, that the tables have their types
  (`TablesOK`), `SessionsCurrent`, that a stored token is the latest of its
  kind, unused, of this registration and for the stored address or password
  (`TokenInv`), that memo ids are old and distinct (`MemoIds`), and
  `MemosOfThisRegistration`.
* From it `SessionsAreCurrent`, `MemosAreOfThisRegistration`, and the action
  properties `TokensAreHonoured` and `MemosAreKept`. The first needs `TokenInv`,
  because the code compares a token only with the one in the row; the second
  needs `MemoIds`, because rows are hidden and deleted by id.

The lemmas group the handlers by what they write (sessions, identification,
tokens, accounts, memos). The assumptions are `AccountConstants`, the types of
the constants, and `NoneIsNoRow`, that the absent account is not a row.

`Rates_proofs.tla` proves, for every number of addresses, every limit and window,
and every size of the tables:

* `RatesInvariance`: `RatesInv`, about the limiters, and from it
  `RatesAreBounded`. `work` is a log of the times at which a limiter let
  something it counts through since the server started or its clock was last set
  back, for each address and for the server; `RatesBounded` says of any
  `2n + 1` entries in a row that the first and the last are a window apart, so no
  stretch of that length holds more than `2n`. `RatesInv` says that what a
  window has counted is the tail of its log, that the rest is from before the
  window's start, and that what lies a whole limit further back is a whole
  window earlier (`Explains`). A slot can be taken over by another address:
  then the log of the one that lost it is `Settled`, all but its last entries
  a window old. That needs the slots of the table to belong to different
  addresses, so that what is charged to one is counted in one. When the clock
  is set back the logs are empty and the windows may start in the future
  (`Reached`); each is then over before it counts again (`SetBackKeeps`).

One lemma says what claiming a slot does to a table and its logs, one what
charging it does, one each for the two kinds of server-wide window; the handlers
that hash, mail or register are combinations of these. The assumptions are
`AccountConstants` and `ThrottleConstants`.

`EventLoop_proofs.tla` proves, for any number of connections, every send queue,
window, record size, buffer and budget, over plain TCP and TLS:

* `LoopInvariance`: `LoopInv`, that every connection is `Intact`: what the peer
  was sent counts from one, the queue goes on from there to what the server said,
  an unfinished TLS record goes on from what was sent and is covered by the write
  to be repeated, and that write by the queue. The proof gives a contract for a
  write of the units that come next (`Wrote`), proves it of `Plain_write`,
  `SSL_write` and `transport_write`, and from it that sending and flushing keep
  `Intact`. Queueing may stop short of what was said only after an overflow, or
  when the queue is empty on a reset connection whose next write fails (`Stuck`);
  without the second the invariant is not inductive, because a message whose first
  write fails is dropped before anything records it. From it
  `OutputStaysIntact`.
* `DrainInvariance`: `DrainInv`, about the other direction. The lines of a
  connection, in the buffer, in the TLS session and on the wire, keep their order,
  and nothing follows an overlong partial line (`Readable`); as long as nobody
  left during a drain, every client behind its index, cyclically, has no PONG
  left or used up its share, unless the budget is used up (`HeardBehind`). A full
  round is everybody (`BehindAll`), so maintenance finds no PONG that could have
  been heard: `PongIsHeard`.

The assumptions are `IOConstants` and `LoopConstants`.

### Only model-checked

* Liveness and everything under fairness: `LookupsNeverBlock`,
  `SignalEndsProcess`, `RestartServesAgain`, `QueuedIsLogged`,
  `EveryoneServed`, `OutputFlushed`.

Every safety invariant and action property that the runs check is proved.

## Not modelled

Wire formats, tags and batches, formatting of replies, mask matching and CIDR
arithmetic, password hashing, cloaking, virtual hosts, the SQL schemas and their
migration, the file formats of logs and GeoIP, and configuration files: text and
arithmetic without a second actor.

`PROJECT.json` lists the components without a module with the reason. The larger
ones are presence (WATCH, SILENCE, WHOWAS, PMSTATS), message history, the
delivery policy of PRIVMSG and NOTICE, the operator database, and the token
buckets of one client in `dispatch.c`: each is decided and applied within one
handler, or touches state of one client only. Left out of modelled components:
REHASH replacing settings that are constants here, an operator whose rights are
revoked while they are in use, the transaction state of a SQLite connection
after a failed COMMIT (`chanserv_persist.c:273`), and the hook that PMSTATS and
WATCH share. These are in the list of hazards, with a note where they bite.
