# The license service in TLA+

A license server (`src/Linux_C++_server`) hands out the keys of licenses kept in
a MySQL schema (`src/MySQL/Alex_K_DB.sql`) to programs that link a client library
(`src/Windows_C++dll_client`). A key may be in use by one client at a time. The
client asks for it (REQUEST), confirms it about once a second (CHECK) and gives
it back (RELEASE); the server releases the key of a client that has not been
heard of for 1.7 s. The modules here model that program, TLC checks them on small
instances, and TLAPS proves the theorems listed below for every instance.

## 1. Inventory

| component | state | operations | properties that make it correct |
|---|---|---|---|
| `client_session` (main.cpp:227-489), one thread per connection | locals; the globals `currentClients`, `isNotUse`, `m` | read the key, find the user, start a reaper if `isNotUse`, take `m`, offer a temporary id, handle REQUEST / CHECK / RELEASE, answer, insert | a key has one holder; `m` comes back; an id names its own client |
| `release_unused_keys` (main.cpp:133-224), the reapers | its queue `q1`; the same globals | sleep, take `m`, flag and queue what is stale, connect, release and erase, end when nothing is left | a reaper exists while `isNotUse` is false; a fresh entry stays; what is left behind is released |
| `run_server` (main.cpp:560-662) | the port, the acceptor | save and read the address, take a port, `NullStart`, accept | nothing stays requested from an earlier life; the address known is the one listened on |
| `server_off`, `mess_control` (main.cpp:46, 260-281, 632) | a global string, no lock | the shutdown command | the loop is woken after the assignment and stops |
| `run_license_ctrl` (LicenseControl.cpp:109-361), the client | query type, ids, status | connect, exchange the key, exchange the query, interpret the answer, sleep | two confirmed clients never have the same key; a confirmed client is known to the server |
| `MySQLconnection` (MySQLinit.cpp) | the connection | `FindUserByKey`, `Select`, `NullStart`, connect | a failure is told from a success |
| `MySQLinit` (MySQLinit.cpp:17-59) | `m_counter` | `instance`, `Clear` | the library lives while it is used |
| the tables `license`, `key_s` and the trigger `tr_up_key_b` | license status and dates, `key_requested` | `RequestKey`, `ActiveKeyCheck`, `ReleaseKey` | a requested key is not granted again |
| events and administration (Alex_K_DB.sql:875-951, 1349-1490, 1741-1766) | the same rows, `user` | expire, delete, renew, replace a key, remove | changes beside the server do not break what it has promised; a license that lives is not deleted along with something else |
| issuing (Alex_K_DB.sql:1013-1253, 1506-1673) | `user`, `order`, `license`, `key_s` | `AddNew`, `NewLicenseForUser`, `NewLicenseToOrderFor` and their retry loops | a user's count covers his licenses |
| log triggers, `change_log` | an append-only table | strings | none that matters to the service |
| AES and the removal of zero bytes (cryptpp_aes.cpp) | none | `Encrypt_aes`, `Decrypt_aes`, `deziro`, `reziro` | decoding inverts encoding, of a whole message only |
| `TargetPoint` file (file_parser.cpp) | a text file | write, read | what was saved is read |
| `becomeDaemon`, `main`, `dllmain` | none | process start | none |

How they interact. A client connects; `run_server` gives the socket to a new
thread of `client_session`. Session and client exchange exactly two messages each
way (key / offered id, query / answer) and close. The session calls the stored
functions over its own MySQL connection. Sessions and reapers share
`currentClients` under `m`, but `isNotUse` is read and written in part without it
(main.cpp:135, 140, 296). The tables change beside the server: an event expires
licenses every two minutes, another deletes them, an administrator renews a
license or replaces a key, and a second server may run on the same tables.

What is hard in it. `m` is held while the server waits for the client, so one
client stops everyone; the answer is written between the change of the tables and
the change of `currentClients`; the decision to start a reaper is made long
before the client is inserted; a late CHECK races with the reaper; a queue of ids
survives a turn of the reaper; a crash forgets `currentClients` but not the
tables; RELEASE does not compare keys. The list with its lines is in
`PROJECT.json` under `hazards`. Besides, two globals are used without any lock:
`mess_control`, which every session assigns and the accept loop tests, and the
counter of MySQL connections, whose last `Clear` ends the library; and a message is
read by one `read_some`, which may deliver a part of it.

## 2. The modules

| module | models | state |
|---|---|---|
| `LicenseTypes` | the parameters: users, licenses, keys, ids, and the sets `Faults` and `Changes` that switch failures and administrative changes on | |
| `LicenseDB` | the two tables, the trigger, the stored functions, the events, `MySQLconnection` | `license`, `key_s` |
| `LicenseSockets` | the connections (external: boost::asio) | `conn`, `inbox`, `outbox` |
| `LicenseServer` | `client_session`, `release_unused_keys`, the process | `up`, `currentClients`, `isNotUse`, `m`, `sess`, `reap` |
| `LicenseClient` | `run_license_ctrl` | `cpc`, `query`, `uid`, `status` |
| `LicenseSystem` | the composition, the clock, the fairness, the properties | |
| `LicenseInvariants` | the inductive invariants behind the deeper properties | |
| `LicenseAdmin` | issuing, renewing and deleting, and the events, over users, orders, licenses and keys; it shares no state with the modules above | `user`, `order`, `license`, `keys`, `call`, `event`, `missed` |
| `KeyLease` | what the service promises of its keys, abstractly | `lease`, `vacant` |
| `TargetPoint` | file_parser: the lines of the address file, written and read; a number and its line are told apart by an injective map | |
| `ServerProcess` | one process from `run_server` to `server_off`: the address, the port, the accept loop, `mess_control`, the counter of `MySQLinit` | `main`, `targetPoint`, `file`, `line`, `other`, `taken`, `bound`, `mess_control`, `backlog`, `commands`, `sess`, `m_counter`, `library`, `con` |
| `ZeroCodec` | `deziro` and `reziro` | |
| `LicenseExchange` | the messages of one connection as characters | `turn`, `step`, `text`, `cipher`, `wire`, `length`, `got` |
| `MCLicenseSystem`, `MCLicenseAdmin`, `MCServerProcess`, `MCLicenseExchange` | instances, symmetry and view for TLC | |
| `LicenseSystemProofs`, `LicenseDialogueProofs`, `LicenseIdProofs`, `LicenseHolderProofs`, `LicenseRunningProofs`, `ServerProcessProofs`, `LicenseAdminProofs`, `LicenseExchangeProofs` | the lemmas and theorems | |

`LicenseSystem` composes `LicenseDB`, `LicenseSockets`, `LicenseServer` and
`LicenseClient`; `LicenseInvariants` extends it, and the proofs about it are a chain of modules that each
extend the one before: `LicenseSystemProofs`, `LicenseDialogueProofs` (which adds
`LicenseInvariants`), `LicenseIdProofs`, `LicenseHolderProofs`, `LicenseRunningProofs`.
`LicenseInvariants` also instantiates `KeyLease` under the mapping that
`KeyLeaseKept` checks. `ServerProcess` extends `TargetPoint`, and `LicenseExchange`
extends `ZeroCodec`. These two look at what `LicenseSystem` takes for granted: that a
server is there to be connected to and stops when told, and that a message arrives as
it was sent or not at all.

How state and actions correspond to the code.

*Sessions.* `sess[s]` holds the locals of one thread: `key` is `user_key`, `user`
is `user_id` (None for 0), `id` is `temp_uid`, `answer` the word of the answer,
`client` the `Client` that will be inserted when `ALL_RIGHT` is set. `pc` names
the point where the thread waits or where others can be seen to interleave: `read`
(the key has not arrived), `find` (before the database), `watch` (before
`if(isNotUse)`), `lock` (before `m`), `exchange` (the id is offered, `m` held, the
query not read), `reply` (the query handled, the answer not written). Everything
between two of these points is one action, because it touches only locals, or is
under `m`, or is one statement of the database. One exception is made in the other
direction: `isNotUse` is not protected, so it is read in `Watch` and in `LoopTest`
and written in `StartReaper` and `EndSweep`, each an action of its own.

*Entries.* `currentClients[i]` is None or the `Client` inserted under id `i`.
`create_time` is folded into `stale`: `passed(Second, 1.7, ...)` is true of it.
`Age` is the clock making it so, `Reply` sets a fresh time.

*Tables.* A row of `license` is its status and whether launch date plus duration
has passed; a row of `key_s` is `free` or `requested`, or there is none
(`unissued`, `deleted`). A stored function is one action and returns a license or
None for 0. The trigger's second UPDATE assigns `NEW.key_requested` in the SET
list of another table (Alex_K_DB.sql:140). What that does to the row is not
settled by the code alone, so `LapsedWrites` names the three outcomes: the row is
cleared, keeps the written value, or the statement fails. The runs allow all or
two of them.

*Issuing and deleting.* An administrator calls one stored function at a time; each
is one transaction at the default isolation, REPEATABLE READ. So its reads show the
tables as they were at the first of them and its writes change the tables as they
are at the end: `CallX` is the first read and remembers in `call` what the code
reads into locals, `EndX` is the writes. In between the clock, the clients and the
events may change the rows. `AddNew` begins with an insert that hides its user from
everybody else, and what `NewLicenseToOrderFor` has read is checked again by the
foreign keys of its insert, so each of the two is one action. A retry loop is one choice:
it ends with the row inserted, or, if inserts may fail again and again or no row is
left in the bounded sets, without it. `missed` is not in the code: it counts what
`NewLicenseToOrderFor` gives without counting it. `status` and `gone` stand for the
dates. `order_license_id` is written and never read, and is left out.

*Failures.* `crash`: the process ends, sockets close, `currentClients` is gone.
`connect`: a session's connection to MySQL fails and its null handle is used, which
ends the process too; a reaper's connection fails and its queue stays. `query`: a
call of `mysql_query` fails before it ran. `lostreply`: it ran and its answer is
lost. `write`: the write of the last answer throws. `net`: a connection breaks and
takes along what was under way. A client may vanish at any point in every run.

*Leases.* A key is leased to the id its entry has, or will have when the answer of a
session that has been granted it is written (`LeasedTo`); it is vacant if
`RequestKey` would grant it (`Vacant`). A RELEASE, a timeout and a crash end a lease; a
CHECK renews it, under the old id or the one just offered.

*The process.* `main` is the point `run_server` has reached. The address file is the
set of its lines that have been written: each line is flushed, a second server in the
same directory writes at an offset of its own, and opening the file empties it for
both, so that lines with nothing before them can be read together with a hole. All
servers write the same lines, because `main` gives all the same port. `taken` are the
ports of others; a bind error other than "Address already in use" repeats the loop
unchanged, which is a stutter. A session appears here from the message it reads to the
`MySQLconnection` it opens and closes; what lies in between is `LicenseServer`'s.

`mess_control` is a string that threads assign and compare without a lock. An
assignment has a beginning and an end. Who reads meanwhile sees the old value, one of
the new ones or a mixture (`Seen`); two assignments that overlap leave one of them or
a mixture, or corrupt the memory and end the process (`AssignDies`). A wake-up is a
connection of a session to the server's own port, accepted like any other; if
`targetPoint` named another port it would go to another server.

`++m_counter` and `--m_counter` are a load and a store (`Instance` and `Counted`,
`Clear` and `Uncounted`), and the test that ends the library reads the counter again.
`run_server` destroys its connection by hand before the loop and once more when it
returns; after that second time the counter may be below the number of connections. A reaper
constructs a connection object, which counts, and connects it only if it has something
to release (`StayClosed`).

*Messages as characters.* The cipher of a text is some block of 144 chars, and only
that block, under the phrase it was made with, decrypts to the text. A char is signed,
as on the platforms of the two builds, and a position is sent in one char, relative to
`SCHAR_MAX` but for the position `SCHAR_MAX` itself. `Receive` reads any part of
what was written, `Break` stands for an error or no bytes. One message is under way
at a time, because each side writes only after it has read.

*Encryption.* Both programs use the same key and a phrase, `secret`, as additional
authenticated data. In the checked-in sources the phrases differ (main.cpp:50 has
three exclamation marks more than the client's); both sides are modelled as a
deployment that has agreed on one phrase, as the text of the phrase says it should.

## 3. The runs

All runs but `issuing`, `process` and `exchange` use `MCLicenseSystem`: one user, one
license, one or two keys, two sessions and one reaper (two in `reapers`), two or three
temporary ids.

| run | what is on | what is checked | result |
|---|---|---|---|
| `healthy` | two clients with the same key, time passes, the license may lapse, clients are back in time (`Timely`) | `OneRunning`, `ConfirmedIsTracked`, and the invariants their proofs rest on, `RunningInv`, `GrantedOnce` | hold |
| `faults` | one client that may vanish and come back, all failures but `lostreply`, lapsing, extending, replacing, removing, every outcome of the trigger | `OneHolder`, `HolderInv`, `ReservationKept`, `FreshEntryKept`, the refinement `KeyLeaseKept` | hold |
| `two_keys` | two clients, each with its key of the same license | `OwnHandle`, `DialogueInv` | hold |
| `reapers` | two reapers, ids that repeat, lost answers of the database, renewal, a second server | `TypeOK`, `MutexHeld`, `ReaperAlive` | hold |
| `liveness` | crashes, failed connections to MySQL, fairness | `NoHangingKey`, `SessionsEnd`, `HangingKeyReleased` | hold |
| `issuing` | `MCLicenseAdmin`: two users, three orders, three licenses, inserts that may fail, the events between the steps of a call | `AdminTypeOK`, `CountCoversRows`, `LiveLicenseKept` | hold |
| `process` | two sessions, a reaper, a second server that saves its address, ports in use, clients that send keys or `server_off` | `ProcessTypeOK`, `OwnAddress`, `LibraryLives`, `StopsOrOverwritten` | hold |
| `exchange` | every block of two characters and zero, texts that fit, do not fit or contain a zero, one phrase, any part of a message read | `ExchangeTypeOK`, `NoZeroSent`, `IndexInside`, `ReadIsAllOrNothing` | hold |
| `lost_reaper` | no failure at all, fairness | `TimedOutKeyReleased` | violated |
| `lost_answer` | the write of the answer may fail | `NoHangingKey` | violated |
| `renewal` | an expired license may be renewed | `OneHolder` | violated |
| `second_server` | a second server may start | `OneHolder` | violated |

The four violations are the findings of `PROJECT.json`: each breaks what a comment
of the sources says, and each is a run of legal steps that no test of one
component would take. In three more cases a property does not hold and no document
says it should: `OneHolder` with `lostreply`, `OneRunning` without `Timely` (a
client that is confirmed but late is replaced by another before it notices), and
`OwnHandle` without `FreshIds`. In `LicenseAdmin` `CountCoversRows` does not hold
without `EventInOneGo` (a license renewed between the two statements of the event
DeleteExpiredLicense stays and is no longer counted), nor would it with two
administrators, whose counts, read before they are written, overwrite each other;
`LiveLicenseKept` does not hold with `ForeignOrders`
(`NewLicenseToOrderFor` takes another user's order, and the license goes with that
user). No document excludes these, so they are hypotheses and not findings.

The same is true of the process. `LibraryLives` does not hold without `Serial`, that is,
if `instance` and `Clear` of two threads overlap: a reaper with nothing to release
lowers the counter to 0 and finds it so, a session counts itself and connects, and the
reaper then ends the library under the session's connection. `StopsOrOverwritten` says
no more than its name: a key that another client sends between the assignment of
`server_off` and the test in the accept loop overwrites the command, the client has
been told goodbye and the server stays. If writing the goodbye throws
(`WriteExitFails`), nothing wakes the accept loop, which stops only after the next
client. With the phrases as checked in (see *Encryption*) `ReadIsAllOrNothing` still
holds, and says that neither side ever reads anything.

Deadlock is checked in every run but `process` and `exchange`, where the process stops
and the connection closes.

`SavedIsRead` and `NothingRead` are evaluated with the run `process`: an address that is
saved is read back, whatever the target was before, also when it looks like a flag,
and an empty or foreign file changes nothing. The server saves an empty address, which
is the line after its flag, and that too is read back.

**Bounds.** Two sessions are enough for every pair of threads that compete for
`m`, and for an old session of a vanished client beside a new one. One reaper
beside two sessions shows every race over `isNotUse` but that of two reapers,
which `reapers` adds. Two clients are what `OneRunning` and `OwnHandle` talk
about; where only the server's side is asked about, one client that vanishes and
comes back leaves the same entries behind as several. Three ids (two where noted)
allow a tracked entry, the id on offer and one that a queue or a client still
remembers. A run with fewer ids than `FreshIds` would need only has fewer
behaviours, it does not deadlock: the clock and the clients go on.
`FreshIds` says that `uid(gen)` does not draw an id somebody still remembers: 2^31
numbers against a handful, though the generator is seeded with the second, so that
sessions of the same second draw the same first number; the loop at main.cpp:344
compares it only with `currentClients`. `Timely` says that a running client is
back before its entry is 1.7 s old: it sleeps one second between two calls.
In `issuing` three licenses let one user have several, or two users share them, while
one is expired and another lives; three orders leave one for a renewal; `MaxCount` is
2 where the code has 127, so that the overflow of the count is reached; `MaxMissed`
bounds the calls of `NewLicenseToOrderFor` to one for each user.
The view `RunningStatus` forgets the status of a client that is not running, which
`Start` resets.
In `process` ports 3 to 5 stand for 5050 and those after it: none, one or two are taken.
Two connections of clients let `server_off` meet a key or another `server_off`;
`MaxPending` bounds only clients, a wake-up always finds room. The view `Relevant`
forgets how the address was found once the port is bound, where only `targetPoint.port_ = bound`
matters.
In `exchange` a cipher has 6 chars and `CharMax` is 3 (144 and 127 in the code), so that
positions below, at and above `SCHAR_MAX` occur; the alphabet is zero, `A` and one more.
The tag takes four of the six: a text of three chars does not fit and one with a zero
inside is cut, so neither is `Sendable`; the two others come through.

**Fairness** (`LicenseSystem!Fairness`, used by `liveness` and `lost_reaper`). A
thread that can run does (the operating system); a thread that waits for `m` gets
it if `m` is free again and again, since every holder gives it back and then ends
or sleeps; a connected client goes on unless it vanishes, which the server's
socket reports; time passes; the process is restarted after a crash. Strong
fairness of a session's own steps differs from weak only in `Watch`, which the
bound on `Reapers` can block and the program cannot. No client need ever start,
and none need stop. `HangingKeyReleased` adds the condition that sessions keep
coming, and `lost_reaper` shows that it is needed. `TurnConnects` says that a reaper
which tries to connect to MySQL again and again succeeds in the end: without it a
database that is never back keeps every key. `ServerProcess!Fairness` asks less: every
thread that can run does, and under `Serial` a thread waiting for its turn at the
counter gets it. Clients and the other server owe nothing.

## 4. The proofs

`LicenseSystemProofs` proves for every choice of
the constants allowed by `TypesAssumption`, `DBAssumption`, `SocketAssumption`,
`ServerAssumption`, `ClientAssumption` and `SystemAssumption`:

- `TypeCorrect`: `Spec => []TypeOK`. `TypeOK` is inductive by itself because
  `ServerTypeOK` contains `Assigned`: a session that is past a point of the code
  has assigned the locals that later code uses. Without it the message a session
  writes, or the entry it inserts, could not be typed.
- `MutualExclusion`: `Spec => []MutexHeld`, by induction together with `TypeOK`.
  The invariant is an equivalence, so it says both that two threads never hold
  `m` and that `m` is never left behind by a thread that has ended.
- `ReaperRuns`: `Spec => []ReaperAlive`. Inductive with `TypeOK`: only
  `StartReaper` clears the flag, and its reaper is then in its loop; a reaper
  leaves the loop only when the flag is set.

- `DialogueInStep` (`LicenseDialogueProofs`): `Spec => []DialogueInv`. Client and
  session stay in step: a session serves one client, works for its key, and each of
  the two is where the other's last message says. The later proofs need it because
  an id travels through two messages and three locals.
- `IdsOfOneKey`, `HandlesOwn`, `FreshEntriesKept` (`LicenseIdProofs`), under
  `FreshIds`. `IdOfOneKey` says that wherever an id is in use (entry, offer, query,
  client, answer) it is in use for the same key. That implies `OwnHandle`, which is
  why RELEASE may leave keys uncompared, and, with `MarkedAreStale`, `FreshEntryKept`.
- `HeldIsReserved`, `KeyHeldOnce`, `ReservationsKept` (`LicenseHolderProofs`), under
  `FreshIds`, without `lostreply`, without a second server and without `revive`.
  `OneHolder` is not inductive: it says nothing of the tables that decide the next
  grant. `HolderInv` adds that the key of a holder is reserved, or replaced, or its
  license over, and that entries name the rows of their keys.
  The runs `renewal` and `second_server` show that the last two hypotheses are
  needed, and section 3 says so of `lostreply`.
- `NoKeyHangs` (`LicenseHolderProofs`), under `FreshIds` and `Dependable`: the calls
  of MySQL run and answer, answers are written, the trigger does not fail, no key is
  replaced. The run `lost_answer` shows one of them needed. `ReservedInv` is `HolderInv`
  turned around, with `OfferUntracked`: the id on offer is in no entry, so that the
  new entry replaces none whose key would then hang.
- `SystemImplementsLease` (`LicenseHolderProofs`): `Spec => KeyLeaseKept`, under the
  hypotheses of `KeyHeldOnce`. `HolderInv` before and after a step leaves one thing to
  show of each action: it makes nobody a holder (`NobodyNew`), but for a `RequestKey` that
  finds the key vacant. Then a lease that was empty begins on a vacant key or stays
  empty, and one that was not has one handle or ends.
- `RunningFollowed`, `ConfirmedTracked` (`LicenseRunningProofs`), under `Undisturbed`: ids
  are fresh, clients are back in time and the server does not go down (no `crash`, and
  no `connect`, which ends a session's process too). Broken connections, failing and
  lost calls and every change of the tables are allowed. `ConfirmedIsTracked` looks at a
  client between two checks; `RunningInv` follows its entry through a check as well. An
  id is remembered by one client, told to one or named in one query (`IdInOnePlace`). A
  client's entry is in time and under the id it is going to name; while the query
  travels under the id in the query; after the decision it is in the session's local
  `client`; and then it is under the id just offered (`Followed`). Each step of somebody
  else leaves the entry alone: another session erases the id its own client has named,
  which is a different one, and a reaper erases what is marked, which has timed out
  (`MarkedTimedOut`, which needs no hypothesis).
- `KeysGrantedOnce`, `OneRuns` (`LicenseRunningProofs`), under `Steady`: besides
  `Undisturbed`, no `net`, `query` or `lostreply`, no second server and no `revive`.
  `GrantedOnce` widens "confirmed" to a client whose session has decided to
  confirm it, or whose confirming answer is under way: all of these have an entry or are
  about to, so by `HolderInv` the key is not vacant and `RequestKey` grants it to nobody
  else. A client that has been refused stays confirmed until it reads the answer; that
  is harmless because its key is then `Over`, never to be granted again
  (`RefusedForGood`), and `OverStays` says that no step changes this.
- `CodecInverts`, `PartDiffers` (`LicenseExchangeProofs`), from `CodecAssumption`, for every
  length up to twice `SCHAR_MAX`: `reziro` undoes `deziro`, and a part of a message is
  never restored to its cipher. There is no induction over the queue of positions:
  `Rank` numbers the zeros from 1 to their count one to one, so each of the characters
  after the cipher names one zero, and all of them together every zero; if one is
  missing, its zero stays an `A`. From these and
  `ExchangeAssumption` follow `ZerosRemoved`, `ReziroStaysInside` and `AllOrNothing`:
  `Spec => []NoZeroSent`, `[]IndexInside` and `[]ReadIsAllOrNothing`, and the types,
  `ExchangeTypes`.
- `SavedIsReadBack` (`ServerProcessProofs`), from `TargetAssumption`: a target is read back
  from the six lines it is printed as, whatever was known before and also when the
  address looks like a flag. The reader is a fold over the lines; six steps of it are
  unfolded one by one (`ReadInOrder`), for a whole file and for one in which lines are
  missing or follow a hole.
- `ProcessTypes`, `AddressIsOwn` (`ServerProcessProofs`), from `ProcessAssumption`, by one
  invariant, `StartInv`. The types are not inductive alone: that the ports tried do not
  pass `LastPort` needs to know that all ports below the one in hand are taken, and that
  a half-written file gives no other port than the one main asked for.
- `LibraryOutlivesConnections` (`ServerProcessProofs`), under `Serial`. `CountInv` says that
  the counter is the number of connection objects that have counted themselves and not
  uncounted (`Holders`), that one thread at most is at the counter and what it has loaded
  is still true, and that whoever is about to end the library leaves no holder behind.
- `AdminTypes`, `CountsRight` (under `EventInOneGo`) and `LiveLicensesKept` (without
  `ForeignOrders`), in `LicenseAdminProofs`. `AdminInv` adds to the types that
  the user of a license is there, that its order is his, and that the user a call is
  about to delete has expired licenses only. `CountsCover` strengthens
  `CountCoversRows` with what holds between the two statements of the event and
  inside a call: what `NewLicenseForUser` has read is no less than the count, and
  what `RemoveLicense` has read covers the licenses that will be left.

`DialogueInv` is checked by the run `two_keys`, `HolderInv` by `faults`, `RunningInv` and
`GrantedOnce` by `healthy`. The hypotheses of `OneRuns` are not there for the
proof's sake: on the instance of `healthy`, TLC finds `OneRunning` violated without
`Timely`, and with any one of `crash`, `connect`, `net`, `query`, `lostreply`, `revive` or
a second server (a confirmed client whose call fails or whose connection breaks goes on
believing in its key, which is released and granted to another). It finds
`ConfirmedIsTracked` violated without `Timely` and with `crash` or `connect`. `FreshIds` is used by the
proofs, but an instance with three ids does not show that these two need it.

The proofs follow the shape of the next-state relation: one lemma for each group of
its disjuncts, one step per action. Every safety and action property of a passing run
is a theorem. Model-checked only: liveness (`SessionsEnd`, `HangingKeyReleased`,
`StopsOrOverwritten`), which the prover does not reach, and the four violations.

## 5. What is not modelled

- Logging, and the dates of the tables (folded into `overdue`, `status` and `gone`). The
  contents of messages appear in `LicenseExchange` only; `LicenseSystem` keeps the word
  and its argument.
- The log triggers and `change_log`: they build strings and append to a table that
  nothing reads.
- `becomeDaemon`, `main`, `showIp` and `dllmain`: process start-up without a state of the
  service.
- What is never called: the transactions and `CountUserIDentry` of `MySQLconnection`,
  `minutespassed`, `fileExist`, the wide writer of file_parser and the overloads of
  `Encrypt_aes` and `Decrypt_aes` that take a cipher object.
- Crypto++ and MySQL's client library, taken by their documented results, also
  that AES-GCM rejects what was not encrypted under the same phrase.
- What an application does with a status that is not followed by another call
  (LicenseControl.cpp:188), and with what the client library throws when the server's
  message decrypts to nothing: both leave the repository.

`LicenseDB` and `LicenseAdmin` are two views of the same tables and are not composed:
the first has the keys that the server sees, the second the users, orders and counts
that it never touches. `KeyReplacement` is in the first only. `ServerProcess` is not
composed with `LicenseSystem` either: they share the sessions' first message, and a
server that stops is a crash to the tables and the clients of `LicenseSystem`.

## 6. Plan

1. `LicenseSystem`, the core, with its invariants proved: done.
2. `LicenseAdmin`: issuing and deleting, with its invariants proved: done.
3. `KeyLease` and the refinement, checked and proved: done.
4. `ServerProcess`: the start, `server_off` and the counter of `MySQLinit`, checked and
   proved: done.
5. `ZeroCodec` and `LicenseExchange`, checked and proved: done.
6. `TargetPoint`, checked and proved: done.
7. Running clients: `RunningInv` and `GrantedOnce`, checked and proved: done.
8. Open: `OneRunning` and `ConfirmedIsTracked` with ids that may repeat; what is left of
   `KeyHeldOnce` when an answer of MySQL is lost; an abstract specification that
   `LicenseExchange` implements (a message is delivered whole or not at all); events and
   administration of two administrators at once.
