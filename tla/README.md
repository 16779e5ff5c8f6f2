# Blazzing IPTV in TLA+

Blazzing is an IPTV player for the desktop (C17, X11 or SDL2, mpv, SQLite) with a
pairing service and a Tizen port beside it. This directory holds TLA+ models of
the parts where threads, processes, files and failures meet, the TLC
configurations that check them on small instances, and the theorems about them
that TLAPS proves. `PROJECT.json` lists the runs, the source lines behind every
definition, the hazards the properties are for, and what the checks found.

Paths below are those of the repository.

## 1. The system

One process runs a user-interface thread, a pool of 8 to 16 thumbnail workers, a
monitor thread of the player, and up to one thread each for login, series,
details and phone pairing. It starts mpv (one, persistent, over JSON IPC) and
FFmpeg (one per captured frame) as children and keeps a SQLite database and a
directory of covers.

```
            user-interface thread (x11_app.c: events, async results, prefetch,
              |        |        |     failover, fullscreen, progress, redraw)
   enqueue/cancel   load/stop   start job, poll `done`
              v        v        v
   thumbnail     mpv adapter    login / series / details workers, pairing relay
   scheduler      |   ^              |                  |
     | capture    |   | events       v                  v
     v            v   |          Xtream, resolver,   pairing service
   policy ->     mpv process     M3U, database       (Cloudflare worker)
   capture -> cache directory, FFmpeg
```

| Component | State it keeps | Operations | What is hard | What makes it correct |
|---|---|---|---|---|
| Thumbnail scheduler (`src/thumbnails/thumbnails.c` 70-469) | binary heap, map of entries with generations, `stopping`, `paused`, condition variable | create, enqueue (new, promoted, shed, out of memory), cancel, pause, destroy; worker loop | promotions leave stale nodes; one signal per request; destroy joins | one worker per card, no lost request or wake-up, order of dispatch, shutdown ends |
| Covers and capture policy (`thumbnails.c` 545-1264, `thumbnail_policy.c`) | cover files, `.fail` markers, `active_frame_captures` | look up artwork, download or capture a frame, publish by rename, back off 30 s | several workers, the drawing thread and crashes on one directory; two names per card | no half-written cover is visible, slots are exact, no early retry, recovery |
| mpv adapter (`src/player_mpv/player_mpv.c`) | snapshot, `pending_load_starts`, runtime flags, process, socket | load, stop, pause, seek, volume, destroy; monitor thread | asynchronous events of replaced items; mpv dies at any time | the snapshot is consistent, and right once all is said; nothing hangs |
| Player bridge (`src/ui_x11/x11_player_bridge.c`) | current item, fallback attempt, last save | enter, leave, failover, switch, save progress, fullscreen retries | error state of an earlier attempt; positions of an earlier item | each source tried once, progress saved for its own item |
| Interface workers (`src/ui_x11/x11_workers.c`, `x11_catalog.c`, `x11_input.c`) | job, thread and `running`/`done` flags, catalogs under `data_mutex` | start, publish, take over, cancel | results after the user moved on; the form edited during a login | no result on the wrong list or profile, no thread leaked |
| Pairing (`src/app/pairing_relay.c`, `worker/src/index.js`) | session, key, status | create, poll, deliver once, delete, expire | cancel against a late answer; lost replies | at most one submission, of the session shown |
| Xtream client, server resolver, M3U, Pluto provider (`src/provider/`) | none that lasts (the resolver keeps an identity file) | requests, decoding, parsing | fallback between servers, truncated answers | the catalog that is delivered is whole |
| Database (`src/database/database.c`) | SQLite file, one mutex | replace catalog, favourites, thumbnails, progress, profiles, metadata | transactions against other threads | a failed replacement changes nothing |
| FFmpeg decoder (`src/decoder/`) | child process and pipe per capture | capture with deadlines | a child that hangs or closes early | the child is always reaped |
| Pluto application, hub (`src/app/`) | grid and player state; a selection | browse, play; choose | little: one interface thread over the same scheduler and adapter | - |
| Core, keyring, rendering, SDL2 layer | lists, colours, image slots | - | none that a model reaches | - |
| Tizen application (`tizen/js/`), healing worker | its own storage; none | - | a separate program | - |

Interactions. The scheduler calls the capture through the linker's `--wrap`
(`__wrap_vip_thumbnail_capture_with_decoder`), outside its mutex, and then the
ready callback, which writes the database and asks for a redraw. The redraw (at
least every 100 ms in a list) looks for each visible cover on disk and enqueues
the card again if there is none. The player's two threads share one mutex for
the snapshot and another for writing the socket. Workers of the interface
publish under `data_mutex` and set `done`; the interface thread joins them.

## 2. Modules

| Module | Models | Uses |
|---|---|---|
| `ThumbnailJobs` | what the scheduler promises: a pool of wishes | |
| `ThumbnailScheduler` | the scheduler, one action per critical section | implements `ThumbnailJobs` |
| `ThumbnailHeap` | the heap array, one action per turn of a sift loop | |
| `ThumbnailCapture` | policy, capture, cache directory, drawing thread, crashes | composes `ThumbnailJobs` |
| `MpvPlayer` | adapter, monitor thread, mpv and the socket | |
| `PlayerBridge` | the player screen over the snapshot that `MpvPlayer` keeps | |
| `Interface` | the interface thread against the login, series and details workers | |
| `Pairing` | the relay thread, the pairing service, its page, the interface thread | |
| `AtomicStore` | what the database promises | |
| `CatalogStore` | the database statement by statement, over an external SQLite | implements `AtomicStore` |
| `Xtream` | what is made of a server's and of the resolver's answers (operators) | |
| `M3UCatalog` | from the lines of a playlist to three catalogs (operators) | |
| `Login` | the login worker in detail | composes `CatalogStore`, `Xtream`, `M3UCatalog` |
| `Absent` | the value of what is missing | |
| `ThumbnailSchedulerProofs`, `ThumbnailHeapProofs`, `ThumbnailCaptureProofs`, `MpvPlayerProofs`, `InterfaceProofs`, `PlayerBridgeProofs`, `PairingProofs`, `LoginProofs` | theorems about the module of that name, for any constants (section 4) | extend it and the library's theorems |
| `MC...` | small instances and their symmetry | |

How the modules divide the interface: `Interface` treats a login as a step that
succeeds or fails and asks what a result does to lists, indices and screens;
`Login` opens that step up and leaves the screens out; `Pairing` ends where a
submission is in the form (`TakeOver`), which is `TakeSubmission` of `Interface`;
`PlayerBridge` starts where `Play` of `Interface` enters the player.

### ThumbnailScheduler

`entry[k]` is the record `map_find` returns (or `NoEntry`), `heap` the set of
nodes in the array, `pc[w]` and `job[w]` what worker `w` does and holds between
two critical sections, `owner` the life of the object. `Take` and `Wait` are the
two ways `next_request` leaves its critical section: the first pops up to the
live node that comes first, with every stale node above it, the second has
popped everything or is paused. The nodes popped are exactly those that rank
higher, because `heap_pop` returns the node that ranks first; `ThumbnailHeap`
checks the array's side of that. `Signal` wakes any waiter, `SpuriousWakeup` is
POSIX's licence. `CreateFails` is the failure of `pthread_create` after some
workers already run, `EnqueueOutOfMemory` the failure of `heap_push`.

Left out: copying of strings and its failure (an early return without effect),
hash buckets (a map), growth of the array. `set_paused(true)` has no caller in
the program today; it is part of the interface and modelled.

### ThumbnailCapture

The scheduler appears as `ThumbnailJobs`; that the real one implements it is run
`scheduler` and theorem `ImplementsJobs`. `file[p]` and `marker[p]` are the
directory: a card has one name of its own and one for its artwork URL, each with
a cover and a `.fail` marker. `pc[w]` walks a call through the policy, the
lookup, the slot and the capture; each file operation is a step of its own, so
that the drawing thread (`DrawBroken`, `RemoveBroken`), other workers and
`Crash` come in between. `calm` turns true at an unknown moment; from then on
the network and disk succeed and the user neither quits nor changes lists. That
does not make every capture succeed: `Known` are the titles for which the search
has a picture, `Delivers` the cards whose address yields an image, and a lookup
or a fetch for any other card fails however reliable the network is
(`thumbnail_policy.c:308-310`, `:415-417`, `:620-622`). A marker may fail to be
written (`MayRefuse`), as nobody looks at the outcome of that `fopen`, and a power
loss may take young markers with it; `lately` follows the failures that left
their record. The drawing thread
looks for a cover and its marker in one step (`Look`) and enqueues in the next
(`Enqueue`), so that a worker can finish the card in between and the call that
follows meets a cover (`PolicyCached`) or a marker.
`Crash` may damage covers that were on no disk yet (a power loss; there is no
`fsync`), and `powerLost` remembers that it did. `Quit` and `Reopen` show the
slot counter and the directory outliving a scheduler. `CoverKept` is the safety
below `EveryCardCovered`: no worker takes a good cover away again.
`EveryCardCovered` promises a cover to the cards whose artwork can be had
(`Obtainable`), and nothing to a card that only has a stream: others, captured
in vain, may hold every frame slot whenever its turn comes.

Left out: decoding, scaling and encoding of images, the `.tmp` file (read by
nobody), how a title is searched (`resolve_remote_artwork` finds or does not),
the capacity of the pool beyond two workers, several artwork URLs of one card.
The policy's refusal of logo-less background requests has no action: the enqueue
filter (`Filtered`) drops all of them before, as the code's comment says.
`MaxFrames` is 1 in the runs (2 in the code): with two workers that is the
smallest instance in which a slot is refused.

### MpvPlayer

The variables of `snapshot` and `runtime` are the fields of `struct
vip_mpv_player` under `mutex`; `ui` is where the calling thread stands between
two of its critical sections or socket writes, `monitor` the same for the
monitor thread. `cmds` and `evts` are the two directions of the socket. mpv is
external and behaves as the adapter and `tests/test_player_mpv.c` expect it:
commands in order, `end-file` of the item that is replaced before `start-file`
of the next, observed properties reported when observed and when they change,
`pause` surviving the item, death at any moment with unread commands lost and
written events still readable. `Write` has three outcomes: the command is sent;
there is no mpv; or mpv lives but takes nothing for 250 ms (`write_all_fd`). A
death and a refused command are both counted in `failures`. Items are numbered so that properties can tell
them apart; the adapter never sees the numbers.

Left out: seek, volume, positions (`PlayerBridge` has them) and the resume seek,
codec fields, the log ring, the window, and the Windows branches. A write that
fails half-way is a failed write: what a line whose text was taken and whose
line end was not does to the next one is not modelled. `Destroy` does not send
the `stop` and `quit` commands, which cannot change anything any more.

A stop between two loads forgets a `start-file` that is still on its way (section
5). `AgreesWhenQuiet` says what holds nevertheless: with everything read the
snapshot is right, after any number of stops if a load follows them, and after a
stop if it is the only one (a second one may find `media_running` false and send
no command). `OldEndsIgnored` is stated up to the first stop.

### Interface

A list is named by what it holds (`[of, what]` for a catalog, `[series, what]`
for seasons and episodes), and `derived` remembers the list from which the
filter and the favourite flags and category counts were computed: an index kept
across a change of the list is then a `derived` or `playing` that differs from
`ActiveList`. `PublishLogin`, `PublishSeries` and `PublishDetails` are what the
three threads do under `data_mutex`; `HandleLogin`, `HandleSeries` and
`HandleDetails` are the interface thread joining them a turn later, with every
rebuild these make. `StartLogin` is the whole function: launch, resume on the
playlist that is loaded, or nothing while a login is under way. `CancelBrowse`
and `CancelJoined` are the join that Back and Lists perform. The series worker
reads server and account from the form when it starts, which is why its job
records `server` beside the series that was asked for.

The code lets the form and the catalogs drift apart (section 5). `tainted`
records that this happened, until the next login ends on an unchanged form. A
login that a phone's submission starts behind the browse or the player screen is
one of these cases, and the one in which lists are swapped under indices in use.
`IndicesAgree` therefore judges tainted behaviours too, for the lists of a
catalog: there it leaves out only the time from the publication of a login to
its take-over (`login.at = "ok"`), in which the indices are stale in the code.
`EpisodesOfParent` and `DetailsOfShown` are stated for untainted behaviours.
What is published is the server that was asked for (`AsAsked`) or one the resolver
gave for it (`Resolved`); the worker writes the latter into the form's server
field, whatever has become of the form since.

Left out: order and grouping of episodes, the list of saved profiles, focus,
hover, scrolling, the favourites' own contents, status texts.

### PlayerBridge

mpv is what the snapshot shows of it: `state`, `pos`, `ended`, and `reports`,
which says whose events may still arrive: the item's that was loaded, those of
one before it while its end is ignored (`before`), those of another whose end is
believed (`other`, after a stop or a refused command), or of a stopped one.
`Started`, `Plays`, `Ends`, `Breaks` and `Halts` are what `handle_ipc_line` makes
of them on any screen, and `Dies` is the monitor's exit, which sets the error
state whatever the item does, also after its end. `Save` is every caller of
`save_current_progress`; leaving the player is two steps, the save (`LeaveSave`)
and the stop that clears the snapshot (`LeaveStop`), and mpv may speak between
them. The two writes of a save (progress, watched count) fail separately.
`flags` are `progress_flags` of the list that is open, which `OpenList` reads,
or fails to read. `LoadVariant` and `LoadMirror` are the two branches of
`maybe_failover_player`; each load may be sent, fail, or not even start mpv.
The window manager is a queue of requests it may grant or ignore, in its own
time, and `notified` the notification that comes back.

A position is unknown, early or at the end of the item, because `SnapshotValid`
and `Completed` tell nothing else apart. Left out: where mpv is asked to resume
(it may report any position), seek keys, volume, timeline, the layout of the video window.

### Pairing

Four parties. The service is `expires`, `payload` and `alarm` per session; its
requests are steps, except that a submission's checks (`SubmitChecked`) and the
storing of its body (`SubmitStore`) are two, because a durable object serves
others while it waits for a body. A page may send again after an error. The
relay thread polls, decrypts, hands over data (`RelayHand`) and flag
(`RelayFlag`) separately, deletes the session and exits. The interface thread
goes through the parts of one loop turn: it reads the flag, copies, stops and
joins the relay, erases the session, takes over. Every request may be lost on
its way or on its way back, and a session may expire at any time.
`SessionIsTimed`, `RelayCanEnd` and `HandedIsKept` say, as safety, what the three
liveness properties rest on.

Left out: the cryptography (a submission is readable or not; keys are fresh per
session), the limits on the rate of requests, the Tizen client.

### Login, CatalogStore, Xtream, M3UCatalog

`at` and `stage` say where `login_worker` and `login_one_server` stand: three
requests a server must answer, four it may fail, then the same for the alternate
server, then, by consent and after a 404, for the two servers the resolver found
to accept the account. `fetched` is what the worker holds, with every item
carrying the account it is filed under and the server it comes from;
`Accepted` is the remapping of an alternate's answer to the primary's account.
`Store` begins the transaction of `CatalogStore`, whose statements, failures,
rollback and commit are steps of their own, with other threads' single-row
writes waiting for the mutex. `Publish` swaps the catalogs whatever came of
storing, as the code does. `Restart` is the process ending at any moment:
`disk` survives, `open` and everything else do not.

A row of `CatalogStore` is named by the write that made it, and `told` is what
its last writer was told, so that `AtomicStore` can say that nobody is told a
lie. A version of a catalog is the login that fetched it; `Torn` is a list of
which some rows are missing.

`Xtream` and `M3UCatalog` hold no state. Each list has its own rule for the rows
it passes over (`Groups`, `Channels`, `Films`, `Shows`): a series may have a title
for a name, a channel may have an empty number, and an empty number among films
or series fails the whole list (`Prefixable`). Identifiers are prefixed by kind,
and a row may name its address outright (`direct`), perhaps on another server.
A playlist is read line by line (`Reading`, a recursive function of the number of
lines read) and then split (`Copying`). The identifier of a repeated stream is
made of three texts in a buffer of 1024 bytes: `Cut` says what remains of those
that do not fit. Words stand for themselves; a hash is taken to be injective.

Left out: HTTP, JSON and character decoding, metadata and series info, the
resolver's identity file, artwork cards of a playlist, accounts that
`vip_credentials_init` refuses, failures of allocation.

## 3. Runs

| Run | Instance | Distinct states | Shows |
|---|---|---|---|
| `scheduler` | 3 cards, 2 workers, priorities {1, 5, 6}, limit 2, 3 accepted requests | 52,900 | `OneWorkerPerKey`, `NoLostJob`, `SafeShutdown`, `BackgroundBounded`, `DispatchOrder`, `EveryJobServed`, `DestroyTerminates`, refinement `JobsSpec` |
| `heap` | 3 priorities, 6 pushes | 31,692 | `HeapSound`, `PopsFirst` |
| `capture` | a card with artwork, one with a title, one with neither; remote capture allowed; 2 workers, 1 slot, 1 crash, interactive requests; symmetric in workers | 1,012,663 | `SlotsExact`, `CoversSound`, `RetryOnlyAfterBackoff` |
| `capture_live` | a series whose title the search knows, a remote card whose title it does not; remote capture allowed; 2 workers, 1 slot, 1 crash, interactive requests | 81,352 | `EveryCardCovered` |
| `frame_fallback` | a titled remote card, remote capture allowed | - | violation, section 5 |
| `player` | 2 loads, 2 stops, 1 death of mpv or refused command, 1 pause or buffering change | 190,684 | `RunningIffActive`, `AgreesWhenQuiet`, `NoPhantomLoad`, `OldEndsIgnored`, `EveryCallReturns` |
| `player_leak` | 2 loads, 1 death or refused command | - | violation, section 5 |
| `player_pause` | 2 loads, 1 pause | - | violation, section 5 |
| `interface` | 1 playlist, 2 Xtream servers (symmetric), 2 rows, live channels and series | 1,842,283 | `IndicesAgree`, `EpisodesOfParent`, `DetailsOfShown` |
| `playback` | 1 live channel, 2 episodes (symmetric), 1 variant, a mirror or none, 2 full-screen requests, 2 of them unanswered | 1,783,662 | `EndIsRecorded`, `WatchedExact`, `EachSourceOnce`, `FullscreenAgrees` |
| `pairing` | 2 sessions, 2 submissions of which 1 readable, 2 identifiers tried | 189,027 | `TakenIsWhole`, `NoSecondAcceptance`, `PayloadErased`, `PairingEnds`, `HandedIsTaken` |
| `login` | 2 logins, a primary, an alternate and two resolved servers, or any playlist of up to 3 lines and one of 8, with a repeated address that is cut off; rows without name, of another type, with an address of their own or an empty number; 1 single-row write | 763,940 | `CatalogsAgree`, `ConsentFirst`, `PlaylistExact`, refinement `StoreIsAtomic` |

Each module's `TypeOK` is checked beside these, except where a stronger
statement or a theorem covers it.

Bounds. `MaxGeneration` bounds the accepted requests of a behaviour, and
`MaxLoads`, `MaxStops`, `MaxCrashes`, `MaxFailures`, `MaxChanges`, `MaxSessions`, `MaxVersion`,
`MaxWrites` and `MaxQueue` the calls of their kind; they are guards of the
actions that count. Three requests on three cards allow a card to be promoted while
another waits, a limit reached by stale nodes only, a request for a card that
is just being captured, and a cancellation in the middle; six pushes reach the third level of the heap with
ties. Two workers are enough for two of them to meet on one card, since all the
checked properties speak of pairs. Two loads are enough for an item replaced
before, while and after it started, and two stops for one that finds the
snapshot wrong; the run also passes with three loads (1,218,739 states, two
minutes). `EverCalm` is FALSE in `capture`:
`calm` only takes steps away, so safety without it is the stronger claim.
The playlist beside the two servers lets a login cross from one kind of
provider to the other with a worker of the old one still running; the third
catalog ("vod") behaves as "live" for lists and as "series" for details. Two
sessions let a late submission, deletion or flag of the first meet the second.
Two logins let a catalog be replaced that is there, one write lets a row be
lost. One variant and the mirror are both kinds of alternative; the bound of
requests is 2 in the run and 4 in the code, and only its being reached matters.

The action property of `capture` is checked under symmetry: it treats cards and
workers alike, and TLC examines every step from each representative state. So
are `EndIsRecorded` and the invariants of `interface` and `playback`. No
temporal property with fairness is checked under symmetry.

`CHECK_DEADLOCK FALSE` is said where the system really may stop: once every card
has its cover and no crash is left (`capture`, `capture_live`), and when the
user does nothing or the player is destroyed (`player` and its violations). The
scheduler, the interface and the pairing end in an explicit step (`Done`,
`Gone`, `Closed`), the others always have a step.

Fairness. Every thread that can run does (`WorkerStep`, `CallStep`,
`CallerStep`): the kernel schedules them, no critical section blocks inside, and
captures end because curl and FFmpeg are given deadlines. Joins return once the
thread is gone (`Free`, `Join`, `Reopen`). The main loop redraws at least ten
times a second and goes through all visible cards each time, hence strong
fairness of an interactive `Look` and of `DrawBroken` for every card; a waiting card
is started in its turn (strong fairness of `Start` for every card), because
the scheduler takes the request that comes first (`DispatchOrder`) and a card
that failed comes back behind the others, after its backoff. Time passes (`Age`).
The monitor polls with a timeout of 50 ms, so it notices the end of mpv and the request to stop (`CloseRuntime`,
`ExitMonitor`). Nothing is assumed of the user, of crashes, of spurious
wake-ups, or of mpv, which need not connect, load, end or die.
`EveryJobServed` is conditional: it says that a waiting card is served or
cancelled if from some time on the scheduler is neither paused nor closed, and
the bound on requests keeps others from outranking it for ever, which the real
program's ordinary use does not promise.

In `Pairing` the interface thread keeps turning (`UiWork`; the queue of events
drains again and again, hence strong fairness of `TakeFlag`, which user events
otherwise delay), the relay thread runs (curl gives each request five seconds),
and time passes (`DeadlinePasses`, `Expire`, `Alarm`; the service runs the alarms
it was given). Nothing is assumed of users, pages, and deliveries.
`Interface`, `PlayerBridge` and `Login` state no liveness: their workers end
because requests have deadlines, which nothing in these modules could break.

## 4. Proofs

Every invariant and every action property that a run checks is a theorem of its
module's specification for all values of the constants; so are the two
refinements, as far as they are safety. The theorems assume the
named `ASSUME`s of the modules and nothing else. These say that bounds are
natural numbers, that a set of cards, forms or submissions is of the right kind,
and that the value standing for "nothing" is none of the real ones; the lists of
a playlist, the answers of servers and the numbers of cards, workers, profiles,
rows, episodes, variants, loads and sessions are arbitrary (a series is finite,
because its episodes are counted).

Few of the properties are inductive. Each module of proofs states what has to be
added, as conjunctions of named parts, proves that every action keeps them (one
step per action, and under it one per part the action can disturb), and ends in
a temporal step. The strengthened invariants were model-checked on the instances
of section 3 before they were proved. Three of the models were restated for it,
with the same meaning: `MpvPlayer!Count` counts positions instead of
folding, `Xtream!Resolution` takes smallest positions instead of searching, and
`M3UCatalog` reads and splits a playlist by recursive functions instead of folds.

| Module | Theorems | The inductive invariant |
|---|---|---|
| `ThumbnailSchedulerProofs` | `OneWorkerPerKey`, `NoLostJob`, `SafeShutdown`, `BackgroundBounded`, `DispatchOrder`, `ImplementsJobs`; `FreshGenerations`, `NoLostWakeup`, `CancelClears` | `IInv` |
| `ThumbnailHeapProofs` | `HeapSound`, `PopsFirst` | `HeapSound`, `Standing`, `Distinct` |
| `ThumbnailCaptureProofs` | `TypeOK`, `SlotsExact`, `CoversSound`, `RetryOnlyAfterBackoff`; `CoverKept` | `TypeInv`, `CallInv`, `Exclusive`, `SlotsInv`, `ReadyInv`, `CoverInv`, `LatelyInv` |
| `MpvPlayerProofs` | `TypeOK`, `RunningIffActive`, `NoPhantomLoad`, `AgreesWhenQuiet`, `OldEndsIgnored` | `TypeInv`, `RuntimeInv`, `ReliableInv`, `PlayInv` (`OngoingInv`, `CountInv`, `StoppedInv`) |
| `InterfaceProofs` | `TypeOK`, `IndicesAgree`, `EpisodesOfParent`, `DetailsOfShown` | `ProfileInv` (`PlaylistBehindScreen`, `FormIsCatalog`, `SeriesFromCatalog`, ...), with `IndicesInv`, `EpisodesInv`, `DetailsInv` |
| `PlayerBridgeProofs` | `TypeOK`, `WatchedExact`, `EndIsRecorded`, `EachSourceOnce`, `FullscreenAgrees` | `ProgressInv`, `SourcesTried`, `FullscreenKnown` |
| `PairingProofs` | `TakenIsWhole`, `NoSecondAcceptance`; `SessionIsTimed`, `RelayCanEnd`, `HandedIsKept` | `ServiceInv`, with `HandOver`, `Acknowledged`, `Timed` |
| `LoginProofs` | `TypeOK`, `StoreIsAtomic`, `CatalogsAgree`, `ConsentFirst`, `PlaylistExact` | `JobInv`, with `StoreInv`, `FetchedInv`, `CatalogsInv`, `ConsentInv`; `WellRead` of a playlist |

(A theorem is named after its property: `SlotsExactAlways` states `SlotsExact`;
`TypeCorrect` states `TypeOK`. Those after a semicolon are checked by no run of
their own: they are lemmas about safety that deserve a name.)

*Scheduler.* `JobHeld` says that a busy worker holds a request and only a busy
one does; without it "the entry is generating exactly while a worker captures
it" cannot be carried through `Remove`. `FreshGenerations` makes the node that
`Take` picks unique: two nodes of one generation could both pass for the current
one. `NoLostJob` is needed by `CancelClears` (entries are reached through
nodes), by `NoLostWakeup` (a worker goes to sleep only if no node is live, hence
only if no card waits) and by `DispatchOrder`. `StoppingWhenClosing` relates the
owner's phase to the flag that workers read. `BackgroundBounded` is inductive
beside the types, with the cardinality lemmas of the library.

*Heap.* That the array is in order but for the place where a loop stands is
nearly inductive; `Standing` says where loops may stand and `Distinct` that no two
items are equal. That the root ranks first is the one argument over the depth of
the tree: among the places that the root does not outrank there is a first one
(`FirstPlace`, from the well-foundedness of the naturals), and its parent is
before it.

*Covers.* `SlotsExact` needs that a call holds a slot exactly while it may
capture a frame (`CallInv`) and then counts the holders. `CoversSound` needs
what each place of a call knows of the file it publishes: which name it hands
out (`ReadyInv`) and that the file is there and whole (`CoverInv`); that a worker does not
pull the file from under another is `Exclusive`, the promise of the scheduler.
`RetryOnlyAfterBackoff` is the hardest of them: a card that failed lately and
could record it has its marker and no cover, and no call is beyond the tests of either (`LatelyInv`),
which has to be shown of every stage, of crashes, and of the drawing thread's
removals. The same invariant knows that a card has no cover of its own while a
call works with what the resolver found, so that the `unlink` before the rename
has nothing to remove (`CoverKept`).

*Adapter.* `RuntimeInv` is what holds whatever happens: which thread is where
with which flags. `ReliableInv` holds while mpv lives and takes its commands:
what is counted is on its way. `OngoingInv` holds then, too, if the last request
was a load: the last
load on the way is the one requested last, what is still to be read after the
last `start-file` is the fate of that item, that it plays on (`Lasting`) or its
end (`Over`), and once nothing that was loaded is on its way any more
(`Outstanding = 0`) the snapshot shows what was told of it (`Told`). It does not
mention the counter, and so outlives the stops that reset it. Until the first
stop the counter is exact (`CountInv`), whence an `end-file` that is believed is
the requested item's own (`OldEndsIgnored`). After the first stop mpv has a `stop`
behind every load in its queue, or nothing to play (`StoppedInv`). With nothing
left to read the two say that the snapshot is right (`AgreesWhenQuiet`). Counting
is proved in lemmas on `Append` and `Tail` (`CountAppend`, `CountTail`).

*Interface.* `ProfileInv` says of which catalog form, workers and view are while
nothing is tainted. That a publication already loaded is not yet taken over
(`login.at = "ok"`) is why `Settled` has to look ahead: what the publication
leaves must be right at the moment that ends the taint. `IndicesAgree` needs it
of tainted behaviours as well: a login behind another screen is one into a
playlist (`PlaylistBehindScreen`, as phones submit nothing else) and tainted
(`BehindIsTainted`), a series worker that outlives a publication finds no episode
on the screen (`SeriesBehindLogin`), and without taint the lists that a series
worker swaps are not the ones shown (`SeriesFromCatalog`).

*Player screen.* The cached flags know nothing that is not recorded, and all of
the list that is open if they were read in full (`FlagsAreDone`); an item that
is saved is one of that list (`ItemOfList`). A source was opened at most once,
and not beyond the counter and the flag (`SourcesTried`). The flag of the window
is right or the request that ends full screen is the last in the queue
(`Ending`).

*Pairing.* The inbox has no lock around its flag and its datum. It is sound by
the order of a turn, which `HandOver` states: a submission can only come from a
session whose code was drawn, a code is drawn at the end of a turn, and a turn
begins with taking what an earlier relay left. A session that acknowledged
a submission is full or not live (`Acknowledged`). Of what liveness rests on,
`SessionIsTimed` is what lets a payload be erased that nobody asks for,
`RelayCanEnd` what lets the interface's join return, and `HandedIsKept` follows
the submission from the inbox to the form, step by step, across the end of its
relay, the cancelling of its pairing and the beginning of the next.

*Login.* `StoreIsAtomic` maps every statement of a replacement to a stutter but
the commit: while a transaction is open its copy differs from the disk in one
catalog only (`StoreInv`). `FetchedInv` says under which account and server what was
fetched is filed, at each place of the worker, and `ServerTried` which server a
stage tries; `CatalogsAgree` follows from them when `Publish` happens.
`ConsentInv` records who may have been asked at each stage.
`PlaylistExact` is about what recursive functions compute, for playlists of any
length. `WellRead` says of the state after `n` lines which streams it holds, in
which order and under which tags, groups and base addresses, and that its
identifiers differ, except those that were cut off. Every line keeps it (one
lemma per kind of line), and since no induction theorem can be used, that it holds after all of them is shown by
the first line at which it would fail (`NoFirstFailure`, from the naturals'
well-foundedness). The lists are split in the same way (`SplitFrom` names the
place each entry was copied from), and that their lengths add up to the number of
streams is shown by a bijection.

Only model-checked is liveness: `EveryJobServed`, `DestroyTerminates`,
`EveryCardCovered`, `EveryCallReturns`, `PayloadErased`, `PairingEnds`,
`HandedIsTaken`, and the fairness of `JobsSpec` (its safety is
`ImplementsJobs`). They rest on fairness, hence on ENABLED, which TLAPS does not
handle. What is behind some of them is proved as safety: `NoLostWakeup` for the
scheduler, `CoverKept` for the covers, `SessionIsTimed`, `RelayCanEnd` and
`HandedIsKept` for the pairing.

## 5. What the checks found

Three statements of the repository are refuted by a run:

* `FrameIsAFallback` (run `frame_fallback`). A failed artwork lookup sets the
  failure marker of the card's own name (`thumbnail_policy.c:616`), and the frame
  capture that should follow finds that marker (`thumbnails.c:1234`) and returns.
  Cards with a title never get a frame, although `docs/ARCHITECTURE.md:56` calls
  frame capture a fallback.
* `PendingCounted` (run `player_leak`). When mpv dies while a load is counted,
  the counter is not reset with the runtime. Until the next stop, ends and
  errors of later items are ignored, so failover and the saving of a natural
  end do not happen.
* `PauseAgrees` (run `player_pause`). A load clears `paused` in the snapshot
  only. An item loaded while mpv is paused stays paused while the interface
  shows that it plays; the first press of the pause key then does nothing
  visible.

The following was met while modelling. The models follow the code in each, and
where a property has to step around it, the premise is named.

* A stop between two loads. The comment at `player_mpv.c:53-55` says that the end
  of a replaced item must not overwrite the state of the new one. `stop` sets the
  counter to zero (`player_mpv.c:1472`) while a `start-file` is on its way; that
  one is then taken for the new load's, and the old `end-file` is believed: drop
  `stops = 0` from `OldEndsIgnored`, and TLC shows load, stop, load. The next
  `start-file` repairs the snapshot, but a stop that comes before it finds
  `media_running` false and sends no command, so that mpv plays on behind the
  interface's back. This bounds `AgreesWhenQuiet`.
* Form and catalogs of different profiles (`tainted` in `Interface`). The form
  can be edited while a login runs, and a phone's submission is taken over
  outside the login screen too. When the login ends, `save_active_profile`
  saves the form under the account that logged in, and series and details are
  requested with the form's server and password. Ctrl+L, unlike Back, leaves
  the workers running and, like Back, keeps the details that are shown. A
  submission handed over at the moment its pairing is cancelled still logs in
  (`HandedIsTaken` states it as it is).
* Stale indices. A login that a phone's submission started behind the browse or
  the player screen (`x11_workers.c:1221`) swaps the lists (`:272`) one turn
  before `handle_login_async` rebuilds what was computed from the old ones. A
  handler that runs in between, such as the save of progress with
  `ACTIVE_CHANNELS[current_channel]` (`x11_player_bridge.c:73`), uses an index into
  one list on another, perhaps shorter, list; drop the premise of `IndicesAgree`
  and TLC shows it. While form and catalogs differ, a series worker may swap
  episodes behind the player in the same way.
* Markers. `failure_marker_set` (`thumbnails.c:1158-1166`) and
  `policy_failure_marker_set` (`thumbnail_policy.c:521-533`) ignore a failed
  `fopen`. With a full disk or a directory that cannot be written, a failed card
  is attempted again at the next redraw instead of 30 s later;
  `RetryOnlyAfterBackoff` is about failures that left their marker.
* Cards without a cover. A card whose title no source knows, or whose address
  yields no image, never gets one, and one that only has a stream may lose every
  frame slot to such cards; `EveryCardCovered` is about the others.
* Refused commands. A `loadfile` that mpv does not take within 250 ms
  (`player_mpv.c:300-305`) leaves mpv with the item before while the interface
  thinks of the next one. `AgreesWhenQuiet`, `NoPhantomLoad` and `OldEndsIgnored`
  hold while mpv neither dies nor refuses a command.
* Accounts. What an alternate server answers is remapped to the primary's
  account (`remap_catalog_provider_id`), but not what the resolver's alternate
  answers, so that `active_profile_id` is then the alternate's while the form
  that is saved names the resolved primary (`CatalogsAgree` asks for the account
  of the primary only where nothing was resolved), and not the episodes that
  the series worker fetches from an alternate: their progress is stored under
  another account than the rest of the series, which
  `docs/ARCHITECTURE.md:32` and `:146` do not suggest. The resolver itself tries
  name and password on each of its candidates (`server_resolver.c:584-629`), under
  the consent that `ConsentFirst` is about.
* Failover. `maybe_failover_player` fetches the list of variants
  (`vip_m3u_fallback_variant`) on the interface thread, in every turn of the loop
  while the error lasts once the variants are used up, and creating and
  deleting a pairing are synchronous requests there too;
  `docs/DEVELOPMENT.md:32` rules blocking network operations in the event loop
  out. If mpv cannot be started, each turn uses up a variant at once. A series
  item whose aggregate row is refused after its natural end is not counted again
  (`exact` in `PlayerBridge`).
* Progress. Positions that arrive late, or are zero before the seek to the
  resume point has happened, can be saved for the new item. An end that arrives
  between the save of `leave_player` and its stop (`x11_player_bridge.c:363-365`) is
  lost. After a stop or a refused command, the end of the item before may be
  believed and recorded as that of the one that was asked for. `EndIsRecorded`
  says that an end the snapshot shows on leaving is recorded.
* Full screen. Two presses of F11 before the window manager has answered the
  first make the program remember full-screen geometry as the window's own;
  `FullscreenAgrees` is about the flag only.
* Pairing. The relay makes no last poll when its time is over, so that a
  submission acknowledged with 204 may be delivered to nobody. Two submissions
  that pass the checks together are both acknowledged. A page whose 204 was
  lost gets 409 when it retries. A body that arrives after its session was
  erased is stored without an alarm, for good (`PayloadErased` excludes it).
  `docs/DATA_AND_PRIVACY.md:67` says five minutes; sessions live 45 seconds, and
  erasure by delivery or by the alarm is what the document promises.
* Playlists. An identifier that is taken is made unique with the position, so
  that favourites and progress of such channels are lost when lines move. The
  text it is made of is cut at 1023 bytes (`m3u.c:792-794`) and not looked up
  again: two repetitions of a stream whose identity and address are that long
  together share one identifier. `PlaylistExact` asks for distinct ones except
  among those that were cut off.
  Grouping by displayed name can hide the episodes of a series that shares its
  name with a plain row; seasons are capped at 256.
* Database. If the database were not in WAL mode (the answer to the PRAGMA is not
  looked at), a COMMIT that is refused would leave its transaction open. With
  `synchronous=NORMAL` (`database.c:51`) what was committed survives the end of the
  process, which `StoreIsAtomic` is about, but not always a loss of power.
  `login_worker` ignores the outcome of storing and stores the live catalog
  only; nothing reads it back (`vip_database_load_channels` has no caller in the
  interface), and nothing calls `vip_database_touch_profile`.

## 6. Not modelled, and the plan

Modelled so far: the thumbnail subsystem, the core of the mpv adapter, the
interface thread with its workers, the player screen, pairing, and a login from
the form to the database. Hazards without a property are three in the adapter,
each with its reason in `PROJECT.json`: a handle that is overwritten (only a
thread's resources), a descriptor used after its close (numbers are not
modelled) and a resume position that the wrong item consumes.

What is left:

1. Safety below liveness for the adapter: that a waiting caller has a monitor
   that will answer, as an invariant beside `EveryCallReturns`.
2. `EveryCallReturns`, `PairingEnds` and the like as proofs, once ENABLED is
   within reach of the proof system.

Not planned: rendering and the SDL2 layer, the keyring and `core` (no behaviour
between steps that a model would show), the text of JSON, URLs and playlists
(pure, long, well tested), cryptography, the FFmpeg decoder (one thread, one
child, a deadline; `ThumbnailCapture` sees that it succeeds or fails), the Pluto
application and the hub (one thread over the same scheduler and adapter), the
healing worker (stateless), the Tizen application (a separate program).
