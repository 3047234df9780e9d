# A TLA+ model of CCMeeting

CCMeeting is a desktop meeting program: a Qt client, a message server (C++,
asio/beast, one WebSocket per client) that keeps meetings and forwards text,
member and settings messages, and a data server (HTTP, SQLite) for accounts,
profiles and avatars. Audio and video go through a WebRTC engine (`xrtc`) that
is not part of the repository.

This directory holds TLA+ modules for the parts whose correctness depends on
the order of things, TLC configurations that check them on small instances, and
proofs, checked by TLAPS, of what holds for servers of every size.
`PROJECT.json` maps every definition to the lines it models, lists the runs, the
mutants that show each property can fail, the theorems and the hazards.

    tlc -workers 2 -config MCMeetingServer.cfg MCMeetingServer.tla
    tlapm MeetingServerProofs.tla

## 1. The system

### 1.1 Message server (`src/message_server`)

| Part | State | Operations |
|---|---|---|
| `Server`, `Connection` (network) | connection state, `_write_queue`, the closed flag and the close handler | accept, handshake, read loop, `send`, `do_write`, `close` (runs the close handler before it returns) |
| `MeetingService` (service) | `_connection_room` | `on_new_connection`, `on_connection_close`, dispatch of packets by "is it in a room", create, join, `cleanup_room` |
| `RoomManager` (meeting) | `_rooms`, `_next_room_id`, the limits | `can_create`, `create_room` (32 random draws, then counting), `join_room`, `remove_room` |
| `Room` (meeting) | `_participants` (with id, name, avatar, owner), `_settings`, `_options`, `_expire_timer`, `_closed` | add and remove participants, `close_room`, `handle_packet` (text, camera, profile, settings), broadcast |
| `Buffer`, `FrameCodec`, `codec` (protocol) | receive buffer | JSON text frames, base64 payloads, type names |

One asio loop on one thread: a completion handler is atomic, but it is
re-entrant. `close_room` calls `close()` on every participant, whose close
handler calls back into `MeetingService` and `Room`. `cancel()` does not
withdraw an expiry handler that is already queued, so it may run for a room
that has been closed and whose number belongs to another one.
*Correct* means: connections, `_connection_room`, the room table and
the participants agree between any two handlers; limits hold; a room ends for all
of its members and for nobody else; every room ends.

### 1.2 Client (`src/client`)

| Part | Thread | State | Operations |
|---|---|---|---|
| `MeetingWidget` (window) | UI | `_sessionActive`, `_sessionEnding`, `_connecting`, `_hasPendingConnect`, `_createmeet`, `_joinmeet`, member tiles, profiles | open, connect, create/join answers, partner and profile messages, close, 800 ms fallback |
| `MeetingController`, `NetworkManager` | controller, UI | pending action | `connect_to_server`, `disconnect`, create, join |
| `Connection` | IO | `m_socket` | connect (5 s nested loop), disconnect, `sendWireData` |
| `MessageHub`, `PriorityMessageQueue` | send worker, joiner | `send_epoch_`, `send_running_`, `send_thread_`, `pending_joiner_`, two buckets | start, stop, stop asynchronously, join, enqueue, `send_loop` |
| `messagecodec` | IO | `WireStreamParser` buffer | JSON frames to messages and back |
| `RoomSettingsController`, `MeetingRecorder`, `RecordingLibrary` | UI | flags, the take and its pipeline, files | permission, start, stop, finalize, metadata |
| `MeetingMediaController`, `MeetingRtcObserver` | UI, engine threads | tracks, `_joined`, preview and remote frames | start, stop, camera, microphone, screen, queued engine callbacks |
| `Storage`, `ClientConfig`, `LoginStore`, `UserSession` | any | SQLite with a registry fallback | open, migrate, get, set, credentials |
| `MeetingHistory` | UI | meeting records | append, finish the open one, trim, import the old JSON file |
| login, `EditProfileDialog`, profile page and card | UI | `UserSession`, `LoginStore`, the request under way, pictures being loaded | log in (also by itself), register, edit, upload, cancel |
| `RecordingLibrary`, recordings page | UI | videos, `.json` sidecars, the `recordings` table | write metadata, scan, refresh, remove |
| settings page | UI, thread pool | camera and format lists, `preview_generation_`, timers, `camera_`, saved preferences | open and stop the preview, microphone test, save, reset |
| `ParticipantsController`, `CameraVideo`, `AvatarImageLoader` | UI | members, avatar addresses, last frames, a count of loads, main picture | show a frame, an avatar or nothing; select; close |
| text chat, other windows and widgets | UI | | layout and painting |

The UI, controller, IO, send and joiner threads reach each other through queued
calls, two atomics and two locks. What is posted in one session may be handled
in a later one. *Correct* means: the window's idea of its session matches the
socket and the send worker; packets leave on the connection they were made for
and in order; an ending ends; the members, profiles and switches a client shows
become those of the room, and its pictures those of the members now; devices are
used only when wanted; what is stored on disk is right whenever the program stops.

### 1.3 Data server (`src/data_server`)

`HttpSession` (one request per connection), `StaticFile`, `AuthService` (login,
register, profile, avatar upload), `UserRepository` and `SqliteClient` (users,
credentials, login log). One io_context on one thread. Hard to test: a failure
or crash between the avatar file and the users row, or between the rows of a new
account; answers that are lost after the change was made. *Correct* means: no
account is half there, and every request is answered or lost.

### 1.4 How they interact

Client and message server exchange JSON frames over one ordered WebSocket per
client: `CreateMeeting`, `JoinMeeting`, their responses, `PartnerJoin`,
`PartnerJoin2` (a snapshot), `PartnerExit`, `RoomSettings`/`RoomSettingsNotify`,
`UserProfile`, `TextSend`/`TextRecv`, `CloseCamera`. A connection in no room may
create or join; in a room it is served by the room; leaving is closing. Client
and data server exchange single HTTP requests. The message server does not know
the data server: a client states its account and profile itself.

## 2. Modules

| Module | Models | Grain |
|---|---|---|
| `MeetingRegistry` | what the server promises: meetings, hosts, members | abstract specification |
| `MeetingServer` | accept, handshake, create, join, leave, owner leave, expiry, close | one step per asio handler |
| `RoomTeardown` | the re-entrant chain close, `on_connection_close`, `remove_participant`, `close_room`, `cleanup_room` | one step per call, with the call stack |
| `MeetingRelay` | `MeetingServer`'s handlers with the participant data and the frames they write | one step per handler, one per frame written |
| `MeetingView` | clients around `MeetingRelay`: packets sent, frames handled, member list, names, switches | one step per packet and frame |
| `ClientSession` | window, controller, IO thread, from session to session | one step per queued call or event |
| `SendWorker` | `MessageHub`'s threads and queue | one step per lock or atomic |
| `Recorder` | permission, takes, backend signals, 300 ms timers | one step per slot or signal |
| `Recordings` | the library, its table and its page around `Recorder`, with restarts | one step per refresh, deletion or change |
| `MediaSession` | window, media controller, observer and engine threads, from meeting to meeting | one step per callback, queued call, lock or post |
| `MeetingScreen` | tiles and main picture: `ParticipantsController`, `CameraVideo`, `AvatarImageLoader` | one step per slot |
| `LocalStore` | meeting history and stored account, from start to start, with crashes | one step per statement or file operation |
| `Accounts` | data server (HTTP, service, database, files), login, profile dialog, user session and pictures | one step per statement on the server, per slot on the client |
| `SettingsPage` | the settings page with its preview | one step per slot, timer, job or posted event |
| `ReceiveBuffer`, `WireCodec` | the server's `Buffer`; both sides' codecs | operators |
| `WireChannel` | one client's requests through both, to the server, back and to a guest | one step per message, read or frame handled |
| `MeetingServerProofs` | the theorems about `MeetingServer` | |
| `MeetingRoomsProofs` | the theorems about `MeetingView`, and that `RoomTeardown` implements `MeetingServer` | |
| `ClientDiskProofs` | the theorems about `LocalStore`, `Recorder` and `Recordings` | |
| `ClientPagesProofs` | the theorems about `SettingsPage` and `MeetingScreen` | |
| `SendWorkerProofs`, `ClientSessionProofs`, `MediaSessionProofs`, `AccountsProofs` | the theorems about the module each is named for | |
| `MCMeetingServer`, `MCRoomTeardown`, `MCMeetingView`, `MCMediaSession`, `MCLocalStore`, `MCWireChannel`, `MCSettingsPage` | constants for TLC | |

`RoomTeardown` implements `MeetingServer`, which implements `MeetingRegistry`;
`MeetingRelay` extends `MeetingServer` and `MeetingView` composes it with the
clients. `Recordings` extends `Recorder`, and `WireChannel` composes
`ReceiveBuffer` and `WireCodec`. The others stand alone:
`ClientSession` takes the send worker as the session it was started for, and
`SendWorker` shows what that rests on.

### 2.1 Correspondence

*MeetingServer.* `conn` is the life of a `Connection`; `connRoom` is
`_connection_room`; `rooms` and `nextRoomId` are `RoomManager`'s table and
counter; `status`, `number`, `members`, `owner`, `cap` and `timer` are fields of
the `Room` objects. Objects and numbers are kept apart, because a number is used
again while an expiry handler still holds the old object. `timer` is `armed`
while the wait is pending and `queued` once asio has its handler; `cancel`
only undoes the former. `DrawRandomId` is a draw that hits a free number.
`FallBackToSequence` is the search after 32 draws that were all in use, and so
needs some number a draw can hit to be in use. `CloseInLobby`, `OwnerLeaves` and
`MemberLeaves` are `close()` of an open connection, for whatever reason, by what
it was at the time. A create or join that is refused changes none of these
variables; `MeetingRelay` has those as actions of their own.

*RoomTeardown.* `stack` is the call stack of the asio thread. The body of a
function up to its next call is a step, `close_loop` is the loop of `close_room`
over its copy of the participants, which is visited in hash order (any order).
While the stack is not empty no other handler runs.

*MeetingRelay and MeetingView.* `outbox` is `_write_queue` together with what is
on the wire: frames of one WebSocket keep their order, and the queue of a closed
connection is dropped. Accounts, profiles and switches are opaque values; a
profile is its version. The client's action for a frame takes it off the queue.
A client acts at most once on a frame, in order, since the hub's and the
window's queued slots keep the order. `asked` limits a client to one request a
connection, which is what the window does.

*ClientSession.* A session is the number of a connect request. `inbox`, `calls`
and `io` are the event queues of the three threads. An event that passes
through the hub or the network manager before it reaches the window has two
`hops`. A modal message box runs a nested event loop, so other events are
handled while it is open; behind it waits the close of the window. `quit` is
how far `shutdown_all_workers` is; from its first line on the UI thread handles
no event.

*SendWorker.* An operation of `MessageHub` is a program (`StopSync`,
`StopAsync`, `StartOp`) of steps, one for each atomic or critical section. A
worker is named by the session that starts it; it loops, pops, checks its epoch,
and retires or sends. `At`, `Advance` and `Goes` are the program counter.

*Recorder.* A take is a call of `start`. `pipeline` is the take that owns
`_recorder` and `_frameInput`; signals of a released recorder are cut off by its
`disconnect(this)`. The backend may answer a stop at once, later, or never.

*Recordings.* A video is known by its path, which holds the second its take
began in (`second`): two takes begun within one second share it. What a video
shows and what sidecar and row say of it are named by a take. The backend
creates the file of a take when it likes (`writing`). Each start finds the
database or does not (`dbOpen`); the page lists from the rows or from the
sidecars accordingly, and `TwoCopiesAgree` says that it makes no difference to
what it says of a video.

*MeetingScreen.* `notices`, `frames` and the avatar replies in `pics.loads` are
the three ways; only the first keeps an order. `pics` holds what the two classes
hold: members shown, avatar addresses, users with a last frame (`live`), the
count of loads (`gen`), main user, and what each widget shows. What the code does
for one user after the other (a snapshot's members, all members at the end of a
meeting) is done for a set of them at once: no widget is another's, and no
event is handled in between. `failed`, `mixed`
and `late` are history: loads for which the server had no picture, replies that
an equal count let in from an earlier stay, and frames handled after the notice
of their camera.

*Accounts.* `work` is the request in the server's hands and how far it is; a
crash between two of its statements undoes `tx`, the open transaction, and keeps
files. A file that could not be written to its end is in `short`: nobody looks,
so the row names it like any other, and no view can decode it. A login whose
read of the profile does not get to its row is answered with a blank one
(`BlankProfile`). `requests` are the client's own, one it has abandoned by closing the
window that sent it, and one of another client. `view` is any one of the views
that show the own avatar; `loads` are its pictures under way. `behind` (the parts
of the profile the session does not know as they are), `overtaken` and `unsaved`
are history.

*SettingsPage.* A job of the pool carries, instead of its generation, whether
that is still the present one. `posted` is the queue of the UI thread. Boxes of
camera errors nest.

*WireChannel.* Bytes where the code has bytes: length prefix, base64, big-endian
numbers; a JSON object is a record. Beside each frame the history (`intended`,
`meant`) says what it is to mean, without any codec. A read takes one whole
message into the buffer, as `connection.cpp:91-101` does, so that a frame never
arrives in pieces or two at once; what varies is where in the buffer it begins.

*MediaSession.* `inbox` is the event queue of the UI thread, in which the answer
of the message server and the engine's reports stand in the order they were
posted; `from` is the meeting whose engine posted a report, which the code does
not know. `stop()` takes two steps, since the engine's threads go on between
`reset()` and the destruction of the engine; that may itself report a closed
connection, as the comment in `stop_meeting_media` says. `local`, `on` and
`captured` are the window's, the controller's and the engine's idea of the local
tracks; that a start of one of camera and screen stops the other is what the
comments in `set_video_on` and `set_screen_on` say of the engine. `frames` is
the program counter of an engine thread in `on_remote_video_frame`. `boxes` are
the message boxes that wait, each with a nested event loop, before they end the
meeting; the user cannot act behind one.

*LocalStore.* `table`, `marked` and `creds` are the tables `meeting_history`,
`meta` and `credentials`; `oldCreds` and `registry` are the two places where
older versions kept the account; `json` and `backup` are the history's file and
the one it is renamed to. `stage` walks through a start: the two migrations, the
login, the import of the file, the main window. `Store` is what the history
works on, the table or the file, and `view` is what its page has loaded. When
`load()` cannot read the table (`astray`) that is the file, or a list that breaks
off; deletions go by position in the table all the same. Any
statement may fail (`botched`), the program may crash between any two, and the
next start may find the other store. Meetings are numbered in the order of their
start; the records are kept in the order of `started_at`, which is the same as
long as the clock is not set back. `remembered`, `gone`, `cut`, `loggedOut` and
`botched` are history variables.

## 3. Runs

| Run | Question | Bounds and why they suffice |
|---|---|---|
| `server` | Do the server's maps agree after every handler, in every order? Does an expiry ever hit another room? Does every meeting end, and is every handler a step of the registry? | 4 connections, 2 live rooms, 3 Room objects, so that a number is reused while the first expiry is queued; numbers 7 (drawn) and 1, 2 (counted); rooms of 2 and of 3, so that a room is full and another one stands beside it; option values below and above both clamps. No symmetry (liveness) |
| `teardown` | Is the re-entrant chain one atomic step, and does it end? | 4 connections, 2 objects: a room of three to dissolve beside another one |
| `view` | Do members, switches and profiles converge, with frames under way both ways? | 3 clients, 1 room, 1 user action besides creates, joins and closes, 2 profile versions; 5 frames per write queue (a newcomer gets up to 4 at once), 1 packet per uplink. Two members and a newcomer are where snapshots, replays and exits cross |
| `codec` | Is what the server knows of a client what the client has told it, and what clients read what the server has said, byte by byte? Does the buffer ever lose or refuse a frame? | 4 messages, a buffer of 16 bytes (shorter than most frames, so that it is compacted and grown at many positions), each message read whole; numbers of more than one byte, texts of every length modulo three, a member with no, one or both profile fields. Base64 and the numbers are also checked by themselves, as assumptions |
| `session` | Do window, socket and send worker belong together over three sessions? Does every ending, pending request and shutdown come to an end? | 3 sessions: one old, one ending, one new. A disconnect may take any time: `hurried` records that the 800 ms timer gave one up; the first three properties are about behaviours in which that has not happened (but for the state after a shutdown), the last about all |
| `send_worker` | Two workers at once, packets in the wrong session, reordering, an operation that hangs? Has an established session a worker, and does it drain the queue? | 2 sessions, 3 packets, buckets of 2 (so that one overflows). The UI thread stops the worker at any time; the last two questions are asked as long as no connect began before that stop (`hurried`) |
| `recordings` | Is a stopped take filed, once, and does nothing go on without permission? Does the table tell the truth about the videos there are, and do the page's two sources agree? | 2 takes (a timer of the first can fire during the second), 1 restart, 1 change of the folder |
| `media` | Do buttons, controller and engine agree on what is captured? Is a frame ever stuck, a picture left behind? Can a report of one meeting end the next? | 2 meetings (the old one's reports and the new one), 2 users, 4 events in the queue: a join result, a loss, an exit and a call for frames. `stale` records that a join result was handled after its engine was gone; `EndedByOwnMedia` is about the other behaviours |
| `screen` | Does every tile and the main picture show its member as it is now? Is a frame left frozen, a tile left empty? | the user and one other, 2 meetings (replies and notices of the first in the second), 2 avatars each, 2 notices under way, 2 actions |
| `local_store` | Is an import done once and a record kept until it is deleted or too old? Does a page that could read the store delete what it shows, a meeting close its own record, the account survive the migration and a logout last? | 4 starts (one that imports and crashes, two on either store, one more), 3 meetings of which 2 may come from an old file, a history of 2, so that trimming happens; 2 accounts, symmetric |
| `accounts` | Is an account ever half there? Is what the client shows as its profile the profile? Does every request end? | 1 account that the client and others use, 2 texts, 2 uploads, 2 pictures under way; any statement or file write may fail, the server crash and answers be lost at any step |
| `settings` | Are camera and microphone on only when wanted, and one preview at a time? Is what is being opened opened or given up? | 2 cameras with formats that overlap in one, 5 clicks, 2 nested boxes, 1 plugging: a preview can be opened, closed and opened again with a job, a cleanup and an event of each under way |

`CHECK_DEADLOCK` is off in all of them but `accounts`, because those systems may
stop: connections and Room objects are used once, sessions, packets, takes and
clicks are bounded, and a user need do nothing.

Every property has a mutant in `PROJECT.json`: a definition of the model with a
plausible slip of the code (`...OffByOne`, `...WithoutPartners`, `...Stale`),
under which TLC finds the property violated. The mutants' definitions stand
before the ones they replace, marked "Faulty".

### Fairness

* Server: `TimerExpires` and `ExpireRoom` are weakly fair, since time passes and
  asio runs queued handlers. Clients owe nothing.
* Teardown: calls in progress run on; the thread is never blocked in them.
* Client: the event loops of the UI, controller and IO threads are weakly fair,
  each as a whole because its queue decides what comes next; a box is dismissed.
  The user, the server, the network and the fallback timer owe nothing
  (`NothingWaitsForEver` holds although that timer is not fair: the disconnect
  alone ends an ending).
* Send worker: each thread is weakly fair.
* Recorder: only the 300 ms timer is fair. Nothing is promised of the backend.
* Accounts: the server's one thread goes on with the request in its hands and,
  being free, takes up the client's own in the end, however many others come,
  since `asio` serves ready connections in turn; a server that is down is started
  again; a picture is loaded or fails; the client's event loop runs. All of it is
  weak. That a lost connection is noticed is in the step that loses it: the code
  sets no timeout of its own.
* Settings page: the preview's timer, the pool's jobs and the posted events are
  weakly fair. The camera owes nothing.
* Meeting screen: avatar replies come, or fail.
* Wire channel and media session: none.
* Local store: none; what is on disk must be right whenever the program stops.

## 4. Theorems

Each module of proofs extends the modules it is about and holds for all values of
the constants under the assumptions named there. Every invariant below
was first checked by TLC on the constants of the module's run (`ClientInv` with
three sessions, `ScreenInv` with a third
action, `LibraryInv` with a second change of the folder); the state counts are those of
that check.

### 4.1 The message server

`MeetingServerProofs` proves, for any sets of connections, Room objects and
numbers and any limits, that `Spec` keeps the invariants the run `server` checks
(and two that the refinement implies), from the assumptions named in
`MeetingServer` (`NoRoom` is no room and no connection, numbers are positive,
connections and numbers are finitely many, limits are naturals with at least two
participants, as `std::clamp` needs it too, and options are naturals).

`MembershipAgrees` and the four parts of `RoomsAreWhole` (`TableListsLiveRooms`,
`NoGhosts`, `OwnerIsPresent`, `LiveRoomsHaveTimers`) are not inductive one by
one. That `cleanup_room`, which forgets connections by room *number*, forgets
just the members of the room needs the table to give each live room its own
number (`TableListsLiveRooms`) and members to be in live rooms only
(`NoGhosts`). That the table keeps listing live rooms after a removal needs the
number to be the closing room's own. So the inductive invariant is `Consistent`,
their conjunction with `TypeOK` and with "an unused Room object has no timer",
without which an expiry handler could run for a room that was never created. The
heart is the lemma `CloseRoomConsistent`: closing a live room, with any subset
of its members closed already, by its owner or by its timer, keeps `Consistent`.
Owner leave and expiry cite it; `CloseRoomEffect` before it shows who is closed
by it.

| Theorem | Says | Rests on |
|---|---|---|
| `ServerConsistent`, `ServerTypeOK`, `ServerMembershipAgrees`, `ServerRoomsAreWhole` | the invariants of the run `server` | `Consistent` is inductive |
| `ServerWithinLimits` | neither limit is exceeded | `Consistent /\ WithinLimits` is inductive. `LiveRoomsCount` gives a bijection from the entries of the table to the live rooms, so that `can_create`, which counts entries, bounds the rooms; every step but create and join shrinks both (`OtherStepsShrink`) |
| `ServerOneMeeting`, `ServerExpiry`, `ServerNoCollateralClose` | the action property of the run, and two the registry implies: a meeting is left only by closing, and closes come together only in a room that is dissolved | one lemma on a step from a `Consistent` state, with `CloseRoomEffect` |
| `ServerImplementsRegistry` | `Spec => ImplementsRegistry` | one lemma per handler: create is `StartMeeting`, join `EnterMeeting`, a member's close `LeaveMeeting`, owner's close and expiry `EndMeeting`, a close in the lobby `GoAway`; the rest stutter. It needs `Consistent` (who attends, who hosts) and `WithinLimits` (a join has room) |
| `TeardownIsAtomic` | `TeardownSpec => AtomicServer` | `TeardownInv` (294,800 states) is inductive |
| `ViewInvariant`, `ViewListsConverge`, `ViewStateConverges` | `MemberListsConverge`, `RoomStateConverges`, for clients of different accounts | `ViewInv` (1,178,299 states) is inductive |
| `ViewTypes` | types of the participants' data, the queues and the clients, whatever their accounts | `Basic`, inductive with `Consistent` |

*The teardown.* The re-entrant chain of callbacks is one step of
`MeetingServer`. `AtomicServer` looks at the state in which the chain began
(`before`) until the stack is empty again. `TeardownInv` is
`Consistent` of that state, which comes from `MeetingServerProofs` through the
instance `Whole`, and `Chain`: for each of the ten shapes the stack can have,
what has been done so far. `Apart(K, L)` says that just the connections in K
are closed and just those in L forgotten, and `Dissolving` what `close_room`
has done to the room. `Consistent` is needed all along the chain: that the
nested `remove_participant` of each member finds the room gone, and that
`cleanup_room` forgets nobody else, follow from the table and the membership of
the state the chain began in. Each call keeps `Chain` or, when it is the last
one, ends it with the effect of `CloseInLobby`, `MemberLeaves`, `OwnerLeaves` or
`ExpireRoom`.

*The clients' view* (`UsersArePositive`, `DefaultIsFlags`, `AccountsAreUsers`,
and `NoticesAreForwarded`: the types of the notices a room forwards are none of
its own frames'). The bounds on the queues have any value. A client's state and the
frames on their way to it only mean something together, so every part of
`ViewInv` speaks of what the client will have when it has read them:
`ListConverges` of the users it shows, `SwitchesConverge` of the switches,
unless an edit is still on its way up. `NoticesAreOfShown` says of each notice
that the frames before it show its user. `LobbyIsBlank` and `MemberIsKnown` say
what the two sides can have sent each other outside a room and in one; that a
packet carries its client's own account rests on the latter. A profile reaches a
member in one of two ways, the replay for a newcomer or the client's own repeat,
and `ProfileReaches` says which is still to come: `d` owes `c` its profile while
its own answer has not been read, while the `PartnerJoin` of `c` is still before
it, or while a profile is on its way up (`Owes`); else the last frame about `d`
on its way to `c` names the profile the server has, which `PresentProfileIsSent`
ties to the present one. The two queues are followed by general lemmas on a
sequence that gets an element at the end or loses its first (`AppendedLast`,
`TailLast`, `AppendedShown`, `TailShown`).

`ViewInvariant` and the two theorems on it have the hypothesis `AccountsDiffer`.
It is a restriction of the properties, not of the proofs: the clients tell
members apart by user id and the server by connection, and with one
account on two connections the exit of one takes both from the lists.

### 4.2 The client and the data server

| Theorem | Says | Rests on |
|---|---|---|
| `SendOneWorker` | `OneWorkerPerSession` | `HubInv` (408,053 states) is inductive |
| `SendStaysInSession`, `SendKeepsOrder` | `PacketsStayInSession`, `OrderIsKept` | `HubInv /\ PacketInv` is inductive |
| `ClientSocketFollows`, `ClientRequestsStay`, `ClientConnectsLate` | `SocketFollowsWindow`, `RequestsStayInSession`, `ConnectAfterTimelyDisconnect` | `ClientInv` (1,389,406 states) is inductive |
| `MediaButtons`, `MediaPictures`, `MediaEnds` | `ButtonsTellTheTruth`, `PicturesAreLive`, `EndedByOwnMedia` | `MediaInv` (4,358,261 states) is inductive |
| `SettingsHardware`, `SettingsOneUser` | `HardwareIsWanted`, `OneUserPerCamera` | `PreviewInv` (1,922,576 states) is inductive |
| `ScreenInvariant`, `ScreenStaysCurrent`, `ScreenDoesNotFreeze` | `ScreenIsCurrent`, `NoFrozenPicture` | `ScreenInv` (9,734,770 states): `PicturesInv` and `NewsInv` are each inductive with the types |
| `StoreInvariant`, `StoreKeepsAccount`, `StoreHistoryIsWhole`, `StoreClosesOwnRecord` | `AccountIsKept`, `HistoryIsWhole`, `ClosesItsOwnRecord` | `StoreInv` (6,379,327 states) is inductive |
| `RecorderTypeOK`, `RecorderFiledOnce`, `RecorderRevokedStops` | no take is filed twice, nothing is recorded without permission, of one start of the program | `FilingInv`: later takes are unfiled, and the present one is unfiled while it is not finalized |
| `RecordingsFiledOnce`, `RecordingsRevokedStops`, `RecordingsMetadata`, `RecordingsCopiesAgree` | `FiledOnce` and `RevokedStops` across restarts, `MetadataIsTrue`, `TwoCopiesAgree` | `LibraryInv` (2,642,989 states) is inductive |
| `AccountsWhole` | `AccountsAreWhole` | `AccountsInv` (1,431,813 states) is inductive |
| `OwnProfile` | `OwnProfileIsShown` | `ProfileInv` and `PictureInv` (both on the same states) are inductive with `AccountsInv` |

*The send worker* (`KindsAreKnown`, `BoundsAreNaturals`). That at most one
worker lives says nothing of how far the stop is that makes it so.
`ControllerOK` is the missing half: the controller's program is always a suffix
of one of its three operations, and each suffix says what is already taken apart
(from step 4 on no thread is left to the object; after the wait none is being
joined) and built up (the epoch claimed is the present one, `running` is set).
`LiveIsKnown` says that every live worker is in the hands of somebody who will
wait for it. For the packets, `PacketInv` follows the serial numbers from the
queue (`QueueIsOrdered`) through the worker's hand (`HeldIsNext`) to the wire
(`SentIsPast`). A packet that is put back breaks the order of the queue, and
`QueueIsOrdered` therefore ends when the session's worker has retired: from then
on nobody pops until the queue is cleared, and that is what `HubInv` is needed
for.

*The meeting session* (`SessionsAreNaturals`). A connect and a disconnect each
are in one place only, whichever of the three queues that is: `UnderConnect` and
`UnderDisconnect` name the places, `OneConnect` and `OneDisconnect` say that
there is one at most, and `WindowKnows` that the window's flags tell which:
`connecting` stands for a connect under way and `ending` for a disconnect. From
these, `LinkIsKnown` gives the socket and the send worker. `ThreadInv` is the
part that the controller and the IO thread need: a connect finds both idle
(`ConnectIsFirst`, `ConnectIsAlone`), and what is queued for a send is of the
present session (`SendsAreOfSession`, `RequestsAreOfSession`). Both parts end
with a disconnect that is given up (`hurried`), as the properties do;
`WindowInv` also ends with the program's quit. `ShutDown` and `ClosedWindow`
hold throughout: a quit ends with nothing left whatever was under way.

*The media session* (`BoundsAreNaturals`, `NoUserIsNoUser`). The reports of an
engine do not say which meeting they are of. That they can be told apart by
their place in the queue is `OneEngineAtATime`: the grant of a meeting is the
last entry of the queue when it is there, and behind it come the reports of that
meeting's engine only. `ResultComesOnce` and `JoinedIsReal` tie `rtcJoined` to
the result of the present engine, as long as no earlier engine's result was let
in (`stale`, see 6). `TracksAgree` is `ButtonsTellTheTruth` for the states between
the steps, behind a box and during an ending, where the window is ahead of the
engine. `FramesFlow` is the program counter of the engine thread against the
flag, the two locks and the queued call.

*The settings page* (`FormatsAreNaturals`). A preview is wanted in one place at
most, the timer, a fresh job, a fresh event or the running camera (`TimerAlone`,
`FreshJobs`, `FreshEvents`, `CameraRuns`), and what is wanted is what the lists
say. Each operation of the form that changes what the lists say takes the
preview back from all four places (`Silent`) before it begins another.

*The meeting window* (`PeopleAreDistinct`). The two properties are about
different things and so are the two parts. `PicturesInv` looks at one user at a
time: `TileOK` says what its tile shows and, which is what keeps it, that the
load the tile waits for asked for the present address, unless a video came in
between; `MainOK` ties the main widget to the tile of the member it shows. Each
operation is summed up by a lemma on what it does to one user's tile, loads and
count (`LoadMakes`, `ShowAvatarMakes`, ...), and a slot by the operations it is
made of. `NewsInv` looks at the notices: a member that is not shown has its
coming under way (`MemberIsKnown`); between the exit of a user and the next end
of its pictures it comes again (`EndsAreInOrder`); and a frame, waiting or
shown, is of somebody with a tile, or who will have one, or of whom no notice is
left (`FramesAreKnown`). When an exit is handled it is the order of the ends
that keeps the last of these: if another end of that user waits, so does its
coming.

*The history and the account* (`LimitsAreNaturals`, `NoAccountIsNobody`).
`AccountInv` follows the account through the two migrations: until the old place
is cleared it holds what is to be remembered, and from then on the new one does;
a crash between the two repeats a step that changes nothing. For the history,
`WholeInv` says where a record that is neither deleted nor trimmed can be at
each stage of the import, `OnceInv` that it is in no two of those places, which
only the stages between the last insert and the mark except, and
`OwnRecordIsFirst` that the meeting under way has the first record, if it still
has one: this is what makes `finish_open_session`, which takes the latest open
record, close its own. Trimming is the only operation that counts; its lemmas
(`TrimRows`, `InsertRows`) rest on the library's facts about cardinalities.

*The recordings* (`TakesAreNaturals`). The recorder and the library meet in the
path of a take. Only a take that is not finalized can still change its path (the
retry with another format), and what a sidecar or a row tells of is a take that
has been filed under that very path (`TellsOfTakes`), and no earlier one than
the file shows (`TellsTheLatest`); where both tell of a path they tell of the same
(`TwoCopiesAgree`), since a take is filed in both or, with the table closed, under
a path the table does not have. While the table cannot be opened it is not
written any more, and a take filed meanwhile would be one it does not know of.
What keeps the property true is `ClosedTableIsOld`: the paths in it are older
than any that can still be filed. `RecorderStep` sums up what one step of the
recorder can do to a take.

*The accounts* (`FreshIsAText`, `NoneIsNothing`, and `NoneIsNoRecord`, which
says that `None` is told from slots, rows, sessions and requests). A request is
in up to three hands: the window that waits for it, the server's one thread,
and, when the window has gone, nobody's. `WorkOK` says which request the thread
has and that the open transaction has written just the tables its step says; a
registering name therefore has no row in either table until the commit, and both
after it. `RequestsOK` says that an answer tells of what is stored, which
survives because tables and files only grow (`Grows`); which of the files are
short makes no difference to it. `WindowOK` says that each
window waits for requests of its own, and the dialog for those about the
session's account; without it an answer could be taken over into another
account's session. `ProfileInv` splits the copy in the session into its two
parts and says of each that it is the row's, unless it is behind (as both are
after a login that could not read the profile) or the answer
that tells it is still unheard; then that answer has the row's value. A request
that is given up turns from unheard to behind (`AbandonTells`). `PictureInv`
says that the loads that have been overtaken come first (`LateFirst`), so that
the newest one, when it is not overtaken, is of the session's avatar, and that
when it is overtaken so is any other that can still arrive.

None of the proofs uses the fairness of the specification.

## 5. Only model-checked, and not modelled

The provers cannot do liveness under fairness, `ENABLED`, or induction over
data. So these stay with TLC:

* all liveness: `MeetingsEnd`, `CallsReturn`, `NothingWaitsForEver`,
  `NothingHangs`, `StoppedTakesAreFiled`, `RequestsEnd`, `OpeningEnds`,
  `TilesAreFilled`;
* what follows from what a recursive definition computes: `WireChannel`'s two
  invariants, which are about base64, decimal and big-endian encodings of any
  length.

All other properties of the runs are stated by a theorem. Those that speak of all
the frames still under way, of all widgets or of all records do so with
quantifiers over positions, users and records, not with folds or filters, which
is what allows it.

Type correctness is proved as a part of each inductive invariant and is no
property of the runs.

What the models assume or leave out:

* A send worker ends within the three seconds `join_send_thread` waits: it looks
  at its epoch at least every 100 ms. The model waits without limit, and
  `NothingHangs` shows that the wait ends.
* `PriorityMessageQueue::clear` gets its lock within its eight attempts and
  `push` within its two seconds. The lock is held for a few instructions.
* The IO thread's handshake loop cannot meet a queued disconnect: the controller,
  which would post it, is blocked in the connect.
* A read or write error, an undecodable frame and a packet the lobby does not
  know are all the close of the connection.
* The box shown after a refused create or join is left out: the window is
  closed before it.
* A late join answer finds `_roomNo` cleared and starts no media, a late create
  answer does; the model keeps only the flag.
* `room.h:25` describes a duration of 0 as "0 表示不限时" (unlimited), but
  `MeetingService` clamps durations to at least a minute, so no room is
  unlimited; `FirstTimer` keeps `Room`'s own test for 0.
* Members of one account on two connections are one row in the clients' lists.
  `MemberListsConverge` is checked, and proved, for clients of different accounts.
* `MediaSession` takes answers to be timely (late ones are in `ClientSession`),
  a start the engine refuses to change nothing, and the destruction of the
  engine to wait for its threads. The local preview is merged as remote frames
  are and left out there; `MeetingScreen` has it.
* After a mark that failed, or a `meta` that could not be read, the code tries the
  import again at the next `load()` of the same start; `LocalStore` does at the
  next start. An insert and the trim behind it are one step, or the insert alone.
* What `LocalStore` does not promise, because the code does not: when the page's
  `SELECT` fails, what it shows is not what its buttons delete (see 6); a record of the
  import whose insert fails is lost when the file is put aside; a crash while
  the JSON file is written loses the history in it; a crash in the middle of an
  import makes the next one insert its records again; a meeting recorded in the
  file after the import was marked is never imported; when the user deletes the
  row of the meeting under way, its end closes an older record a crash left open
  (`ClosesItsOwnRecord` is about the other case). A logout clears the store
  in use only, so a start that finds the other one may still log in by itself
  (`AccountIsKept` is about starts that find the same).
* `Accounts` takes a password's hash to identify it and leaves out the checks of
  what is typed (lengths, characters, picture sizes), which change nothing else.
  `AccountsAreWhole` asks that the file of an avatar is there, not that all of it is
  (`auth_service.cpp:246-248` does not look); `OwnProfileIsShown` leaves out what a
  login that could not read the profile has put in the session.
* `MeetingScreen` drops the earlier loads of a stay when a new one begins: their
  replies change nothing in that stay. When the member has left and come back,
  the count of one of them could come round again; the model has such late
  replies (`mixed`) of the last load of a stay only.
* A closed connection's frames are dropped in the model as in the code, and no
  property is about them; `MemberListsConverge` is about those who stay. The run
  `view` has one edit at a time; two that cross are in the theorem
  `ViewStateConverges`.
* `SettingsPage` takes one of a resolution and its frame rates for one format.
  The general page is assignments; its folder is in `Recordings`.
* `Recordings` takes writes to the disk and the table to work; deleting a video
  may fail. A file in another program's hands is what makes it fail.
* `WireChannel` gives the client's parser one whole text message at a time, as
  `QWebSocket` delivers them. Its search for the end of an object in a half
  message, and the 4 MB it may hold, are not modelled.
* Preferences as such, the engine's device menus, titles, chat layout, painting,
  OpenGL and themes are left out: no other part depends on them.

## 6. Where the code does something else than one would think

Met while modelling. The properties say what excepts these cases.

Sessions (`ClientSession`):

* The comment in `networkmanager.cpp:62` says the window is told of a disconnect
  only when it is done. The 800 ms fallback (`meeting_widget.cpp:628`) ends the
  ending anyway, for example when the disconnect waits behind a handshake of up
  to five seconds. The next connect is posted, and the old session's
  `disconnected` reaches it, stops its send worker and clears `_sessionActive`;
  a request of the old session can leave on the new socket, and a closed window
  can be left with an open connection (`hurried`).
* The handlers of network errors ignore what comes during an ending; those of the
  create and join answers (`meeting_widget.cpp:1041`) do not, so an answer after
  the close makes a hidden window part of a meeting again.
* Quitting while the controller is in a handshake that goes on for more than
  three seconds destroys a running `QThread` (`meeting_widget.cpp:648`), which
  ends the process (`WaitTimesOut`).

Media and pictures (`MediaSession`, `MeetingScreen`):

* A `join_succeeded` still queued when the window is closed sets `_rtcJoined`
  again, and the closed connection behind it brings up the box that
  `stop_meeting_media` means to avoid; behind that box waits the end of whatever
  meeting there is by then.
* A frame of another member that is handled after the notice that its camera is
  off stays on its tile (`late`): the two ways are not ordered by anything.
* `removePartnerDisplay` forgets a user's count of avatar loads, so a reply
  of an earlier stay can pass for one of the present one (`mixed`), which the
  comment at `cameravideo.h:160` means to exclude.
* A selected member whose avatar does not load leaves the picture of the one
  selected before on the main screen; a tile stays blank.
* A `PartnerJoin` handled after the end of a meeting leaves a tile that is there
  in the next.

Recordings (`Recorder`, `Recordings`):

* `start` forgets an unfinished take, and the 300 ms timer belongs to no take:
  after a stop and a start within that time, on a backend that does not report,
  the first take is never filed, and the timer may finalize the second while it
  is being recorded.
* When `record()` reports an error before it returns, the error handler has
  released the pipeline, and `start` still sets `_recording` and returns true
  (`StartWithError`).
* Takes begun in one second share a name. A retry with another format computes
  the name again and may leave the first file behind; a Matroska file is named
  `.mp4`.
* A refresh in another folder deletes the rows of the first. Removing a video
  deletes its row and sidecar even when the file stays. A take cut off by the end
  of the program never gets metadata.

Accounts (`Accounts`):

* An avatar file is stored before its row is written (`auth_service.cpp:254`): a
  failure leaves a file nobody refers to. A registration may be answered 500
  although it has been committed.
* Nobody checks that the avatar's bytes have been written (`auth_service.cpp:246`):
  on a full disk the row names a file that is no picture, and the answer is 0.
* A login that cannot read the profile succeeds with a blank one
  (`user_repository.cpp:92-95`). Saving the dialog in that session stores the
  blank fields over the real ones.
* `login.cpp:249` stores what the lines say when the answer comes, not what was
  sent.
* Saving the dialog uploads the picture first; when the update then fails, the
  new avatar is in force and the views are not told. Esc closes a dialog that
  waits for its answer. An older picture that arrives late replaces a newer one.

Settings (`SettingsPage`):

* Saving before the cameras are listed overwrites the saved format
  (`stack_setting.cpp:841`). The reset box promises that nothing is written
  before Save (884), yet the handler stores the default format and drops the
  saved devices at once (899-907).
* The box of a camera's error is modal: what runs behind it may be a newer
  preview, which dismissing the box then stops.
* A pool job captures `this` (470-503); the destructor does not wait for it.

History (`LocalStore`; see also 5):

* When its `SELECT` fails, `load()` returns the old file's records
  (`meeting_history.cpp:196-201`), and `remove_at` deletes the record at that
  position in the table (378): one the page does not show, though
  `meeting_history.h:68` has it delete by the order of `load()`. The old file still
  has records when a start has fallen back to it after the import, or when no
  record of it could be inserted.

## 7. What is left

1. The engine's device menus, and the stream parser on half messages.
2. One account on two connections, once the code says what should be shown.
3. Proofs about `WireChannel`, should the provers learn induction over data.
