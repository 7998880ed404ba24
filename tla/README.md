# TLA+ specifications of the Remvora agent

These modules specify the agent of this repository as state machines. TLC checks them on small
instances; TLAPS proves what matters most for every value of the constants. Every definition that
models code is mapped to its lines in `PROJECT.json` (`map`), and every checked property has a
mutant: a plausible bug, written beside the definition it replaces, under which TLC finds the
property violated.

Run `tlc -config X.cfg M` for the runs that `PROJECT.json` lists and `tlapm M.tla` for the modules
whose names end in `Proofs`.

## The system

The agent keeps one web socket to a control server. Over it the server asks for remote sessions, of
which a device has one at a time: a terminal or a desktop. A session runs over WebRTC
(`transport.rs`) or, when that fails, over a relay in the web socket (`relay.rs`); both carry the
same channels to the same handlers. Besides, the agent enrolls and activates itself, reboots the
device on command, and stages signed updates.

Everything inside one session shares a **stop flag**: whatever fails sets it, and every other part
polls it. Nothing else orders the parts of a session, which is where most of the hazards come from.

| Component | State | Operations | Interacts with | What is hard | What makes it correct |
|---|---|---|---|---|---|
| Control connection (`main.rs`, `connect`) | `grants`, `sessions` (WebRTC peers), `relays`, `relay_tx/rx`, `reboot_seen` | `session.request`, `webrtc.offer`, `relay.start`, `relay.data`, `session.close`, `device.reboot`, `agent.updateNow`, the cleanup tick, forwarding of relay frames | the server (ordered messages), peers (stop flags), writers (queue) | three tables describe one session and four paths end it; messages of a session arrive after its end; writers wait for a queue only this loop drains | one grant, no relay without it, no peer that outlives it but one that the session had beside a relay, nothing revived, nothing on the wire after the close, finished relays reaped, the server never told "busy" without reason |
| Relay transport (`relay.rs`) | per peer: stop flag, killer, channels | `Writer::send` in parts, `receive`, `close`, `drop` | the loop's queue, all handlers | two second limits; a message abandoned midway; the loop that empties the queue also fills it while a relay starts | the browser joins whole messages only, none stays half sent, a start never waits for itself for good |
| WebRTC transport (`transport.rs`) | connection, stop flag, killer, data channels | answer, open and close of channels, RTCP feedback, close, drop | the loop, handlers through callbacks | callbacks run beside the loop that closes the peer; media start after a stop | closing the peer ends what its callbacks start; a stop closes the connection |
| Terminal (`terminal.rs`) | shell, killer slot, input queue, output queue, four tasks | start, input, resize, output, exit | peer, channel | the shell, the browser, the queues and the loop may each end it first | the shell dies with the session, output is complete, tasks end |
| File transfer (`files.rs`) | one upload or download, bytes used, temporary file, request queue | list, upload, chunk, finish, download, next, cancel | the shared folder, other sessions, the device's user | a name free at the start is taken at the end; every step can fail; a kill falls anywhere | one transfer, within the budget, published only whole, verified and as announced, never over a file, a temporary file stays only where its removal was refused or the process killed |
| Desktop input (`desktop.rs`, `input`) | command queue, pressed keys and buttons | move, keys, buttons, scroll, releaseAll, clipboard, display and video commands | operating system, capture, channel | any call to the operating system may fail in the middle of several | nothing stays pressed |
| Display and capture (`desktop.rs`, `capture`) | selection and quality (shared), key frame flag, encoder and the size of its frames | select, configure, text.focus, the frame loop, loss reports | input worker, RTCP task, helper processes | shared values change in the middle of a frame | input and capture agree, no request lost, every frame can be encoded, everything stops |
| Audio (`audio.rs`) | queue of samples, resampler | capture, resample, encode, send | operating system | it may fail at any time, on a channel of its own | a failure of audio does not end the session; the rest is not modelled |
| Text focus (`text_focus.rs`, `focus/`) | none | query a helper, normalize rectangles | input worker | late replies; fields partly or wholly off the screen | one query at a time; a rectangle lies on the screen it is normalized to |
| Video resize (`video_resize.rs`) | none | bilinear scaling | capture | index arithmetic at the edges, rounding | no pixel read outside the picture, no overflow of a byte |
| Identity (`identity.rs`) | `identity.key` | load or create, sign | enrollment, activation, proofs | a crash while the file is made, two processes making it | a complete key is kept for good |
| Enrollment and activation (`main.rs` 230-316) | `enrollment-token`, `device-id` | bootstrap, enroll, activate | server over HTTPS | crashes and lost or late requests between the files | the device in `device-id` is registered with the key on disk; the service gets on |
| Run loop, reconnect, shutdown (`main.rs` 113-229, `reconnect.rs`, `service.rs`) | number of failures, stop notification | connect, wait, stop | everything | a stop that arrives when nobody listens | a stop is carried out; it connects again and again |
| Reboot (`reboot.rs`) | `reboot_seen` | admit, run | control connection | repeated and late commands | a command runs once |
| Updater (`updater.rs`), service script (`scripts/update-service.py`) | downloads, staged copies, target, backup | poll, stage, apply, install with rollback; stop, start, restore | server, operator, helper | two checkers on one set of files, two installers on one executable, kills between renames | only verified releases are installed; a failed update that is alone is undone; an executable always remains |
| Signal protocol (`protocol.rs`) | none | envelope | control connection | none | in ControlPlane, by kind |
| Installers, packaging, capture probe | none | straight-line scripts and a diagnostic program | people, CI | none | not modelled |

## The modules

| Module | Models | Checked by |
|---|---|---|
| `SessionSlot` | what the server may rely on: one slot, taken, carried by a relay and given up once | through `ControlPlane` |
| `ControlPlane` | the loop of `connect`, its writers and its server | `control_safety`, `control_liveness`, `control_ended_socket` |
| `MessagePipe` | what a relay promises the browser: each sender's messages whole, at most once, in order | through `DesktopPeer` |
| `DesktopPeer` | the tasks of a desktop session on either transport: how they start, send, fail and end together | `desktop_peer` |
| `TerminalPeer` | a terminal session on either transport | `terminal`, `terminal_orphan` |
| `SharedFolder` | what a file transfer promises of the folder | through `FileTransfer` |
| `FileTransfer` | the file workers of two sessions on one folder | `files` |
| `DesktopInput` | the input worker and what it holds down | `input`, `input_stuck_key` |
| `ScreenGeometry` | the arithmetic of pictures, pointers and text fields, as operators | through `DesktopDisplay`, and by proofs |
| `DesktopDisplay` | input worker, capture thread and focus task around the display | `display_session` |
| `DeviceIdentity` | what provisioning promises: one key, registered once for a device, and a name that is registered with it | through `Provisioning` |
| `Provisioning` | key file, token and device id; service, operator's command, server and service manager | `provisioning` |
| `Executable` | what an update promises of the agent's executable | through `Update` |
| `Update` | checks, staging, the service script and its installer | `update` |
| `...Proofs` | the theorems about each | TLAPS |

### ControlPlane and SessionSlot

An iteration of the `select!` is one action, because nothing else touches the tables while a handler
runs. What runs beside it interleaves: the writers of a relay (`WriterChecks`, `WriterQueues`,
`WriterGivesUp`: the stop check, the queue, the two second limit), a relay that stops by itself
(`RelayFails`), and the server. Several tasks of a relay may be past the stop check at once, so a
session may stay in `writing` after one of them queued its part or gave up. Every `?`, `ensure!` or
`bail!` in a handler is `LeaveLoop`, which drops all that `connect` owns. `grants`, `peers`, `relays`,
`relayQ`, `rebootSeen` are the maps and queues of the code. `stopped` is the stop flag of a relay,
`writing` a writer between its stop check and its slot. `ended`, `blame` and `rebootsHere` are histories
for the properties.

The server is external. It uses a session's id once, forwards a browser's signals while it takes the
session for open, and closes. With `OneAtATime` it asks for a session only when it has none; without it
it asks at any time.

`SessionSlot` is the abstraction: `holders`, `carried` and `past`, with the actions Take, Carry and
GiveUp. `SlotSpec` instantiates it with the grants, the relays and the ended sessions; it is a property
of `control_safety` and a theorem. The handshake with the server, the queue and the wire are hidden.

### DesktopPeer and MessagePipe

`task` is where each sender is: the start of the peer itself (`starter`), the input worker, the task of
a focus query, capture, audio and the files worker. On the relay `Writer::send` is one step per part,
`CheckStop` and then `Enqueue` or `GiveUp`, between which the other senders put their own parts into the
same `queue`; `len` and `part` are how long the message is and how much of it is out. The control loop
forwards (`Forward`) only while it is not inside `RelayPeer::start`, which is the state `starting`: the
start announces the capabilities through the queue that only this loop empties, and left-over frames
(`Stray`) may have filled it. A wait looks for room before it looks at its deadline, so a message is
given up only while the queue is full or gone; that is the guard of `GiveUp`. The deadlines around a
reply (one, two or ten seconds) end the same wait and are the same action.

The browser joins the parts of a channel until one is marked the last (`joined`); `garbled` records the
channels on which a part did not continue the one before it. On WebRTC the library takes whole messages
(`LibrarySends`), and the connection's states, the data channels and the 250 ms watcher are the actions
`Connect`, `Disconnect`, `ConnectionFails`, `OpenChannel` and `Watch`.

Whose failure ends the session is `Vital`: the worker's and the capture thread's always; the files
worker's only on the relay, where closing its channel closes the session; audio's and a focus query's
never. `Channel` gives starter, worker and focus one channel. That their messages do not mix rests on
their size: `ReplyLimit` keeps a clipboard reply within one part.

`MessagePipe` is the abstraction, per sender: hand over, lose, or deliver the oldest message that is
still pending. `PipeSpec` takes as pending the message being sent and those whose last part is queued.

The two views of a relay, the loop's in `ControlPlane` and the tasks' here, share the queue, the stop
flag and the stop check. `Loop` instantiates `ControlPlane` with the state of a desktop peer: its
session is the one relay, its senders are the writers, and left-over frames are another session's.
`TasksFit` says that every step of a task is then a step of `Writers`, or none: what `ControlPlane`
allows a relay's tasks, which its properties rest on, is all that they do. Two things are left out: the
peer's own start, which in `ControlPlane` is a part of the loop's handler, and a task that gives up
because the queue is gone with its loop (`Abandons`), when there is no loop to see it.

### TerminalPeer

`starter` is how far `terminal::start` is. Over the relay (`transport`) the control loop runs it to its
end, `RelayStart`; over WebRTC the `on_open` callback does, step by step (`Spawn`, `Publish`,
`StartTasks`), while the loop may close the peer and the browser the channel. `killer` is the slot that
`on_close`, `close` and `drop` empty, whoever comes first (`KillShell`). Output is counted at three
points (`produced`, `read`, `sent`), which is all that "complete" needs. `job` is a process the shell
left behind, which keeps the terminal open after the shell is gone.

A shell that nobody kills may still end on the end of file it reads when the terminal's writer is
dropped; the model allows that (`ShellExits`) and does not count on it.

### FileTransfer

One action per request kind of `Session::handle`, and one for every refusal (`HandleCancelOrError`):
they have the same effect, to drop both transfers. The worker replies after each request and may fail or
take ten seconds to (`Reply`, `ReplyFails`). `parts` counts the temporary files of uploads;
dropping an upload removes its file, but `Drop` ignores a removal the operating system refuses:
`leftovers` says whether files stayed for that reason, or because of a kill. A `File` carries its
content and the digest that was announced. Two workers are the old session's, stopping, and
the new one's, starting; the local user creates and removes files. `Kill` ends the process, perhaps just
after a `hard_link`: the transfers are gone, the temporary files stay, and workers that were idle are
those of the next process.

`SharedFolder` is the abstraction: a worker announces a file under a free name, charges its size to its
budget, takes bytes within it, and publishes the file it announced, complete, verified and under a name
that is still free; a crash voids announcements. Chunks, offsets, the queue, the replies and temporary
files are hidden. `FolderSpec` instantiates it with what the uploads in progress announce (`Wanted`).

### DesktopInput

The operating system is obliging or refusing (`os`), chosen at the start. `tracked` and `pressed` are
the agent's `pressed_keys` and `pressed_buttons`; `held` and `heldButtons` are the truth on the device;
`refused` remembers what could not be released although it was tried. `DrainKeys` is the `drain(..)`
with a `?` in its loop: it forgets the keys behind the one that was refused.

### DesktopDisplay

The capture thread's iteration is four actions, `ReadQuality`, `ReadSelection`, `TakeRequest` and
`SendFrame` (or `SkipFrame`), between which the shared values change. `aimed` is the display the
input worker's coordinates refer to, `source` the one captured, `seen` the selection the thread
last looked at. `owed` is the receiver's wait for a key frame and `query` the display a focus query was
started for. A setting is its width, the one field the size of a frame depends on, and `Validated` are
those the agent takes. `frame` is the size of the picture being encoded: a display may have another
resolution at every capture (`Scales`), and `Scaled` lets the quotient of the two widths come out just
below its exact value, as in floating point.

`ScreenGeometry` is pure: the size of a frame (`Shrunk`, `Scaled`), the fixed-point positions and the
blending of bilinear scaling, the pointer's coordinates and the clipping of a text field. A coordinate
is a fraction n/d, so that it may lie anywhere, also outside the picture.

### Provisioning

Three files survive the processes: `keyFile`, `tokenFile`, `deviceId`. A process, the service `run` or a
command of the operator, is where it is in `run` (`at`), with the key it loaded (`mine`) and the token
or device it is working with (`held`). A write is two steps, the file being `Torn` in between, and
`Kill` may fall between any two steps. A request that its sender gave up on stays in `late` and may
still reach the server, which takes a token once (`Registers`). `permit` is what the `Notify` behind
`STOP` holds; `Listening` are the phases in which a `select!` waits for it.

A token file that cannot be read counts as absent, since both make the bootstrap end and the loop go on.
The stop is the Windows service manager's; systemd's is a `Kill`, because nothing handles SIGTERM.

`DeviceIdentity` is the abstraction: a key is chosen once, the server registers it for a device that has
none, and the agent takes the name of a device registered with it. `IdentitySpec` takes a torn file as
none. Processes, tokens, requests that come late and kills are hidden.

### Update

A checker is the poll task or `agent.updateNow`, and `at` is how far it is, in the agent and then in the
script that it starts. Executables, artifacts and manifests are versions; `Bogus` is everything the
trusted key did not sign for this device. `stage` reads the manifest (`ReadMetadata`) and copies the
artifact later (`StageUpdate`, `DryRun`, `Restage`), while the other checker writes both files. The
three times it runs it is the agent, the helper before the stop, and the installer; each verifies with
its own version. `target`, `backup` and `candidate` are the executable's names during `install_from`.
`running` is the service, whose checks end when it stops; the scripts do not.

The apply helper that connects the two is not in the repository: the model has it run the script with
its four paths, outside the service's control group, without which stopping the service would end the
script too. `alone` is a history: no other script was under way at any time since this one began. `kept`
are the backups of scripts that have ended, which nothing removes.

`Executable` is the abstraction: what has the agent's name is set aside before a newer release takes the
name, and takes it back only from nothing or from a newer release. That is promised unless updates
contend for the name. `ExecutableSpec` takes as set aside the backups of the scripts under way and those
kept, whichever script made them, and as contending any script that is not `alone`. Of those much less
is promised, and no more is true: something has been set aside before a release takes the name, perhaps
not what had it, and it is given up only by taking the name back. So an executable remains
(`NeverLost`), though it may be a release that failed: two installers are past their second comparison
(342) when the first one renames the executable away and its release in; the second one renames that
release away; the first one's service does not start, and its rollback puts the previous executable
back; the second one's `rename` (346) replaces it. Its only backup is the release that failed.

## What the runs show

Runs that pass:

- `control_safety` (two desktop sessions, terminals refused, one reboot command, a server that asks at
  any time; about 1.3 million states): a WebRTC peer is made under a grant and ends with it, unless a
  relay's failure ends the grant (`PeersUnderGrant`); nothing of a relay after its close on the wire; no
  command twice on one connection; the grants and relays implement `SessionSlot`, which includes that
  one session at most is granted, that a relay is under its grant, and that what ended is never revived.
- `control_liveness` (a server that asks for one session at a time): it is never told `SESSION_BUSY`,
  finished relays are reaped, and a session the server takes for closed is released for good.
- `desktop_peer` (126,122 states): what the tasks do is what the control loop allows a relay's writers
  (`TasksFit`); the browser never joins parts that do not belong together, and what
  it has joined in part is completed unless the session stops; the parts and the shared queue implement
  `MessagePipe`; the start is decided although the loop waits for itself; a stop, whoever causes it,
  ends every task and closes the peer or its connection.
- `terminal`: queue bounds, a killer for every published shell, complete output before the channel
  closes by itself, over the relay no shell left, and whichever of shell, channel and peer ends first,
  the others follow (`EndsTogether`).
- `files` (about 840 thousand states): one transfer per session and the budget (`WithinLimits`); every
  upload has one temporary file, and no other is left unless its removal was refused or a worker was
  killed (`TemporariesAccounted`); a stopped worker ends; the workers, also when they are killed,
  implement `SharedFolder`, which includes that contents are verified and no file is overwritten.
- `input`: the limits of queue and pressed keys; a key or button that is held is remembered, and a
  button even when releases are refused, and the end leaves nothing down that could be released
  (`HeldRemembered`); a blur and a stop release everything when
  the operating system lets them.
- `display_session` (52,326 states): input and capture agree, both follow the selection and the settings
  (`CaptureServes`), no key frame request is lost and every one is answered, and the encoder gets a
  frame it can take whatever the display's size.
- `provisioning` (about 200 thousand states): files, requests and processes implement `DeviceIdentity`,
  which includes that the device in `device-id` is registered with the key in `identity.key`; the
  service connects again and again unless it is `Stuck`, with a torn key, a torn device id, or neither a
  device id nor a token the server takes; a stop asked for at any moment is carried out.
- `update` (about 1.1 million states): whatever the other checker does to the downloads, nothing
  unverified is unpacked, installed or run; a failed script that was alone has put back what it found
  or, where the installer did not report, left it under one of its two names; checks and scripts
  implement `Executable`: a script that is alone sets aside what it replaces, and with any number of
  them an executable remains.

What a checked abstract specification says is not checked again by itself: `EndedHoldsNothing` is a
consequence of `SlotSpec`, `PublishedVerified` and `NeverOverwrites` are of `FolderSpec`, and
`DeviceBoundToKey` is of `IdentitySpec`. Each has a theorem of its own.

Runs in which the code and a document disagree (`findings` quotes both):

- `control_ended_socket`: an offer, a relay start or left-over frames of a session that has ended can
  still end the control connection.
- `terminal_orphan`: over WebRTC a peer closed while `on_open` spawns the shell never kills it.
- `input_stuck_key`: after one refused release the keys behind it stay down beyond the session.

In two more places a document promises more than the code keeps. No run is about them; the passing
properties state the exception, and in the model it happens:

- docs/remote-capabilities.md:19, "Cancel/disconnect removes partial uploads": not when the removal is
  refused, which `Drop` ignores (`files.rs:52`). `TemporariesAccounted` allows exactly these files and
  those of a killed process.
- docs/release-and-update.md:11, install-update "preserves the previous executable", and the same of
  `install` (`updater.rs:243`): not when two scripts rename it in turn (`updater.rs:345`, 346; the steps
  are told under Update). `ExecutableSpec` promises it to a script that is alone.

### Bounds

- *Control*: two sessions are the one that ends and the one that follows, and every property relates at
  most two. `WireSlots` = 2 lets a close and a signal, or a request and an offer, be in flight together;
  `RelaySlots` = 1 makes the queue full as soon as one frame waits. `RebootLimit` = 2 and
  `MaxDeliveries` = 2 let one command come twice. `control_safety` allows desktops only, which keeps it
  small; a terminal differs in announcing nothing when its relay starts, and `control_liveness` has
  both. A full wire only delays its sender.
- *Terminal*: queues of 2, output of 4 reads: more than fit into the queue and the reader's hands.
- *Files*: files of up to two bytes in chunks of one, a budget of one such file, a queue of one:
  transfers of several chunks, a budget that a second transfer does not fit, and an overflow all
  happen. One of the two workers may be killed before the other starts, or both at once.
- *Input*: three keys and a limit of two, so that the limit is met; the letter and the modifier of the
  shortcut are among them. Two buttons, a queue of two.
- *Desktop peer*: parts of two bytes, so that messages of up to `FrameLimit` = 3 take one or two of them
  and a length of four is refused; `ReplyLimit` = 2 is within a part, as in the code. A queue of two is
  full before one message of two parts and another sender's are in it. Three messages in all: one
  abandoned in the middle, one of another sender and one after it.
- *Display*: two displays, whose pictures are 1, 5 or 8 pixels wide and high, and the widths 4 to 8, of
  which a browser also asks for odd ones and for some out of the range. That is flat, odd and narrow
  pictures, with and without scaling; the proofs cover all sizes.
- *Provisioning*: the service and one command race for every file; two keys let each make its own, two
  devices let the command enroll another one. One kill or stop (`MaxDisruptions`) falls anywhere; what a
  second one could add, a restart into what the first one left, is reached by failing operations as
  well.
- *Update*: two checkers are what the agent has; of three versions one is installed and a second and
  third one are released, so that a check can verify one release and another overwrite it.

### Fairness

- *Control*: strong fairness of handling a signal and of the cleanup tick. `select!` polls its ready
  branches in random order, so none is passed over for ever; a branch that waits for the socket keeps
  the loop to itself, so it is disabled now and then, hence strong. The server reads its socket.
  Nothing is assumed of the server's requests, of writers or of relays.
- *Desktop peer*: every task's next step of what it has begun, the starter, the loop that forwards and
  reaps, the negotiation, which has a deadline, and the watcher; nothing of what makes a task produce a
  message, of the browser or of the connection.
- *Terminal*: the tasks and callbacks the runtime schedules, and the cleanup tick; nothing of the
  shell, the browser or the server.
- *Files*: a reply ends, by its ten second limit; the loop comes back to its test of the flag.
- *Input*: the worker polls its flag every few milliseconds.
- *Provisioning*: the service is started again and its steps are taken. Requests and connections that
  keep being possible succeed now and then, and a `select!` that keeps listening takes the notification
  now and then, each enabled and disabled by the loop, hence strong. The administrator approves. Nothing
  is assumed of the command, of late requests or of kills.
- *Update* has no liveness property.
- *Display*: the capture thread runs; the encoder, which may skip a frame to keep its rate, does not
  skip all of them, hence strong fairness of `SendFrame`.

A weakly fair action that is a disjunction (`Start`, `Capture`) is one thread: at most one of its
disjuncts is enabled, but for an encoder that sends or skips. The service's steps in `Provisioning`
also are one thread, whose file operations and requests succeed or fail.

### Where the system may stop

The runs with `CHECK_DEADLOCK FALSE` are about sessions, which end. The control connection reconnects
for ever, the service is restarted for ever, and the device's displays may change after a desktop
session has ended; there deadlock is checked. In `update` the system may stop indeed: an installer
killed between its two renames leaves no executable to start, only the backup.

## What is proved

For any sets of sessions, names, keys, displays, devices and checkers and any capacities:

| Module | Theorem | Argument |
|---|---|---|
| `ControlPlaneProofs` | `TypeCorrect` | one step per action; queue bounds from the guards |
| | `SessionInvariant`, and from it `SingleGrant`, `RelaysUnderGrant`, `EndedStaysEnded`, `CloseIsLast` | see below |
| | `PeersAreUnderGrant` | an offer is handled under a grant, `EndSession` ends grant, relay and peer together, and of the paths that end a grant only a refused relay frame leaves a peer |
| | `ImplementsSlot` | initial states map to initial states, every step takes, carries, gives up or stutters; uses `SessionInv` |
| | `RebootsOnce` | a command that ran on this connection is in `reboot_seen` |
| | `NeverToldBusy` | see below |
| `DesktopPeerProofs` | `TypeCorrect` | a task in the middle of a message points to one of its parts |
| | `MessagesWhole` | see below |
| | `ImplementsPipe` | per sender the numbers in the queue rise, are above those that arrived and below the message being sent |
| | `PeerFitsLoop` | the stop check, the queue and the deadline map to `WriterChecks`, `WriterQueues`, `WriterGivesUp`; a failure maps to `RelayFails`; a closed peer is stopped (`ClosedHolds`) |
| `TerminalPeerProofs` | `TypeCorrect`, `PublishedShellHasKiller`, `RelayedShellDiesWithPeer`, `OutputIsComplete` | until it is published there is no killer to lose; over the relay there is no state between spawn and publication; a reader that is done has read all that was produced, and the sender after it empties the queue |
| `FileTransferProofs` | `FileInvariant`, and from it `OneTransferAtATime`, `BudgetKept`, `PublishedIsVerified`, `TemporaryFilesAccounted`; `PublishingNeverOverwrites` | `Charged`: what a transfer may still move is already charged to the budget, and what an upload holds was moved; every way an upload ends tries to remove its file, or is a kill |
| | `ImplementsFolder` | one lemma per request; a whole upload has its announced size in `moved`; a kill gives all announcements up |
| `DesktopInputProofs` | `TypeCorrect`; `ButtonInvariant`, and from it `HeldButtonsRemembered`, `ButtonsUpAtEnd`; with `KeyInvariant`, `EndsHoldingNothing`, `HeldIsRemembered` and `BlurReleasesAll` | a held button is remembered or was refused, before and after the drop; with an obliging operating system a held key is in `tracked`, of which taking one key leaves the others; after the drop it is empty and stays so |
| `DesktopDisplayProofs` | `TypeCorrect`, `InputAndCaptureAgree`, `NoRequestLost` | inductive as they stand |
| | `FramesCanBeEncoded`, from `ScaledCanBeEncoded` | settings are even and a frame is made with the setting of its encoder |
| | `SamplesInside`, `BlendBetween`, `PointerOnScreen`, `FieldOnScreen` | arithmetic, for all sizes: the quotient of a product is bounded by its factor, a weighted mean by its terms |
| `ProvisioningProofs` | `IdentityInvariant`, and from it `TypeCorrect`, `DeviceAndKeyAgree`; `KeyIsKept` | every key in memory, under way or registered is the one on disk, and one process at a time is writing it |
| | `ImplementsIdentity` | a key's file is made where there is none; what the server registers, at once or late, is this key for a device that had none (`IssuedOnceHolds`) |
| `UpdateProofs` | `UpdateInvariant`, and from it `TypeCorrect`, `OnlyVerifiedInstalled`, `FailedUpdateIsUndone` | see below |
| | `ImplementsExecutable`, and with it `NeverLost` | a script between its first rename and its end has a backup, its own, whoever else is at work; while it is alone nothing has the name between its renames and then, until a rollback, the newer release; an executable remains under its name or set aside |

`FileInvariant` states `TypeOK` and `BudgetKept` states `WithinLimits`.

`OneGrant` and its companions are not inductive alone. That an ended session is not granted again
depends on its request not being on the wire any more, and `CloseIsLast` on closes being sent only
for sessions that have ended: `SessionInv` adds `FreshRequests` (a request under way is the only one
of its session, which has never been granted) and `ClosesEnded`.

`NeverBusy` needs the order of the wire to the agent (`BusyInv`): a session that is granted, or asked
for in a message under way, is one the server still has, or its close is behind in the same wire; and in
front of every request are the closes of whatever is granted or asked for before it. A request that is
handled then finds nothing granted. A refused session holds no grant and is not asked for again. The
steps of the agent, its tasks and its server come down to nine effects on what the server sees
(`ServedStep`), and each keeps the invariant.

`WholeMessages` speaks of the browser's end; `ChainInv` follows a channel back to its senders: each part
in the queue continues the nearest one of its channel before it (`QueueInv`), and what a sender puts in
next continues the last one (`SenderInv`). A sender of longer messages is alone on its channel and, when
it gives up in the middle of one, ends; senders that share a channel send every message as one part
(`SharedInv`).

`FailedUpdateUndone` speaks of the end of a script; `UpdateInv` follows it there: until the first rename
what is installed is what the helper is a copy of (`Untouched`), from then to the end of a rollback the
backup is (`Replaced`), and the name is free between the two renames and then a newer release's. While a
script is alone nobody else touches the two files. What is said of the
others survives a step because a script that is not alone promises nothing (`StepKeeps`). That a script
between the two renames has a backup holds of every script, alone or not; with `kept` it is what
`ExecutableSpec` needs, so that `NeverLost`, unlike `FailedUpdateUndone`, is about any number of them.

The proofs assume only the named assumptions of the modules: capacities are naturals (some positive),
switches are Booleans, the default setting is a setting. TLC evaluates them in every run.

Only model-checked: the liveness properties (`ClosedIsReleased`, `PartialResolved`, `StopEndsAll`,
`EndsTogether`, `StoppedEnds`, `StopReleases`, `CaptureServes`, `Provisioned`,
`StopEnds`), since fairness and ENABLED are out of the prover's reach, and the runs in which a property
is violated.

## What is not modelled, and why

- README.md says that an agent has one active session. `SlotSpec` says so of grants and relays. A
  session may also have a relay and a WebRTC peer, and a refused relay frame ends only the relay and the
  grant; `PeersUnderGrant` says that this is the one peer that outlives its grant.
- ICE, DTLS, SDP, H.264, Opus, TLS and the cryptography are libraries. Heartbeats and candidates change
  no table of the agent. The time `agent.updateNow` keeps the loop to itself is not modelled; its
  effect, writers that run into their limit, is.
- A peer whose browser silently disappeared holds the grant until the server closes it: the server
  owes nothing in the model, and no document says how long that may take.
- While no display is selected, input and capture look up the primary one each for itself and may
  differ; the model has it (`PrimaryMoves`), no property excludes it.
- A killed agent leaves the `.part` files of its uploads, as does a refused removal
  (`TemporariesAccounted`); the model does not count them, and no code looks for them. A power failure, which may lose what was written, is not modelled.
- A focus reply that was under way when another display was selected is in the coordinates of the
  previous one; the model has it (`FocusReplies`), no property excludes it.
- `reboot_seen` ends with its connection: a reboot command delivered again on the next one, before it
  expires, runs again. The property is about one connection.
- `FailedUpdateUndone` does not hold of two scripts at once, which undo each other's renames, and of them
  `ExecutableSpec` says only that an executable remains; nor does it speak of a script that is killed, or that ends in its handler
  because stopping the service took too long.
- `Killed` ends the service script and an installer it has started at once, and its comment says so. A
  signal that kills the script alone leaves the installer running, which is not modelled.
- A terminal's killer stays in its slot when the shell is reaped, so that closing the peer later signals
  a process id that may belong to another process by then; process ids are not modelled.
- A files request whose reply was lost is not repeated by the agent; what a browser repeats is another
  request, which the model has.
- The delays of `Retry`, and a Ctrl-C that arrives during the bootstrap, which is lost.
- The decoding of the X11 root window (`desktop.rs` 155-435) and colour conversion, which are loops over
  bytes without state between two frames, and the helper processes that find a text field.
- Of the audio, the pump that cuts the captured stream into frames, the resampler and the operating
  systems' capture: they share nothing with the session but the stop flag and the sending, which
  `DesktopPeer` has, and the resampler's position is a floating point sum, of which exact arithmetic
  would say little.
- The states a Windows service reports, installers and packaging scripts, the capture probe.

## Plan

The modules were written in the order of what a failure would cost: the control connection and the
terminal, files and desktop sessions under it, then the device's identity, then its executable, then
what the tasks of a session share. What is left:

1. `Retry` and Ctrl-C in the run loop, composed with `Provisioning`.
2. `decode_xwd` on small images of every layout, and the pump of the audio stream.
3. What a terminal promises, a stream of output that is complete or cut off with its session, as an
   abstract specification of `TerminalPeer`, on either transport.
