# A verification project for flash-cat

flash-cat sends files and folders from one computer to another through a relay
that either side can reach. This directory holds TLA+ models of its transfer
protocol, the start of a share, its relay, its shutdown signal, the files it
collects and places, its desktop app and its self update; the TLC configurations
that check them on small instances; and theorems proved with TLAPS for every size.

Contents: [the system](#1-the-system) · [the plan](#2-the-plan) ·
[how the modules correspond to the code](#3-the-modules-and-the-code) ·
[what the runs show](#4-the-runs) · [fairness](#5-fairness) ·
[what is proved](#6-what-is-proved) · [findings](#7-where-the-code-and-its-texts-disagree) ·
[what is not modelled](#8-what-is-not-modelled)

To repeat everything: `tlc -config MCTransfer_safety.cfg MCTransfer` and the like
for the runs of section 4, `tlapm TransferProofs.tla` and the like for the proofs.

## 1. The system

```
  sender                          relay                        receiver
  FlashCatSender                  Relay, Session               FlashCatReceiver
  +---------------------+         +------------------+         +--------------------+
  | main loop           |  gRPC   | handle_streaming |  gRPC   | message loop       |
  |   -> send_files     |<------->|  sharer queue    |<------->|   recv_files map   |
  |      -> tasks (x3)  | channel |  recipient queue | channel |   -> RecvFile tasks|
  |      -> dispatcher  |         |  store of        |         |   <- user answers  |
  +---------------------+         |  sessions        |         +--------------------+
      CLI or app                  +------------------+              CLI or app
```

| part | state it keeps | operations | who it talks to | what is hard |
|---|---|---|---|---|
| **sender** `core/src/sender.rs` | the connection (`tx`, `messages`), `confirm_tx/rx`, `send_files_shutdown`, the semaphore and `confirm_waiters` of a `send_files`, the position of each task | main loop (`relay_channel`), `send_files`, `send_single_file`, `stream_file_data`, reconnect | receiver through the relay; its user through a stream of interaction messages | up to `MAX_CONCURRENT_FILES` tasks that share one link and one confirm channel; time-outs; cancellation read before a send that may wait |
| **receiver** `core/src/receiver.rs` | `recv_files`, a `RecvFile` with a writer task for each open file, the disk | one handler per message, one per answer of the user, reconnect | sender through the relay; its user through `confirm_rx` | the order of requests, answers and data of many files; files opened before the user is asked; errors end the loop |
| **contents** `common/src/utils/fs/mod.rs`, `receiver.rs` | bytes of a file | `missing_chunks`, the writer's write, seek and restart | the receiver | a breakpoint is guessed from zeros at the end of the file |
| **relay: session store** `relay/src/relay.rs`, `session.rs` | the map from share codes to sessions, each with its time of last access and its shutdown | `join`, `lookup`, `close_session`, `close_old_sessions`, `shutdown` | clients of all shares | every operation takes several steps that interleave; look-ups go stale |
| **relay: channel** `relay/src/grpc.rs`, `session.rs` | two bounded queues per session, a bounded channel per connection | `channel`, `handle_streaming`, `handle_update`, `send_msg`, `close` | the two clients | bounded queues in both directions; two handlers on one queue; messages taken and then lost |
| **shutdown signal** `common/src/lib.rs` | an atomic flag and a `Notify` | `shutdown`, `wait`, `is_terminated` | every loop above waits on one in its `select!` | relaxed loads; dropped and restarted futures; missed wake-ups |
| **start-up** `sender.rs`, `receiver.rs`, `net_scout.rs` | which relays are in use | local relay, public relay, discovery on the LAN | relay | both relays race for the first `Ready` |
| **files** `common/src/utils/fs/mod.rs`, `receiver.rs` | the sender's directory tree, its list of entries, archives; the receiver's output directory | `paths_exist`, `collect_files`, zip tasks and their clean-up, `safe_join_relative_path`, placing an entry | sender, receiver | links, unreadable directories, equal names; archives made by concurrent tasks in the user's own directory |
| **app: views** `app/src/views/` | what each view shows, the sender or receiver it holds, one notification | clicks, a thread per run, a listener for what it tells | sender and receiver, through unbounded channels | late events of a run that was let go; one slot for several questions; files picked while the view is busy |
| **app: settings** `app/src/state.rs` | settings in memory, a file | change and save in the background | the file | saves that overlap, fail or are cut off |
| **command line** `cli/src/` | questions, progress bars | answers, exits, self update | sender, receiver, the file system | exits in the middle of a start; a binary replaced in steps |

How they interact. The sender joins a relay under a share code, which creates a
session. A receiver that knows the code opens a channel, the relay broadcasts
`Ready`, and the sender asks (`SendRequest`). Once the receiver's user has
agreed (`ShareConfirm`), `send_files` starts one task per file, `MAX_CONCURRENT_FILES` = 3 at
a time.
Each task sends `NewFileRequest` and waits for a `FileConfirm`, 300 s at most; the receiver
answers it at once for a new file or an empty directory, and asks its user for
a file that exists. The confirm travels back through the main loop, a bounded
channel, the dispatcher and a one-shot channel to its task, which then sends an
optional `BreakPoint`, the `FileData` and `FileDone`. When all tasks have ended,
`send_files` sends `Done`, and the receiver answers it with `Done`.

What makes each part correct:

* *transfer*: no message about a file reaches a receiver that does not expect
  it; a finished file has the right content; an existing file changes only with
  the user's consent; permits and open files are bounded; `Done` comes last;
  `send_files` ends and an undisturbed share completes.
* *relay channel*: it carries updates in order, once, without a gap, and its
  two directions do not block each other for good. This is what the transfer
  model assumes of its two links.
* *session store*: a session that is found is open; one that is lost is shut
  down; shares do not end each other; deserted sessions go away.
* *start-up*: sender and receiver end up on one relay, whichever `Ready` comes
  first and however far the start has come; nobody waits for ever for the other.
* *shutdown signal*: nobody sleeps through it and nobody wakes before it.
* *files*: everything that can be read arrives in its place, and nothing else;
  entries of a share do not get into each other's way; archives hold what they
  should and leave no trace.
* *app*: an answer goes to the receiver that asked; no question disappears; a
  share that goes on can be cancelled; the settings file follows the settings.
* *self update*: a complete binary is left wherever an update stops.

The hazards, each with the line where it bites and the properties that would
notice it, are listed in `PROJECT.json`.

## 2. The plan

In order of importance. What is left of each is named.

1. **Transfer** (done): one share over one connection, both sides; its abstract
   specification **FileCopy** (every file is copied by itself, in order, where
   the receiver chose to start, or is left as it was) and the refinement.
   Theorems: every safety property and the refinement (`Typing`, `Turns`,
   `FilesFound`, `WritesAreConsented`, `FinishedIsCopied`, `TransferCopies`,
   `DoneIsSettled`, `FewFilesAreOpen`, `OnlyLateAnswersBlock`). Left: the
   `RecvFile` writer as a task of its own with its failed flush and `finish`; a
   refusal that races with the shutdown after it.
2. **Shutdown** (done): the signal, refining **Latch**. Theorems: type
   correctness, no missed wake-up, the refinement of Latch's safety part.
3. **RelayChannel** (done): the queues and handlers of one session; the ground
   for the FIFO links of Transfer; how handlers and a close end that wait
   outside of their `select!`. Theorems: updates arrive in order, and none is
   skipped.
4. **RelayStore** (done): join, close, expiry and shutdown of sessions. Theorems:
   a session that is found is open, and is shut down only for a reason of its own.
5. **Reconnect** (done): later connections of either side,
   `ResumeRequest` and `ResumeState`, the second `Ready`, tasks of an old
   `send_files` that still wait, handlers of lost connections that go on at the
   relay. Theorems: all five of its invariants.
6. **StartUp** (done): the sender's two relays, the broadcast and the receiver's
   choice among them. Theorems: a relay a receiver was asked over stays, and what
   the broadcast says is so. Left: a specified relay, and an app that stays after
   its local relay failed.
7. **FileTree** (done): zip, collection, clean-up, placing. Theorems: all three of
   its properties.
8. **ReceiveView**, **SendView**, **Settings**, composed in **App** (done).
   Theorems: all four of its properties.
9. **Update** (done). Theorem: a complete binary is always left.
10. Left: the command-line client's blocking question and its signal;
    `missing_chunks` as the loop it is, against its closed form in Contents.

Every invariant and every safety property that a run checks is stated by a theorem.
Proofs still worth doing: that the links of Transfer are what RelayChannel provides
and RelayChannel's sessions what RelayStore keeps, as refinements instead of the
correspondence described below.

## 3. The modules and the code

Every definition that stands for code is mapped to its lines in `PROJECT.json`.

**Contents** — a file is a sequence of chunks of `SEND_BUFF_SIZE` bytes, told
apart only by "all zero" and a few values. `WriteAt` is the writer's positioned
write (behind the end it leaves zeros), `SavedChunks` and `MissingChunks` are
the result of `missing_chunks` in closed form, `AtBreakPoint` the condition
under which the receiver offers to resume.

**Transfer** — the sender and the receiver over one connection.

| variables | code |
|---|---|
| `toReceiver`, `toSender`, `up` | the connection's channel, the relay and the peer's stream, as one FIFO link in each direction of at most `LinkCap` messages |
| `cancel` | `send_files_shutdown`, signalled by the main loop when it leaves the connection |
| `share`, `sf`, `nextFile`, `permits`, `completed` | progress of the share and of `send_files`, the semaphore |
| `task`, `pos` | each `send_single_file` and its read position |
| `waiters`, `oneshot`, `disp`, `confirmQ` | `confirm_waiters`, the one-shot channels, the dispatcher, the confirm channel |
| `prompts`, `recvFiles`, `recvPos`, `disk` | open questions, `recv_files` and its writer positions, the files |
| `rstate`, `receiveDone` | whether the receiver's loop still runs, and what it reported |
| `old`, `choice`, `finished` | history, for the properties |

Actions: one per branch of the sender's main loop (`Ready`, `ShareAccepted`,
`ShareRejected`, `EnqueueConfirm`, `DoneReplied`), one per step of `send_files`
(`NextFile`, `SpawnTask`, `JoinTasks`, `SendDone`), of its dispatcher and of a
task (request, four ways to be answered, time-out, breakpoint, read, send,
done), one per handler of the receiver and one per answer of its user. A read
and the send after it are two actions, because the cancel flag is looked at
before the first and the second may wait. Failures are actions that may always
happen: `Cancel`, `LinkDown` (a suffix of what is under way is lost), a task
that fails, an I/O error of the receiver. A loop that was cancelled drops its
stream, so `LinkDown` follows it for certain (`HangUp`).

**TransferProperties** — properties of Transfer, and the refinement mapping to
**FileCopy**. **TransferProofs** — types, turns and consent; then content, the
refinement, the end of a transfer and the bounds.

**Shutdown** — the flag, the `Notify` with its count of calls, each call of
`shutdown` in two steps, each `wait` in its five. A load of the flag is relaxed:
until a wait has synchronised with a `notify_waiters` (through the counter, when
it creates its `Notified`) it may read either value. `Drop` is a `select!` that
takes another branch. **Latch** is what callers rely on. The definitions that the
specification is made of carry its subject in their names (`SignalInit`,
`SignalNext`, `SignalSpec`), so that **StartUpProofs** can speak of it beside StartUp.

**RelayChannel** — a session's two queues; `channel` with its broadcast of
`Ready` before the handler is spawned; `handle_streaming` with one action per
branch of its `select!`; the waits outside of the `select!` (`Push`, `Send`) as
control states of their own; `close` with its two broadcasts; expiry. A client
may be gone (`ClientGone`) before the relay notices (`Notice`); until then what
is sent to it disappears. The clients are abstracted to what the relay can tell
apart: numbered updates and pings, sent only after the client has been asked or
`Ready` (`MaySend`), as sender and receiver do. **RelayChannelProofs**.

**RelayStore** — the map, joins, look-ups that serve a client, ageing, `close`
and the task that closes old sessions entry by entry. `close` looks a code up
and comes back to it after 100 ms; the task collects codes first and closes
them later: both are modelled in those steps. **RelayStoreProofs**.

**Reconnect** — the share again, with less detail in each transfer and with
connections that are lost and come back. Several calls of `send_files` are
*runs*, each with its own tasks, waiters and resume positions, tied to the
connection it was started on (`Cancelled`: that connection is gone). The two
links are the session's queues at the relay, which outlive connections:
`SenderLost` and `ReceiverLost` take along what was not yet at the relay,
`SenderBack` starts with a new confirm channel, `ReceiverBack` makes the relay
report `Ready` once more. A side is back after some two seconds, while the
relay's keep-alive needs up to thirty to notice the loss, so the handler of the
former connection may still be there. What it had not handed on when its side was
back is in `late[i]` (the sender's) or `lateReplies[i]` (the receiver's) and may
come in behind what the new connection sends, or not at all (`LateRequest`,
`LateReply`); and it may take from the session's queue what was meant for the new
connection (`SenderMisses`, `ReceiverMisses`). Two histories remember that: the
files of late requests (`mixed`, with 0 for `Done`) and whether a reply was taken
in this way (`missed`). The receiver keeps its open files and
unanswered questions, as `recv_files` and the interface do. A run that was
cancelled reports its error, or not, as its tasks end; an error ends the
sender's client (`ClientEnds`), as the CLI and the app do. Attempts and delays
are a choice between `SenderBack` and `GiveUp`. The confirm channel is taken to
be below its capacity of ten. What a message carries of its file's size and
name is left to Transfer. **ReconnectProofs** — types, consent, one call for each
connection; then what arrives, and the end.

**StartUp** — before the share: `start` is how far `FlashCatSender::start` has
come, `server` the relay it runs itself, `session` what each relay knows of the
share, `channel` the sender's two `relay_channel` tasks and `shut` the signals
that end them (latches, as Shutdown shows: a signal given before its task exists
still counts). A receiver goes from `discover` over `join`, and with `--lan`
`probe`, to `channel`, where the relay reports `Ready` to the sender
(`ready[x]`). `Ready` gives the other relay's signal and asks the receiver;
`Stop` is the loop that sees its own signal and closes the session. The client's
part is in `StartFails`, `Exit`, `OtherClose` and `Quit`. The messages of a
client's own stream wait until `start` has returned, hence the guard
`start = "on"`. Sender and receivers are command-line clients. **StartUpProofs**.

**FileTree** — from the paths the user gives to the receiver's output directory.
A given path is a directory and a last name, which may be `.` or `..`
(`Resolve`); an archive is sent in place of its directory (`Sent`). `tree` is
the sender's file system as a function from paths (sequences of names) to kinds,
`out` the receiver's, where each file holds the set of entries written to it.
`PathsExist` and `PathMissing` are `FlashCatSender::new`; an archive task goes
from `check` over `create` to `write`, so that another task may create the same
file in between, and may fail in each (`ZipFails`, which leaves part of an archive);
`ZipFailed` is the loop that awaits the tasks in order, after which the others go on;
`Collect` makes the list of entries (`Entries`, from a walk that follows links;
`ZipWrite`'s walk does not); `Shutdown` is `clean_zip_files`. At the receiver
there is one action per way a `NewFileRequest` can go: `MakeDir`, `CreateFile`,
`Ask` (then `Overwrite` or `Keep`), `RequestFails`. `Split` is what `reset_path`
makes of a name with a backslash; a path without such a name and without `.` is
taken as it is (`Plain`). `Distinct`, `Wanted`, `Place` and `Packable` are what
a user may expect, and speak of the share only. **FileTreeProofs** — an
invariant each for the archives, the list and the output directory.

**ReceiveView** — the app's receive view: `view`, `current` and `note` are
`receive_state`, `flash_cat_receiver` and `notification`. Each click on the
button starts a *run*, a receiver in its own `thread`; what it tells goes through
`told[r]` to its listener, which changes the one view there is. Its actions are
the clicks (`Receive`, `CancelReceive`, `ResetReceive`, `Answer`, `RefuseShare`,
`LeaveDone`), the receiver as far as it can be told from the view (`Asks`,
`OfferNew`, `OfferExisting`, `OfferBreakPoint`, `AllDone`, `Other`,
`TakeAnswer`), and the listener's branches (`Show`). A receiver tells these in any
order and as often as it likes: every `Ready` of its channel (`relay/src/grpc.rs:151`)
has the sender ask for consent again (`core/src/sender.rs:504`), also while a
`send_files` runs, and one that starts again offers its files again. `waits` is what
the receiver the view holds still needs an answer to. The thread is taken to begin
with the click.

**SendView** — the send view in the same way: choosing files with a dialog that
does not block, collecting in the background, sharing, cancelling, the listener
(`Hear`).

**Settings** — a change of the state in memory, a clone of it, and its save in
two steps (`Truncate`, `Write`). Settings are known by the number of the change
that made them; `Mixed` is a file that is neither state. **App** puts the three
side by side, as on the app's main thread, and adds `Restart`.
**AppProofs** — an invariant for each of the three, which have no variable in
common.

**Update** — `at` is the file each name leads to, `pc` the next step of each
update; as on Unix a renamed or removed file stays what it is for its process.
`Stops` ends an update at any step; `Begin` starts one from any old binary left.
**UpdateProofs** — its invariant and proof.

Composition. RelayChannel's properties are what Transfer assumes of its links;
RelayStore's `Attach` is where RelayChannel's `Open` begins, and the `terminated`
of RelayChannel is the `shut` of RelayStore, which is why a session may be shut
down there at any time. FileTree's entries are Transfer's files: FileTree lets at
most `MaxConcurrent` of them be under way and leaves to Transfer how their
content travels. The receivers and senders of App tell what those of Transfer do.

## 4. The runs

| run | instance | shows |
|---|---|---|
| `transfer_safety` | 3 entries (one may exist as a breakpoint or as a longer file, one is new, one is an empty directory), 2 tasks at a time, links of 2 messages, confirm channel of 1 | the type invariant, `NoUnknownFile`, `OneTurn`, `FinishedContent`, `LoopBlockedByLateAnswers`, `DoneMeansSettled`, `ConsentedWrites` and the refinement of FileCopy, through all failures |
| `transfer_live` | an existing file and 2 new ones, 2 permits, links of 1 | `SendFilesEnds`, `AcceptedCompletes`, `OpenFilesBounded` |
| `start_up` | 2 receivers, one with `--lan`; the broadcast is on | `AskedIsKept`, `HeardIsFound`, `OtherIsShut`, `JoinedIsAnswered`, through a start that fails at any point, connections that cannot be established, foreign packets, users who leave |
| `shutdown` | 2 calls, 3 waits | `NoMissedWakeup`; refinement of Latch with its liveness |
| `relay_channel` | a sender and two connections of the receiver's side, the first of which may be gone; queues of 2, three updates against one, pings, an expiry, a `close` | `InOrder`, `NoGap`, `Delivered`, `ShutEndsHandlers`, `CloseEnds` |
| `relay_store` | 2 codes, 2 sessions, 1 `close` | `FoundIsOpen`, `ShutForAReason`, `LostIsShut`, `DesertedIsShut` |
| `reconnect` | 2 files (one ends in a zero chunk, so that it looks like a breakpoint once it is finished; one is empty), one at a time, one lost connection of either side and what its handler still does, 2 calls of `send_files`, links of 1 | `FinishedStaysSource`, `ReceivedIsPrefix`, `OneStream`, `DoneIsComplete` as long as the receiver keeps its connection; `NothingBeforeConsent` |
| `reconnect_live` | one file; the sender loses its connection twice, 3 calls of `send_files` | `ResumedCompletes` |
| `file_tree` | 1 to 3 paths of a tree with an empty, a linked and an unreadable directory, files of one name, paths that end in `.` and `..`, the working directory itself, a backslash in a name, an archive's name that is taken, or is that of another file of the share; plain and zipped; a fresh output directory and two occupied ones; 2 tasks at a time | `ArrivesWhole`, `OnlyOldInTheWay`, `ArchivesAreSound` |
| `app` | 2 receivers, 1 existing file and any number of new ones; 2 senders, 2 changes of the settings; 1 message in a channel before the next is told | `OwnAnswer`, `NoQuestionLost`, `SharesAreHeld`, `SettingsKept` |
| `update` | 3 updates | `BinaryKept` |
| `receiver_back_corrupts` | one file; a returning receiver | the disagreement of section 7, as a counterexample |

Why these bounds are enough to be interesting. Two tasks at a time are the least
that can take each other's confirms; the third entry makes one task take the
permit of another. Links and channels of one or two messages are full almost
always, which is when the waits of the code happen; a larger capacity adds
states in which nothing waits. A file of two chunks has a first, a last and a
middle position, and the old contents are the three cases the receiver tells
apart: none, a breakpoint, anything else (longer, so that a tail can survive).
In `transfer_live` the receiver answers for two files by itself and its user for
one, so that each side can wait for room in the other's link: with the loop of a
cancelled sender gone, both links stay full until the stream is dropped. The run
fails as soon as `HangUp` is taken out.
Two waits and two calls show every overlap of a call with a check, and the third wait
tells `notify_waiters` from `notify_one`. In the relay a second connection of a side is
what a queue can be shared by, and three updates overfill a queue of two. There a second
connection comes without a `close`, pings and an expiry, and an expiry without pings
(`MCOneAtATime`): each begins with an action that is not assumed fair, so that nothing
but their combinations is cut. A `close` is combined with pings, which have no end, and
with a client that leaves. In the store a second session can take the code of the first,
and a second code shows that shares do not touch each other. A sender that loses its
connection once gives every overlap of an old and a new `send_files`, and twice
(`reconnect_live`) the case that a call which was itself a resumption is interrupted;
losses of the sender are explored from the moment the first one has started (`EarlyLoss`
is `FALSE`, see section 7). What holds in `reconnect` holds under conditions its
properties name, because the code keeps it only under these: the receiver's connection
stays, the user refuses no file, and what arrives late from a lost connection is of
another file. A refusal after a return may meet data that is already under way, since
the question is asked a second time and the first answer counts for both.
`reconnect_live` does not follow a behaviour in which the handler of a lost connection
interfered (`MCUndisturbed`): the property excludes it, the histories that say so never
change back, and no action that is assumed fair sets them, so nothing else is cut. Two
receivers are the least that can come in over different relays, and one with `--lan`
shows all three ways to the sender's relay. In `file_tree` each oddity of a tree is
there once, and two directories are the least whose archives or files can meet; a
directory that holds the working directory is the one kind in which an archive can come
across another, or itself. In `app` two runs of a view show what the first one's late
messages do to the second; a channel of one message is the least in which a message can
be late. One existing file is enough for a second question, since the share is asked
about as well and both are asked about again; how often is not bounded. A behaviour is
followed until a message of a run the view had let go has changed the view (`Followed`),
because no property speaks of what comes after. The views and the settings share nothing
but the main thread, so one side rests while the other is followed (`MCOneSide`).
Symmetry is sound: all four properties are invariants. In `update` the third update
begins from what two others have left. With queues of one message the two directions of
RelayChannel do block each other: sender and receiver rely on the receiver sending far
less than a queue holds, and `Delivered` is checked with that proportion (the code's
queues hold 256 messages).

`CHECK_DEADLOCK FALSE` stands in the configurations of the relay, of Reconnect,
StartUp, FileTree, App and Update: a relay without clients has nothing to do, a
sender whose client has ended or given up stays so, a share that is over and an
update that ended are over, and the app's runs and changes are finitely many. In
Transfer and Shutdown deadlock is checked, and the action that allows stopping
(`Terminated`, `Finished`) names the ends.

## 5. Fairness

The tokio runtime polls every task that can go on, and a timer that was set fires:
weak fairness for each loop, each task, each call that has begun, the confirm
time-out and the sweeper. In Transfer the link of a loop that was cancelled goes
down: the loop's stream is dropped when it returns. A `select!` picks among its
ready branches at random, so none of the branches of `handle_streaming` starves
another. Only a client's pings have no end and could do that, so strong fairness is
assumed where they come in: for taking an update and for leaving at the session's
shutdown (`TakeUpdate`, `Exit`) on a connection that pings. Nothing is
assumed of users, of failures, of a client that leaves, or of `select!` dropping a
wait. In RelayChannel a client that is there reads what it was sent, and the relay's
keep-alive notices one that is gone. `ShutEndsHandlers` and
`CloseEnds` need no client that stays: they name the one case the code does not get
out of, a full queue without a reader.

`ResumedCompletes` assumes that the sender's loop, when it does not give up, gets
a connection again, that the user answers, and nothing about `GiveUp`, losses or
the handlers of lost connections.
In StartUp the start, the two connections, the local relay and each receiver go
on; that a connection can be established is assumed only while its relay answers
and knows the share, and otherwise that the attempt fails. A close that has begun
is assumed to reach its relay, although the client's process ends 200 ms after
its signal (`cli/src/main.rs:156`). FileTree, App and Update have no liveness
properties: what follows there depends on users.

## 6. What is proved

For all values of the constants (any number of files, tasks, contents,
capacities, sessions, callers, waits), with the named assumptions of each module
and nothing else:

* `TransferProofs!Typing`: `TypeOK` of Transfer. It carries facts that are more
  than types: a `FileData` names a chunk the source has, a file that is open
  exists, `acquire` has a file to start.
* `TransferProofs!Turns` and `FilesFound`: `OneTurn` and `NoUnknownFile`.
  Neither is inductive by itself. The invariant is `TurnInv`: `TypeOK`, a file
  not yet reached has no task (`Unspawned`), the receiver has not met an unknown
  file, and `OneTurn`. `OneTurn` is itself the strengthening of `NoUnknownFile`:
  for each file it says which of request, question, confirm and stream is under
  way, that the others are not, and that whatever permits streaming leaves the
  file open. The proof first shows, for each way a message enters or leaves a
  queue, what it leaves unchanged for *other* files (the `Quiet` lemmas), so that
  each action needs an argument for its own file only.
* `TransferProofs!WritesAreConsented`: `ConsentedWrites`. The receiver writes
  `FileData` without looking at what the user said; what protects a file is that
  nobody sends any. So the invariant (`ConsentInv`) follows the consent to the
  sender and back: as long as something lets the sender stream an existing file —
  a confirm on the link, in the channel or in the task's hand, a streaming task,
  content under way (`Granted`) — the user chose to have it written; and a
  finished file's task has ended and left nothing on the link (`FileConsent`).
  That a refused share is not written to needs the same of the share
  (`ShareTurn`): its request, question and confirm take turns, and no task exists
  until it is accepted. It stands on `TurnInv`, which says where a confirm can be.
* `TransferProofs!CopiesKeepTheirPlace`, `FinishedIsCopied` and `TransferCopies`:
  `FinishedContent`, and every step of Transfer is one of FileCopy. Both stand on
  `CopyInv`, which adds to `ConsentInv` for each file what is true while it is
  being copied: while the receiver runs, the link carries the chunks behind the
  receiver's position in order, none missing before the task's position and none
  twice, and a `BreakPoint` before all of them (`Carried`); a confirm under way
  says what the receiver chose, and from where (`Confirms`); the disk has the
  sender's chunks up to the position, and what was kept under and behind them
  (`Copied`). The chunks under way are described by their numbers and places in
  the link, never by what a fold over it yields, so that sending is an append,
  receiving a tail and a loss a prefix, each with a lemma of its own.
* `TransferProofs!DoneIsSettled`: `DoneMeansSettled`. `EndInv` follows the end
  through both loops: a task that is over has settled its file, or its `FileDone`
  is still under way; a `Done` on the link is behind every such `FileDone`; and
  once `Done` has arrived on either side every file is settled (`FileEnd`).
* `TransferProofs!FewFilesAreOpen` and `OnlyLateAnswersBlock`: `OpenFilesBounded`
  and `LoopBlockedByLateAnswers`. `OpenFilesBounded` speaks of what is open now,
  and a handler may open a file only later, or lose the message that closes one.
  So `BoundInv` speaks of the files that are open after any number of the
  messages on the link have been handled (`OpenFew`), and that permits and running
  tasks add up to `MaxConcurrent` (`PermitsTaken`). For the confirm channel it
  says that the dispatcher stops only when all tasks are over
  (`DispatcherStopped`): the confirms in a full channel are then of distinct tasks
  that gave up, which is counted.
* `ReconnectProofs!Typing`, `NothingUnasked`, `OneCallStreams`, `OpenIsPrefix`,
  `FinishedStays` and `DoneSettles`: `NothingBeforeConsent`, `OneStream`,
  `ReceivedIsPrefix`, `FinishedStaysSource` and `DoneIsComplete`, for any number of
  lost connections and calls. All but the first assume `~EarlyLoss`: the sender
  loses no connection before its `send_files` has started on it. The code does not
  keep the properties otherwise (section 7), and `reconnect` explores the same
  behaviours. What handlers of lost connections hand on late is not left out: the
  properties are about the files of which nothing came late, and the proof shows
  that what is late of one file does not disturb another (`LateCalm`; a file is
  `Spoilt` when the user refused it or something of it came late). Before consent
  the invariant (`ConsentInv`) is that nothing under way leads to a write
  (`Untouched`). After it the ground is that a connection has one call (`OneCall`):
  of `Ready`, the request, the question, its answer, the resume request and the
  resume state at most one is under way, and none once a call has begun on the
  connection. So the link carries the messages of one call at a time, the request
  for the next one behind those of the cancelled ones (`Fresh`). `CopyInv` says what
  Transfer's says (`Carried`: the chunks in order from a position, none missing and
  none twice) without knowing how far the disk is: every position that a question, a
  confirm, a `BreakPoint` or a resume state names has been reached on the disk
  (`Known`), and what is on the disk is the sender's (`OnDisk`), so that a second
  copy writes what was there. For the end (`EndInv`), a live call has a `FileDone`
  under way, or had it received, for each task that ended well, its `Done` is behind
  them, and a share that was rejected is not begun (`Decided`).
* `StartUpProofs!NobodySleeps` and `SignalIsLatch`: `NoMissedWakeup`, and the
  safety part of Latch by refinement. The invariant (`SignalInv`) says that the
  flag is set before any call is counted (`FlagFirst`), and that a wait that
  could still fall asleep was created before the count moved or will see the
  flag (`Early`).
* `RelayStoreProofs!FoundStaysOpen`: `FoundIsOpen`. The invariant says that a
  stored session was created for its code and not shut down (`Stored`), and that
  what a close or the sweeper holds in hand can no longer be found (`Removed`),
  so that the step in between does no harm. `StoreTyping` is its type part.
* `RelayStoreProofs!NoShareEndsAnother`: `ShutForAReason`. A `close` shuts what it
  removed 100 ms after it looked the code up, and the sweeper removes what is under
  a code by then. `Reasons` says for each step in between that the reason is there
  before the signal: what a close holds has its code, and under a code the sweeper
  collected is the session it saw, or the code was closed since.
* `RelayChannelProofs!UpdatesKeepTheirWay`, `UpdatesArriveInOrder` and
  `NothingIsSkipped`: `InOrder` and `NoGap`, for any number of connections of a
  side. The invariant (`RouteInv`) names the five places an update passes from
  one client's stream to the other client: at each place they are in order and
  before those of the place behind it (`OrderInv`), no two connections take the
  same one (`OnceInv`), and a connection that is alone has taken the first ones
  while all others are still coming (`WholeInv`).
* `StartUpProofs!ChosenRelayStays` and `BroadcastLeadsToShare`: `AskedIsKept` and
  `HeardIsFound`. The invariant (`MeetInv`) says that a signal, a closed session
  and a stopped local relay have a reason, the end of the share or a receiver at
  the other relay (`EndsHaveReason`), that a receiver is announced only where it
  went (`AnnouncedOnRoute`), and that an address is made known only after the
  share is there (`HeardAfterStart`).
* `AppProofs!SettingsAreKept`, `SharesStayHeld`, `AnswersAreOwn` and
  `QuestionsAreAnswerable`: the app's four properties. The settings' invariant is
  that, until saves overlap, the only save there can be is of the state in memory
  (`OneSave`). The send view's is that the sender it holds is heard only while it
  is on view (`OnView`). The receive view's is that questions are shown only from
  the receiver it holds, and one about a file is told right behind its file and shown
  only while files come in (`Orderly`), so that the files that follow leave it there;
  and that a question waited for is on display, told or answered (`NoLoss`). Events
  of a run that was let go (`stale`) end the first; what is shown on top of a question,
  or a file that comes while the share is asked about (`covered`), the second.
* `UpdateProofs!BinaryStays`: `BinaryKept`, for any number of updates. It says
  nothing of what a running update has in hand, so it is not inductive. The
  invariant (`UpdateInv`) adds, while no two updates have run at once: at most
  one runs (`OneRuns`), the client's name and its backup never lead to an
  unfinished file (`Placed`), and by its next step, what that update has
  unpacked, written and moved (`Stage`). Each action then needs an argument for
  its own update only (`StepKeeps`), and a step that moves no file none about the
  files (`FilesStay`).

* `FileTreeProofs!ArchivesStaySound`, `OthersNeverInTheWay` and `SharesArriveWhole`:
  `ArchivesAreSound`, `OnlyOldInTheWay` and `ArrivesWhole`, for any finite tree, any
  given paths and any number of tasks. No property of FileTree holds by looking at one
  step, so the invariant follows a share. While archive tasks run, the sender's tree
  is the user's and the archives (`ArchiveInv`): a task that is about to create its
  archive has seen no file of the user's there, and none can have appeared; what it
  then reads below its directory are the user's files alone, unless that directory
  holds the working directory, because an archive lies right below the working
  directory (`PrefixOfLonger`). From such a tree the list is made (`ListInv`): with
  distinct names the receiver takes every path as it is, and no path is a prefix of
  another, since below one given path that would need something below a file or below
  an empty directory, and below two it would need one name twice (`EntriesApart`);
  without archives the list is what can be read, no more and no less
  (`EntriesAreWanted`). At the receiver (`OutInv`) it follows that a requested entry
  has its place for itself, and that what is new lies on the way to one of them, so
  that whatever a request finds in its way was there before. The facts about paths
  that all of this needs, on prefixes and on the end of a path, are lemmas of their
  own.

The assumptions are of three kinds: the sizes are what the code's constants are (a
semaphore, a queue, a channel hold at least one); the model's placeholders
are no value they stand beside (`NoFile` no content, `NoConn` no connection, `None`
no receiver, `NoSender` no sender); and in FileTree a tree is finite and holds, as
directories, what its paths lie below, `.` and `..` name nothing in it, the
working directory is one of its directories, and `.zip` brings no backslash into a
name. What the output directory held before is a tree of files and directories.

Only model-checked: liveness (it needs fairness and ENABLED, which the prover
does not reason about): `SendFilesEnds`, `AcceptedCompletes`, `OtherIsShut`,
`JoinedIsAnswered`, Latch's, `Delivered`, `ShutEndsHandlers`, `CloseEnds`,
`LostIsShut`, `DesertedIsShut` and `ResumedCompletes`. Nothing is proved of what
`Normal` makes of a path that is not plain: it is a fold over the path, and the
theorems about FileTree are about names without backslashes (`Distinct`); TLC
explores the others.
What `missing_chunks` computes for every file needs induction over its loop,
which the prover's library theorems do not give; Contents states its result in
closed form instead.

## 7. Where the code and its texts disagree

*A receiver that comes back corrupts its file* (`receiver_back_corrupts`). Only
the sender asks for a resume state; when the receiver's connection is lost
the sender streams on, the relay's handler of that connection takes chunks
that go nowhere, and the later ones are written where these belonged. The
file is reported finished. The `Ready` of the second connection
(`relay/src/grpc.rs:151`) also leads to a second question and, when it is
accepted, to a second `send_files` beside the first.

What else was met while modelling, and has no run of its own. Where a property
holds only outside of such a case, it names the case.

*Transfer.*
* Overwriting writes the sender's file over the old one without cutting it, so a
  longer old file keeps its end (`core/src/receiver.rs:525`); `FinishedContent`
  says so.
* A breakpoint is looked for only in a file as long as the sender's
  (`core/src/receiver.rs:528`), while a new file grows chunk by chunk: an
  interrupted file is not offered for resumption later.
* `send_files` sends `Done` after a cancelled loop too (`core/src/sender.rs:730`),
  and the receiver reports `ReceiveDone` with files missing, which is why
  `DoneMeansSettled` excludes a cancelled call.
* More than ten answers that come after their time-out block the sender's main
  loop once the dispatcher has ended (`core/src/sender.rs:569`);
  `LoopBlockedByLateAnswers` says that nothing else does.
* A failed flush of the writer counts as a finished file (`core/src/receiver.rs:814`).

*Relay and reconnection.*
* `channel` broadcasts `Ready` to the client's own bounded queue before the
  handler that drains it is spawned (`relay/src/grpc.rs:151`): a client that comes
  back to a full queue waits for itself, and does not see the session's shutdown.
* A sender that comes back before the relay has noticed corrupts a file. It is back
  after some two seconds (`core/src/lib.rs:131`); the relay's handler of the lost
  connection stays up to thirty (`relay/src/listen.rs:19`) and hands on what it still
  holds (`relay/src/grpc.rs:252`). Such a chunk arrives behind the `ResumeRequest` and
  is written where the resumed data was to go on; such a request opens the file again.
  The file is reported finished (`mixed` names the case; with the configuration of
  `receiver_back_corrupts` and a sender that is lost instead, TLC finds it).
* The answer to a returning sender can go astray. The handler of the lost connection
  takes from the same queue (`relay/src/grpc.rs:212`) and waits there first: when it
  takes the `ResumeState`, which nobody asks for again, `send_files` is never started
  and the share stands still (`missed` names the case).
* With `EarlyLoss`, a sender that loses its connection while the receiver's user
  is still asked whether to accept comes back with a `ResumeRequest`, which is
  answered with an empty `ResumeState`, which starts `send_files`: new files are
  written before the user has agreed (`NothingBeforeConsent` fails), and a
  `ShareConfirm` that was under way starts a second call on the same connection
  (`OneStream` fails).
* `ResumeState` never says that a file is `completed`, though the message has a
  field for it (`common/proto/relay.proto:204`) and `send_files` looks at it
  (`core/src/sender.rs:671`): finished files are offered again.

*Start-up.* Two receivers that come in over different relays each make the sender
shut the other's connection, and both are told that the share is over
(`AskedIsKept` names the case). A receiver whose sender could not establish its
own channel at the public relay waits until the session expires
(`JoinedIsAnswered` names it).

*Files.*
* The walk into an archive does not follow linked directories, while the plain
  collection does: what a link leads to is shared only without zip.
* A zip task that fails ends the start while the archives of the others stay; the
  next start finds them and fails ("already exist"). Archives of one name stop
  the clean-up at the second. An archive of the working directory, or of one
  above it, includes itself and what other tasks have made by then.
* A given path that ends in `..`, and a `.` that is an empty directory, are accepted
  by the sender and refused by the receiver; a backslash in a name becomes a directory
  there (`Distinct` names these).
* The archive of a directory `a` and a file `a.zip` from elsewhere are sent under one
  name: with zip, `Distinct` compares the names of archives. The receiver's user is
  then asked about an entry of the share itself.

*App.*
* An error of a receiver's or a sender's start is told to nobody: the view shows
  that it connects for ever. The error a receiver tells leaves it unshut, and a
  finished share is let go without its shutdown.
* A `BreakPoint` question is never put to the user: the file waits its 300 s and
  is skipped (`OfferBreakPoint`).
* A second question, or a message, hides a question that is open (`covered`).
* Every `Ready` has the sender ask about the share again, and the view asks its user
  again; when a `send_files` is running by then, its next file takes that question off
  the display, unanswered (`app/src/views/receive.rs:283`). `NoQuestionLost` counts
  this as `covered` too, and says that no file does so to a question about a file.
* Events of a cancelled run change the view, and answers then go to the receiver
  the view holds by that time (`stale`, `overrun`).
* Removing the last file while files are collected leaves a share whose cancel
  button is disabled; the result of a dialog opened before allows a second share
  beside the first (`late`).
* Saves that overlap, or a quit within one, can lose settings (`spoilt`).

*Command line.* The question is a blocking read (`cli/src/receive.rs:72`), so
Ctrl-C is served only after the answer, and a refusal races with the shutdown
right after it (`cli/src/receive.rs:78`). An update rolls nothing back: one that
stops between its two renames leaves no binary under the client's name, two at
once may install half of one (`overlapped`), and one that runs from the backup
deletes it on its way.

## 8. What is not modelled

Of the modelled parts: message texts, sizes and progress reports; encryption
and its errors (an error exit like any other); file names (an entry of Transfer is
its id); times, except that a time-out may happen whenever it is armed. A
`RecvFile`'s writer task is a step of the handler that feeds it: handler and task
hand over one chunk at a time; its failed flush is therefore not seen. In
RelayChannel the number of connections of a side, and in RelayStore of sessions,
is a constant. FileTree leaves out Ctrl-C while archives are written, questions
that time out, how an archive grows that includes itself, and absolute paths, which the
receiver refuses like `..`; sizes and modes of files are not in it. Update is the
branch for Unix; whether there is a newer version is a constant, the download one
step. The app's task is taken to begin with the click that starts it.

Not modelled yet: a share at a specified relay, the command-line client's
blocking question (section 2). Not planned: progress bars, layout, assets and
translations (nothing reads them back), logging and formatting, the encryption
primitives (pure functions over bytes), `unzip` and `pick_up_folder` (without a
caller), and the build and release files.
