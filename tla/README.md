# Verification of handwritten-projects

The repository is a collection of re-implementations of known programs, in Go, Rust, C and Python. This directory
holds TLA+ models of the parts with logic worth checking, the TLC runs that check them on small instances, and
theorems about them proved with TLAPS. Paths below are relative to `src/`. PROJECT.json maps every definition to the
lines it translates.

## 1. Inventory

| part | code | state | interactions | what is hard |
|---|---|---|---|---|
| unbounded channel | `Go/handwritten_eino/internal/channel.go` | buffer, closed flag, waiters of a `sync.Cond` | goroutines share it; `adk` wraps it | lost wakeups, Close against waiting receivers |
| streams | `Go/handwritten_eino/schema/stream.go` (Pipe, send/recv, closeSend/closeRecv) | two Go channels, `closedFlag` | one writer, one reader, a finalizer that may close | a late send, a close done twice, a blocked writer |
| forwarder | same file, `toStream` | a goroutine between a reader and a stream | pulls from any reader | a panic in the source, the receiver leaving |
| copies | same file, `parentStreamReader`, `childStreamReader` | a linked list of once-filled elements, `closedNum` | children run concurrently without a lock | who reads the source, who closes it, a panic inside `sync.Once` |
| merged readers | same file, `multiStreamReader`; `schema/select.go` | list of live streams, select cases | producers, one reader | two select implementations that must agree; removal of ended streams |
| tools node | `Go/handwritten_eino/compose/tool_node.go`, `interrupt.go`, `internal/core/*.go` | tasks, saved results, addresses and resume information in a context | tools run in goroutines; a node interrupts and is run again | which results are saved, which tools run again, who gets which state |
| goroutine pools | `Go/handwritten-conc/pool`, `waitgroup.go`, `panics` | limiter tokens, tasks channel, wait group, recovered panic, results | callers of Go, workers, Wait | panics that leak a token or a goroutine, cancellation against errors, order of results |
| conc streams and iterators | `Go/handwritten-conc/stream`, `iter` | queue of one-slot channels that are used again; shared atomic index | workers and a callback goroutine | order of callbacks behind panics, a worker lost to a panic |
| claw sessions | `Rust/handwritten-claw-code/rust/crates/runtime/src/session.rs`, `session_control.rs`, `compact.rs`; resume commands of `rusty-claude-cli/src/main.rs` | session file, rotated archives, backups on disk; the session in memory | several processes on one directory, no lock | a kill between two system calls, rotation, two writers, compaction that separates a tool call from its result |
| claw texts | `runtime/src/json.rs`, `session.rs` (records), `config.rs`, `config_validate.rs`, `compact.rs` (summaries), `prompt.rs`, `git_context.rs` | files that users edit, git outputs | read by every command | a file with one line damaged; a summary made of a summary; a budget shared by files |
| claw command line | `rusty-claude-cli/src/main.rs` | the words, variables and settings | starts everything else | a flag that takes the next word, order and repetition of flags |
| claw MCP server | `runtime/src/mcp_server.rs` | the input read so far | a client on the other end of a pipe | a length that is wrong, a client killed in a frame |
| claw skills and agents | `commands/src/lib.rs` | directories of definitions, the registry | several processes install | one directory found twice, names that differ in case, two installs of one name, a crash in one |
| ffplay | `C/ffplay.c` | packet queues, frame queues, serials, clocks, abort flags | read thread, decoder threads, audio callback, video refresh and event loop | stale frames after a seek, EOF and drain, abort while waiting |
| timing wheel | `Go/handwritten-timingwheel/delayqueue` | heap, sleeping flag, wakeup channel | pollers and offerers | lost wakeup (unreachable at present, see section 7) |
| mem0 | `Python/…mem0` | SQLite history | single caller | nothing reachable: the constructor raises |
| eino graph, callbacks, messages, components; frp; projects that are only described | see PROJECT.json | | | stubs, interfaces, conversions |

Correctness, part by part, as the runs state it:

- **channel**: every buffered value has a receiver on its way to it if any receiver sleeps; FIFO, exactly once; nobody
  sleeps on a closed channel.
- **stream and forwarder**: EOF means everything was seen; every end is closed once; nothing is accepted for a
  receiver that had left; the forwarder stops with its receiver; nobody hangs.
- **copies**: each copy is given the outcomes of the source themselves, in order; one user of the source at a time;
  the source is closed once, with the last copy.
- **merge**: no live stream is forgotten; the end of a stream is reported once and after its items.
- **tools**: an interrupt accounts for every call; a saved result is never computed again; a tool is handed the state
  of its own last call and no other, and all of it when the points are named by address.
- **pools**: the limit holds, every task runs once, the first error is no consequence of another, results are ordered, Wait ends.
- **sessions**: a file holds the whole conversation, in full or summarised, but for what a second compaction loses
  behind an empty line; the latest session is the one saved last, a cleared session is in its backup.
- **texts**: the parser accepts JSON and nothing else and reads back what is written; a damaged session file is
  refused or read with every message; a diagnostic names the line of the key, unless the same key stands further up in
  another object, and the nearest name, if one is near; what a compaction loses is only behind an empty line; a prompt
  shows every instruction file or says that it does not, and all work that is not committed but the two diffs, which
  show only together.
- **command line, server, skills**: the permission mode is the one asked for last; every frame is answered once and
  in order; a resume with several commands is that many resumes; every definition is listed once and one of a name is
  active; an installed skill stays whole, under a name that is one directory and stays what it is.
- **ffplay**: at most one frame of each stream from before a flush is shown after it; the end is found only when
  everything was taken to be shown, and of that at most the frame in the audio callback's hands is lost; a player that
  is left alone plays to its end, and closing it wakes every thread.

## 2. Plan

Stage 1 (done): the channel, the streams (stream, forwarder, copies, merge), the tools node, the pools, the session
store and the player; proofs for the channel and the stream.

Stage 2 (done): what claw reads (`ClawText` over ClawJson, ClawRecords, ClawSummary, ClawConfig, ClawSuggest,
ClawPrompt) and what it is started with (`ClawMain` over ClawCli, ClawCommands, ClawStore, ClawMcp, ClawSkills,
ClawInstall), with the proof for ClawInstall in `ClawProofs`; `ConcStream`, composed with the result pool in
`ConcPools`; the merging of readers of every kind.

Stage 3 (done): the safety of ConcPool for both of its users, ConcResultPool and ConcStream; the forwarder on top of
the stream's invariant; the copies and their refinement of EinoBroadcast until a panic; the merged readers; the tools
node; the sessions; the player.

Stage 4 (done): ClawMain without RECURSIVE, and the properties of the command line, of resuming, of the MCP server and
of the names of skills proved about it.

Stage 5 (left): the listing of skills and agents; what of ClawText can be written without RECURSIVE.

Composition: `EinoForward` extends `EinoStream` (the goroutine is the writer); `EinoCopy` implements
`EinoBroadcast`; `ConcPools` puts `ConcResultPool` and `ConcStream` over one `ConcPool`; `ClawSession` extends
`ClawCompact`; `ClawStore` uses ClawCompact and ClawCommands; `ClawMain` and `ClawText` run the operators of their
parts on inputs that users and clients change step by step, `ClawMain` also the steps of ClawInstall; `FfPlayer`
composes the pipelines of `FfDecoder` with the other threads.

## 3. The modules and the code

**UnboundedChan** (`internal/channel.go`). Every method body runs under the mutex, so it is one step. `Receive` gives
the mutex up only in `Cond.Wait`; a receiver is `idle`, `parked` or `woken`. `Signal` wakes any one parked receiver,
`Broadcast` all. A woken receiver evaluates the loop condition again, and a receiver that never waited may be faster.
`sent` and `received` are history.

**EinoStream** (`stream[T]`). A Go channel operation is one step. `send` is two steps because it has two selects: the
first only looks at `closed`, the second waits for room or for `closed` and may choose either when both are ready.
`SendHandsOff` is Go's direct hand-over to a waiting receiver. `closeRecv` is the CAS of `closedFlag`
(`CloseRecvCAS`, only with automaticClose) and the close of the channel (`CloseRecvClose`), which panics if it was
closed.

**EinoForward** (`toStream`). The goroutine's loop and its three deferred calls, in the order in which Go runs them:
recover, closeSend, close of the source. The source is any reader: it returns an item, ends, panics or blocks. `pulled`
and `inVain` are history: what was taken from the source, and how much of it after the receiver had gone.

**EinoBroadcast, EinoCopy** (`Copy`). EinoBroadcast is the promise: a log of outcomes, the outcomes each copy has
delivered, the original closed with the last copy. EinoCopy has the list: `PeekLoad` reads the child's element,
`OnceFirst` enters `sync.Once`, `Fetch` is `p.sr.Recv()` followed by the assignments inside the Once, `Take` moves the
child on. `FetchPanic` leaves the Once done with a zero item and no next element. Close is the early return, the mark,
the atomic add and, for the last child, the close of the source. The refinement compares `log` and `got`, what the
children's Recv returned, as they are, and maps `open` to the children with a current element.

**EinoMerge** (`MergeStreamReaders`, `InternalMergeNamedStreamReaders`, `multiStreamReader`, `receiveN`). A reader to
be merged is a stream, an array, a merged reader with some streams left, or one that toStream wraps. The arrays of an
unnamed merge become one stream, and the result is an array reader when there is nothing else. `Dynamic` decides
between `reflect.Select` over `cases` and the written-out select over `nonClosed`. The shadowed `chosen` of the
reflective branch and the removal loop that goes on with the old length are modelled as written: `Chosen` is 1 in the
reflective branch, and `RemovalPanics` says when the loop leaves the slice.

**EinoTools** (`tool_node.go` with `interrupt.go` and `internal/core`). A run of the node: `Enter` (build tasks,
restore saved results), `StartTask`, `ToolReturns`/`ToolPanics`, `Wait`, `Collect` (messages, error or composite
interrupt; before those Invoke turns results into message parts, which may fail). `last` is history: how the tool of
each call ended last, and in which run. `Resume` does what a graph would do with the interrupt through the functions
of package core, because the graph itself is a stub; `Handovers` covers both ways of naming the points: by the
addresses that the next run will compute, or by those the interrupts were given, which the lookup never
matches (section 6). A result is the number of the run that produced it, which is what the properties compare.

**ConcPool, ConcResultPool, ConcStream, ConcPools** (`handwritten-conc`). ConcPool has Go (start a worker or hand the
task to one), the worker's loop, its deferred calls and Wait with the panic catcher. ConcResultPool adds what
ResultContextPool, ContextPool and ErrorPool wrap around a task: index, save, error, cancellation. A task may return,
fail, give up because the context is cancelled, or panic. The pool's context is derived from the caller's, so that it
is cancelled by an error, a panic or the caller (`cancelled` says by whom it was first). ConcStream adds the channel
of a task, queued before the task is submitted, the callbacker that receives from the channels in that order and puts
them back into the `sync.Pool`, and Wait, which closes the queue behind the pool. ConcPools is the library in use:
`use` says which of the two stands over the pool.

**ClawCompact, ClawSession**. ClawCompact is `compact_session`: which messages stay, which go into the summary, and
how a summary found in front is merged: `Tells` are the messages whose lines get into the summary, which at a merge
end at the first empty line. ClawSession has one step per system call that somebody else can notice (`Stat`, `Rotate`,
`Write` = rename of the temporary file, `ListArchives`, `RemoveArchive`), the commands `/compact` and `/clear
--confirm`, and `Talk` for a conversation that adds a message and saves. `End` may happen at any point: a process is
killed or finishes. Messages are records of their kind, of the conversation messages they stand for, and of those
among these that make an empty line (`gaps`).

**ClawJson, ClawRecords, ClawConfig, ClawSuggest, ClawSummary, ClawPrompt, ClawText**. Pure functions of the code are
operators over tokens: characters for json.rs, JSON values for the lines of a session file and for settings, words
and fixed lines for a summary, [kind, size, text] for an instruction file. `ClawText` holds one such input at a time
(`form`) and lets its user edit it: a line lost, repeated or damaged, a field removed or retyped, a message said, a
character of a key typed wrong, an instruction file written, a git command failing. The tokens of a settings file know
which object they are in, so that the same key in two objects is told apart; a prompt has the staged and the unstaged
diff as two outputs.

**ClawCli, ClawCommands, ClawStore, ClawMcp, ClawSkills, ClawMain**. `Cli!ParseArgs` is `parse_args`. Its loop is a
fold over the words (`Read`): a flag that takes a value leaves that it awaits one, and `Finish` is the end of the
words with what is still awaited. `Commands` is the table of slash commands and its help. `Store` has `latest`,
references, the check of the workspace and the commands of a resume (`RunAll`, one after the other until one of them
exits). A resume is a set of outcomes, because sessions that no order tells apart may be the latest. `Mcp!Serve` reads
a frame (`ReadFrame`) and answers it until the input ends or cannot be read. `Skills` has the roots, the loading, the
shadowing and the requests. `ClawMain` lets a user type words, a client write frames (one with a wrong length, the
last one cut), files appear, and characters form a name.

**ClawInstall**. `install_skill_into` with one step for each call to the file system: `Check`, `Create` (which does not
insist that the directory is new), `CopyFile`, `Cleanup` after a failure, `Report`; `Crash` anywhere. `alone` is
history: whether another process was busy with the same name.

**FfDecoder, FfPlayer** (`C/ffplay.c`). FfDecoder is the pipeline of one stream: `pq` is the PacketQueue, `dec` the
Decoder and its thread, `fq` the FrameQueue with its `keep_last` frame (`shown` is `rindex_shown`). A critical section
is a step; a thread in `SDL_CondWait` is `parkedPkt`, `parkedFrm` or `waiting` until it is signalled. The codec is
external and holds the last frame back until it is drained. FfPlayer has the other threads. `rd` is `read_thread`,
whose loop is cut where somebody else may come in between: head and seek, one flush per queue, the queue check, each
test of the check for the end (`check` reads `finished`, `count` the frames of the stream in front of `todo`), the
read, each put. A read may fail for good (`ReadError`) or be tried again (`ReadRetry`). `mt` is the main thread:
`video_refresh`, the keys, the steps of `stream_component_close` (abort, signal, join, flush, detach) and of
`stream_component_open`, which may fail before and behind the clearing of `eof` (`OpenFails`) and leaves the stream
closed then, and the exit. `last` is `last_audio_stream`, from which the next switch goes on. `audio` is SDL's
callback. Flags in `VideoState` have no lock, so a test and the assignment after it (`paused`, the serials) are
separate steps. Every packet carries the number of the seek it was read after; that history, and not the serials the
code compares, tells a stale frame. The history `lost` counts the frames that were thrown away of a stream in which
the check had found everything taken.

## 4. The runs

| run | instance | shows |
|---|---|---|
| `chan` | 2 senders, 3 receivers, 2 values, 3 sends | NoLostWakeup, FifoExactlyOnce, CloseReleasesReceivers |
| `stream` | buffer of 1, 3 items one of them the panic error, 2 closers with automaticClose | the forwarder and its stream: EOFIsComplete, StopsWithReceiver, LateSendRejected, NoDoubleClose, NobodyHangs |
| `copy` | 3 children, 2 outcomes of 2 values before EOF, panics | OneSourceUser, ClosedUnlessPanic, RecvReturns, and that the list implements EinoBroadcast until a panic |
| `merge` | 1 to 3 readers of every kind giving up to 3 streams, select limit 2, 2 items each, named or not | EndsAfterLastItem, RecvEnds |
| `merge_panics` | 1 or 2 streams | finding: recv panics |
| `tools` | 3 calls, 3 runs, both entry points, sequential and parallel | ResumeKeepsResults, InterruptAccountsForAll, ResumeReachesTool, ReturnsWhenAllDone |
| `tools_invoke` | 3 calls, 2 runs of Invoke | finding: saved tools run again |
| `pools` | 3 tasks, limit 2, results with all option combinations and a caller that may cancel, or callbacks | LimitRespected, AllRunOnce, FirstErrorIsCause, ResultsInOrder, CallbacksInOrder, PoolTerminates |
| `claw` | 2 processes, 3 starts, 2 commands, conversations of up to 5 messages, 1 archive kept | ConversationWhole, LatestIsCurrent, ClearKeepsBackup |
| `claw_text` | 2 edits of 3 JSON texts, 3 session files, 2 settings files, a conversation, a key typed up to 5 edits away from a name, a project | JsonFaithful, RecordsFaithful, DiagnosticsFaithful, NothingLostSilently, PromptWhole |
| `claw_main` | 4 words of 12, 3 frames of 7 requests, 3 session files or commands, 3 definitions, 4 characters; 2 processes, 3 sources of 2 names, 3 installs | ModeAsAsked, AnsweredInOrder, ResumeFaithful, DefinitionsWhole (with NameStable), InstalledWhole |
| `player` | audio and video, 3 packets, two loops, one event (seek, pause, step, an audio switch that may fail, a read error that is tried again), and quit | StaleAtMostOnce, EndIsComplete, PlayerSettles |

What a type invariant would say is proved for the modules with proofs and is not repeated by a run.

### Bounds

- `chan`: a lost wakeup needs one parked and one running receiver besides the one notified; three receivers give all
  of them at once. Two values are enough to see an exchange of order. The theorems remove the bounds.
- `stream`: with capacity 1 the writer is seen both buffering and blocked, and a third item meets a full buffer. A
  second closer is what makes the CAS matter.
- `copy`: three children are needed for one inside the Once, one waiting for it and one that closes. Two outcomes make
  a list whose middle element is already filled for some and not for others, and two values a child that is given the
  wrong one.
- `merge`: the select limit is a constant (5 in the code); 2 puts three streams on the reflective side and two and
  one on the other. Removal of the first, the middle and the last stream all occur. Two arrays in one merge, and an
  array beside live streams, occur with three readers.
- `tools`: three calls give one that succeeds, one that interrupts and one that fails or is unknown. A third run is
  the second resumption, which sees results restored twice.
- `pools`: with three tasks and two slots a caller of Go waits while both workers may panic. The third channel of a
  stream is the first one used again, if the callbacker is fast.
- `claw`: two processes overlap, the third start comes after a kill. With one archive kept (3 in the code) the second
  rotation already removes one. A file with two messages counts as reaching `ROTATE_AFTER_BYTES`. The clock ticks
  once, so names issued in the same millisecond and in different ones both occur. The theorems remove the bounds; it
  was larger ones (4 commands of 1 process; 3 processes) that showed the two exceptions of LatestIsCurrent.
- `claw_text`: two edits are what it takes to damage one place of a text in two ways or two places of it, and two
  compactions make a summary of a summary. One of the keys is far from every name, so that there is also nothing to
  suggest. `MaxI64` is 12 and `MaxU32` 5, so that numbers of two digits reach the width; limits of texts and files are
  a few units for the same reason.
- `claw_main`: four words are a flag, its value and the same again, or a flag that takes another flag for its value.
  Three frames put one before and one behind a frame with a wrong length. Three edits make two sessions and a
  garbled file, or two sessions and a command, or three commands. Three installs of two names by two processes give
  an install that is over when the next of its name begins, one that has a rival, and one that crashed before.
- `player`: two video packets are needed for a late picture to be dropped and for a frame that the codec holds back,
  and one packet of the other audio track for a switch. Frame queues have 2 slots (3 and 9 in the code), of which the
  kept frame occupies one, so a decoder meets a full queue; packet queues are full with 2 packets. The second loop is
  a seek that read_thread asks for itself, at any moment of the user's event, also while paused. Two events in one run
  (a switch tried again after it failed, a seek during a switch) are beyond TLC here; the theorems, which are about
  safety, have no bound on events, so it is for PlayerSettles that one event is all that is shown.

`CHECK_DEADLOCK FALSE` is set in all runs but `chan`: their systems stop when the work is done, or when nobody calls.

### Fairness

- `chan`: a notified receiver gets the mutex (Go's mutex is starvation free). Nothing is assumed of senders and Close.
- `stream`: a goroutine inside `send`, `recv` or the forwarder's loop goes on when it can. The source may block for
  ever, the consumer need not read or close.
- `copy`: a goroutine inside Recv or Close goes on, and the source answers.
- `merge`: a recv that can select something does.
- `tools`, `pools`: goroutines are scheduled and tools, tasks and callbacks end; nobody has to call Go, Wait or Resume.
- `player`: every thread runs; while the player is not paused pictures become due and SDL calls back; an event
  FF_QUIT_EVENT in the queue is handled. Nobody has to press a key; I/O errors, failing seeks and failing switches may
  happen, and reads that are tried again do not fail for ever.
- `claw`, `claw_text` and `claw_main` have only safety properties: a process may be killed anywhere, and a user need
  not type anything.

All of it is weak fairness: it only says that the Go scheduler does not starve a goroutine that can run.

## 5. Proofs

| module | theorem | states |
|---|---|---|
| EinoToolsProofs | ChanTyped, WakeupsSuffice, Fifo | of UnboundedChan: ChanTypeOK, NoLostWakeup, FifoExactlyOnce, for any number of goroutines |
| EinoStreamProofs | StreamTypeCorrect, StreamFifo, LateSendsRejected, ClosedOnce | TypeOK, FifoUntilEOF, LateSendRejected, NoDoubleClose, for any items, capacity and finite set of closers |
| EinoStreamProofs | ForwardedStreamSafe, EOFTellsAll, ForwarderStops | of EinoForward: EOFIsComplete, StopsWithReceiver, and the theorems of the stream with the forwarder as its writer |
| EinoCopyProofs | SourceUsedByOne, ClosedWithTheLast, CopyBroadcasts, CopiesFollowSource | OneSourceUser, ClosedUnlessPanic, ImplementsBroadcast, and what each copy has received, for any children, values and length |
| EinoMergeProofs | MergeEndsLast, EndsFromTheLast | EndsAfterLastItem, and the order in which streams can end, for any readers, names and select limit |
| EinoToolsProofs | ToolsTyped, SavedResultsKept, InterruptComplete, StatesReachTools, NoneLeftRunning | TypeOK, ResumeKeepsResults, InterruptAccountsForAll, ResumeReachesTool, the safety half of ReturnsWhenAllDone, for any calls, runs, tool lists and handovers |
| ConcPoolsProofs | PoolKeepsLimit, PoolRunsAllOnce, FirstErrorExplains, ResultsOrdered, CallbacksOrdered | LimitRespected, AllRunOnce, FirstErrorIsCause, ResultsInOrder, CallbacksInOrder, for any number of tasks, limit and options |
| ClawProofs | SessionsWhole, LatestFound, ClearedIsBackedUp | ConversationWhole, LatestIsCurrent, ClearKeepsBackup, for any processes, starts, commands and conversations |
| FfPlayerProofs | PlayerTypes, StaleOnce, EndComplete | TypeOK, StaleAtMostOnce, EndIsComplete, for any file, sizes of the queues, loops and events |
| ClawProofs | InstallInvariant, InstalledStaysWhole | InstallInv, InstalledWhole, for any processes, sources, names and files |
| ClawMainProofs | ModeAsAskedAlways, ResumeFaithfulAlways, AnsweredInOrderAlways, NameStableAlways | ModeAsAsked, ResumeFaithful, AnsweredInOrder, and NameStable, a part of DefinitionsWhole, for any words, environments, files, conversations, commands, frames, lengths and names |

**UnboundedChan.** `ChanTypeOK /\ NoLostWakeup /\ FifoExactlyOnce` is inductive as it stands. NoLostWakeup counts: as
long as somebody is parked, there are at least as many notified receivers as buffered values. Send adds one of each;
a woken receiver that takes a value removes one of each; a receiver that overtakes takes a value and leaves the
woken one, which only helps. A woken receiver may park again only if it finds nothing, that is, if the buffer is
empty. On a closed channel nobody is parked, which is the second conjunct and needed for the steps after Close.
Assumptions: the set of receivers is finite (cardinalities), MaxSends is a number.

**EinoStream.** The invariant (`StreamInv`) adds three facts to the properties. `SendingIsOpen`: the writer does not
close `items` while it sends, so an item is never appended after the EOF was seen. `LateIsClosed`: a Send marked late
sees `closed` in its first select because `closed` never turns false. `CloserOwns`: with automaticClose whoever is
past the CAS is alone, the flag is 1 and the channel still open; without it, a closed channel has a closer that is no
longer at its start, so a single closer finds it open. Assumptions: capacity and bound are numbers, AutoClose is a
boolean, the set of closers is finite.

**EinoForward.** The stream's invariant is proved against any user (`StreamStep`), so the forwarder only has to be
one. To it come `Forwarding`, which says for each place in the goroutine what was read from the source, what is in
flight and what was sent (nothing is read and not sent unless a send was refused), and `NoneDropped`: a refused send
has seen the receiver leave. StopsWithReceiver needs two more. `ReadAhead` counts: what was pulled is what the channel
took and at most the item in hand. `LastOfAll` follows an item pulled after the receiver had gone: it is in the first
select or refused there, because `closed` never turns false, and the goroutine then leaves its loop, so there is no
second one. `EOFIsComplete` follows because the receiver's EOF needs the closed channel, which needs
the deferred closeSend, which comes after the last send.

**EinoCopy.** The invariant says of the list that elements are filled from the front without a gap (`ListShape`), that
only the one inside the Once of the last element touches the source (`Inside`), that the counter is the number of
children that are done with their Close (`Counted`, `Closing`), and that a child has received exactly the elements
behind its position (`Follows`). OneSourceUser is then a fact about one element. CopyBroadcasts proves the refinement
step by step: Fetch is the abstract step that extends the log, Take the one that moves a position, the last Close the
one that closes the source, and everything else stutters. That what Take delivers is the outcome in its place of the
log is `Follows` again. What Recv promises under fairness is not part of it.

**EinoMerge.** The key is what the panic of the removal loop leaves over: as long as there was none, `nonClosed` is
`<<1, .., m>>`, the streams behind m are drained, and the ends reported are n, n-1, .., m+1 (`InOrder`). Only the last
entry can be cut out without a panic, and never while recv selects by reflection, since it then looks for stream 1
(`OnlyLastRemoved`). With `NothingLost` (what was sent is what was received and what is buffered) the rest follows.
For the arrays there are lemmas about `FlattenSeq`: it exists for every sequence of sequences (by a least
counterexample) and holds each of them in one piece. Assumptions: what is merged is a sequence of readers, an array
reader has a sequence left and a merged one a number of streams.

**EinoTools.** The invariant follows a result from the task to the composite interrupt, to the resume information of
the next run and to the restored state; in each of them a result is one that its tool produced, and never is there one
for every call (`Partial`). The latter is why the one case that runToolCallTaskByStream does not skip, an executed
task in a list of one, cannot occur. `CallState` says what a task is while its call is idle, running or done, with the
panic of the caller as the exception. What a tool is handed is compared with `last`, the end its call had in the run
before: `Ends` follows that end from the task (`EndInTask`) into the composite interrupt (`EndInInterrupt`) and the
points of the next run (`EndInPoints`), and `HandedByAddress` says that a context hands out the point at the tool's
own address. That this is the point of the same call, and none of another, rests on the values of the addresses
(`AddrsDiffer`). Without addresses of that form nothing is handed out, see
section 6. Assumptions: the ranges of the constants.

**ConcPools.** The invariant has one part per module. `PoolInv`: a task is in one place (not submitted, with a caller
of Go, with a worker, done), a worker has at most one task, the slots taken are at most Limit, and Wait has ended only
when nobody is left. `ResultInv`: a result is kept at its index and nowhere else, and an error that is recorded first
has a task of which it is the outcome, and if that outcome is that of the context, it was cancelled by the caller or by
a panic, since an error that cancels is recorded before it does (`Cause`). `StreamInv`:
there are a number of calls made and a number of channels queued such that the queue is the channels of the tasks in
between, in order, and no channel belongs to two unreceived tasks although they are used again (`InLine`,
`OwnChannel`, `HoldsCallback`). That the results are in order needs for each result its rank among those before it;
the rank exists by a least counterexample.

**ClawSession.** Compaction first: the recursive function of KeepFrom has a value (`BackExists` gives it without
recursion: the nearest place in front where the code stops), where it stops there is no tool result (`KeepFromPlace`),
hence what is kept has its calls. The summary that a compaction merges stands in front (`FrontMessage`), and of what
is removed it tells all up to the first message with an empty line; what it does not tell lies behind one that it
tells, and what the old summary had lost still does (`SummaryCovers`, `CompactionCovers`). With the lemma that an
added message keeps both, the conversations are whole in every file and every process (`Conversations`). `Backups`
says the property of a backup already while `/clear` is still busy with it, and uses that cleanup removes only names
of archives. The first half of LatestIsCurrent has two reasons. Several processes: whatever is about to be removed,
some file that is found is strictly newer (`Told`), so that the newest is never removed; it needs that archives differ
in time and that no file takes the name of an archive, the property's exception. One process after the other: the file
that a process continues is there except between the rename and the write, when the archive is (`Alone`). The second
half is `Newest`: no file has a later timestamp than the current session, those with the same timestamp hold the same
session, and a running process is past the time of the current session, so that whatever it saves next is newer.
Assumptions: at least one archive is kept, at least one message is preserved, and in the opening conversations every
tool result has its call.

**ClawInstall.** InstalledWhole is not inductive: a reported skill could be overwritten by a process that is already
copying. `InstallInv` adds that nobody is in the middle of installing a name that was reported (`NobodyAtReported`;
whoever begins later finds the directory in `Check` and stops), that whoever installs a name alone has no rival
(`NoRivals`), found no directory (`CreatesNew`), and has put into it exactly the files he has copied (`CopiesOwn`),
and that a directory that is not there holds nothing (`NothingElsewhere`), which makes the new one empty. There is one
lemma per kind of step. Assumptions: every source has a name and a set of files.

**The command line.** ModeAsAsked needs no invariant but the types of what is typed; it is a statement about every
sequence of words. A fold over n words has a run, a function on 0..n that takes one `Read` at a time (`RunsExist`,
`RunsAgree`), so that statements about the states in between are proved from one word to the next (`Climb`, again by
a least counterexample). After k words, as long as there is no error: the state awaits a value exactly if the next
word is one in the sense of IsValueAt, it is behind "-p" exactly if a "-p" that is no value came before (`PromptBy`),
and its mode is the one of the last place that asked for one (`ModeIsAsked`, with one lemma per kind of word:
`PromptStep`, `AskedStep`). What is dispatched takes its mode from that state (`ActionMode`). Assumptions
(CommandLineAssumption): a word "flag=value" has a flag and a value and is not itself a flag; no subcommand has a slash.

**Resuming.** The invariant is `WorkspaceTyped`: what lies in the directories of sessions are sessions with a time,
and no backups. ResumeFaithful then has four parts. Only sessions of the workspace are loaded: `LoadedBelong`, for
every kind of reference. The latest: the order of sessions is that of their times first, the set of files is finite,
so something is the greatest, and a file that cannot be read has time 0 (`LatestThere`, `LatestLoads`). One process or
two: a reference that was found is found again, at the same place, as long as the file stays and only backups are new
(`FoundAgain`, `LoadAgain`); every command keeps that (`RunKeeps`: the file that was loaded holds the session in
memory, which stays one of the workspace), and does the same behind any output (`RunBehind`); so the run of all
commands, from the k-th on, is the run of a process that opens the file then (`RunsSecond`), or over (`RunsOver`). The
help: no line of it is for a stub. Assumptions (SessionFilesAssumption): files lie in the workspace's own directory,
the older one or elsewhere, and are not backups; a session that was saved has a time other than 0; a session has at
most one root.

**The MCP server.** AnsweredInOrder says what `Mcp!Serve` makes of whatever clients can have written, so the invariant
(`StdinTyped`) is what that looks like: a `Stream` knows for every frame where it lies in the input, header, length,
blank line and body (`FrameLies`), up to the place where the client was killed. Writing one more frame (`StillStream`)
and cutting the input (`StreamCut`) preserve it. The rest is about the server. A read that starts anywhere ends it, or
goes on behind a frame and finds what a read from the headers of that frame finds (`Found`, `HereAhead`, `ReadEnd`).
`Serve` folds over the pieces, so an answer is what the rest of the input is answered with, behind the reply to the
first frame (`ServedFrom`, `ServeStep`). Frames that arrive whole with the right length follow each other, which gives
the answers to all of them in order (`OneServed`, `Chain`), and behind the last of them nothing can be read
(`LastServed`, `EndServed`). Behind a wrong length a message that is read is no message (`WrongMessage`): it is refused,
and the server stops or finds its way back to the headers of some later frame, which again starts a chain
(`WrongServed`, `TailServed`). If the length is too short, the rest of the body stands in front of those headers, and a
read stops there unless a header before the length hides it. Assumptions (ServerAssumption): a body is not empty, and
the bound of the lengths is a number.

**Names of skills.** NameStable is about every text a skill can declare. Trimming keeps a text whose ends are not to be
trimmed, and leaves one of that kind or nothing (`TrimStartKeeps`, `TrimKeeps`); the fold that keeps, replaces or drops
one character at a time has a run (`KeptRun`), and what it keeps are letters, digits and marks (`Accs`). So a sanitized
name consists of those and neither begins nor ends with a mark (`Sanitized`), nothing of such a name is trimmed, and
the fold, from one character to the next, makes it of itself again (`SanitizeAgain`). A text of which nothing is left
falls back to the directory's name. No assumption.

**FfPlayer.** The proof has three parts. `Pipe` is about one stream: whatever carries the current serial (a packet in
the queue or in the decoder, a frame in its hands or in the frame queue) was read after the last flush of that queue,
and behind a null packet come only null packets, so that a decoder that has told of the end holds nothing
(`Draining`). There is one lemma per operation on a pipeline; it also says that the operation is `Quiet`: no null
packet appears, and a pipeline out of which nothing more comes stays so. The second part is the threads.
`ClosedEmpty`: a stream that is closed, or about to be opened, has no decoder and an empty, aborted queue. `OneStale`:
between comparing a serial and showing the frame the frame stays where it is, and it is current or nothing stale was
shown since the flush that overtook it. `AtFileEnd`: a null packet is under way only at the end of the file, or in a
queue that the running seek has not flushed yet. With it the check for the end is `EndChecked` stream by stream: what
was found drained and empty stays so until the check is over, because in between read_thread itself puts nothing. The
third part, on top of the second, follows a stream in which the end was found until read_thread queues a packet for it
again (`EndFound`): nothing comes out of its pipeline and nothing is left in its frame queue (`Complete`), so that
only a frame already taken can still be thrown away. The main thread compares the serial of a picture before it takes
it, the callback after it has (`Losses`), which makes one audio frame and no picture. An earlier form of EndIsComplete
forgot that frame. The proof found an error of the model: the history counted a frame as stale if its seek differed
from the one of the last flush, but the new audio track can be flushed before a seek and receive packets after it,
without another flush; stale is only what was read before the flush (`Stale`). Assumptions: the file has a video or an
audio stream, whose packets are what the file consists of; only the audio track can be switched; the frame queues have
at least 2 slots.

Induction over the naturals is done with sets: a set of counterexamples that is not empty has a least element
(`MinExists`, from the well-foundedness of <). The library's induction theorems take an operator as a parameter, which
the installed provers cannot instantiate.

Only model-checked:

- the liveness properties (CloseReleasesReceivers, NobodyHangs, RecvReturns, RecvEnds, ReturnsWhenAllDone,
  PoolTerminates, PlayerSettles), since fairness and ENABLED are beyond this prover;
- the properties of ClawText: parsing and rendering are RECURSIVE operators, and modules that reach one are kept out of
  the proofs;
- DefinitionsWhole of ClawMain but for NameStable: the order of a directory and of a listing is a permutation that
  SetToSortSeq chooses, and SelectSeq is recursive with an operator parameter, about which nothing can be proved by
  induction here. That none of a name lies nearer than the active one also depends on where the variables of the
  environment point, so it is a fact about the instance.

## 6. Findings

Shown by a run:

- `merge_panics` (`stream.go:214`): the loop that removes a closed stream from `nonClosed` ranges over the old length
  and does not stop; unless the last entry was removed it indexes past the end.
- `tools_invoke` (`tool_node.go:451`): Invoke saves its state under one type and asks for another when it is resumed;
  the results it saved are lost and the tools run a second time.

Divergences seen while reading, without a run of their own.

Go:

- `peek` runs the source's Recv inside `sync.Once` (`stream.go:585`). If it panics, the Once counts as done, another
  child gets a zero chunk without error, and its Close is not counted: the source is never closed although all
  children are. ClosedUnlessPanic exempts that case.
- The forwarder may pull one more item from its source after the receiver has left (`stream.go:709`); the item is lost.
  StopsWithReceiver says that it is never more than one.
- `SetAutomaticClose` after a manual Close installs a new `closedFlag` of 0 (`stream.go:479`), so that the finalizer
  closes the channel a second time.
- `GetCurrentAddress` looks under another key than the one written (`internal/core/address.go:81`), so that an address
  is only its last segment, and the segment of an interrupt (`compose/resume.go:17`) is not that of the running tool:
  by the address its signal was given (comment at `tool_node.go:511`) a tool is never found again. ResumeReachesTool
  says what is left: a tool never gets a foreign state, and gets its own if the resuming side knows the addresses that
  the next run computes.
- Invoke returns no message for plain tools and empty ones for enhanced tools (`tool_node.go`, comment at 428); in
  Stream the list of calls to run again loses its call identifiers; tools that can only stream are refused because
  `st` is shadowed in `convTools`.
- Without collectErrored, `collect` drops the results behind the last error (`result_context_pool.go:108`).
- The Catcher of a WaitGroup is never reset: a pool used again after a panic panics in its next Wait
  (`waitgroup.go:25`). A Stream cannot be used again at all: its queue stays closed (`stream/stream.go:55`).
- In `ForEachIdx` a worker that panics takes an element with it; if all do, the other elements are left out
  (`iter/iter.go:39`). Wait panics, so the caller learns of it.
- `delayqueue`: Poll dereferences nil when the head has not expired, and Push loses the elements when it grows.

ffplay:

- `audio_decode_frame` takes a frame off its queue (`ffplay.c:2341`) before it compares the serial (2342). If
  read_thread finds the end between the two, the flush of a loop or of the exit makes the comparison fail, and the last
  audio frame is not played; nor is, by the same check, what the callback still has in `audio_buf`. EndIsComplete allows
  that one frame.
- A switch of the audio track whose `stream_component_open` fails leaves the stream closed (2590, 2616) until the next
  switch.
- While the audio track is being switched `audio_st` is NULL, and the check for the end skips a stream without
  `audio_st` (`ffplay.c:2998`, 3592). If no other stream is unfinished, read_thread exits in the middle of the file
  under `autoexit`, whose help text is "exit at the end". EndIsComplete is about the streams that were open when the
  check looked at them.
- `stream_component_open` clears `eof` (2625) while read_thread may be about to set it (3016): the new audio track then
  never gets its null packet and the player never finds the end. PlayerSettles exempts a switched player.
- A switch of the video track sets `video_st` to NULL before `video_stream`, and read_thread dereferences it between
  (3042).

claw, sessions and compaction:

- `merge_compact_summaries` puts the new timeline under the heading of the newly compacted context (`compact.rs:472`
  against the comment at 469), and loses the lines of the new summary in front of it (scope, requests). The line
  "-Key timeline:" is never found again, so that the lines of an old summary all survive as highlights. The
  timeline of what is removed is read to its first empty line only (579): what stood behind it is in no summary and not
  kept, although "the summary below covers the earlier portion of the conversation" (7). ConversationWhole and
  NothingLostSilently exempt those messages and nothing else.
- The session reader spells `too_result` (`session.rs:698`).
- Two `/clear` in the same millisecond share a backup name (`main.rs:614`): ClearKeepsBackup excludes it by name.
- A file that is saved again unchanged (a skipped `/compact`) in the millisecond in which its archive was made has the
  archive's `updated_at` and mtime, and `sort_managed_sessions` orders the two by the session's id, which is the same
  (`session_control.rs:287`). "latest" may continue the archive, and a start by the path of the session then goes on
  without what was said there: the second half of LatestIsCurrent excludes a session that split in this way.
- Several processes can remove every file of a session: cleanups that choose between archives with the same mtime may
  choose differently, and the one that is left, or the session itself, may be renamed to a name that another process
  is about to remove; if the renaming process is killed before it writes, nothing is left (`session.rs:471`). The first
  half of LatestIsCurrent excludes archives of one mtime and names that are taken.
- `save_to_path` fails after a successful save when another process removed an archive first (`session.rs:473`).
- A `/clear` that is not confirmed exits with 0. The error kind no_managed_sessions is never given.

claw, command line and skills:

- `normalize_permission_mode` knows `ready-only` (`main.rs:1343`), while the error at 1193 advises `read-only`; with
  `read-only` in the variable the mode becomes danger-full-access.
- `-p` joins its words without a blank and takes every flag behind it; `--resume`, agents, mcp and skills drop the
  output format; the guidance for a bare slash command advises `--resume … /vim`, which exits as unimplemented.
- `levenshtein` leaves out one of the three predecessors (1262) and its matrix makes every distance 0, so the nearest
  term is the first in the order of the alphabet unless one begins the other.
- `show` is taken as the beginning of a word in text mode, so that "showcase" shows. `parse_toml_string` loses the names
  that agents declare. A skill is installed below HOME, where `claw skills` looks only if the working directory is
  below it too.
- Two installs of one name at the same time may mix their files or remove each other's, and one that crashed leaves a
  directory that blocks the name (`commands/src/lib.rs:1476`). InstalledWhole is about the others.
- The MCP server finds its way back after a length that is too short only if the next frame begins with another
  header than Content-Length (`mcp_server.rs:275`): AnsweredInOrder says so.

claw, prompt and configuration:

- The scope that is printed for an instruction file is the outermost directory with such a file (`prompt.rs:357`). The
  budget may be exceeded by two markers (311). If the command for the unstaged diff fails, the staged diff is dropped
  (235), and the other way round (228): PromptWhole exempts the two diffs and nothing else. `git` is asked for
  `-abbrev-ref` (`git_context.rs`), which it does not know.
- `find_key_line` takes the first line with the key, also inside another object (`config_validate.rs:450`):
  DiagnosticsFaithful demands the key's own line unless there is such a twin.
- The comment on the names to suggest wants an edit distance smaller than 3 (406), the code takes 3 as well (408).
  DiagnosticsFaithful states what the code does.

## 7. What is not modelled, and why

- Of the conc iterators nothing: a counter over the modelled WaitGroup. Of the converted readers the loop that skips
  what a converter calls ErrNoValue: it adds no interleaving to the reader below.
- The timing wheel: Poll dereferences nil as soon as a head has not expired, so the sleeping and wakeup protocol
  behind it is never reached; a model of it would be a model of other code.
- mem0's store: the constructor queries a table SQLite does not have and raises.
- The graph of eino and its checkpoints, frp, api, telemetry: stubs. `ConfigLoader::load` and the reader of a settings
  file stop in the middle, at the call of the validator, `/status` and the parser of slash commands have no body.
  Callbacks, messages, reflection and serialization: sequential conversions without state of their own.
- Within modelled parts: temporary files of a save (two processes are taken not to issue the same millisecond and
  counter), the wording of summaries, prompts and reports, middlewares and callbacks around tools, subtitles, attached
  pictures, decoders and filters that fail once they run, want of memory or threads in `stream_component_open`, what
  the callback has in `audio_buf` between two calls, the video switch, `infinite_buffer` and the clocks of ffplay
  (when a picture is due or late is left open), the reuse of a pool after Wait, calls of a message that share an
  identifier, and a writer of a merged reader that is blocked when it is closed (EinoForward has that for one stream).
