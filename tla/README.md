# computer-docker, specified in TLA+

This directory specifies the behaviour of the API server of this repository
(`cmd/api`, `internal/*`): a program that runs commands, keeps background
processes and changes files on behalf of HTTP and MCP clients, many at a time;
and the script that starts it together with a display (`entrypoint.sh`).
The modules are written from the Go code; TLC checks them on small instances and
TLAPS proves the central invariants for instances of every size.

* [Inventory](#inventory)
* [Modules and the code they model](#modules-and-the-code-they-model)
* [Runs](#runs), [fairness](#fairness), [bounds](#bounds)
* [What is proved](#what-is-proved)
* [What the checks found](#what-the-checks-found)
* [Not modelled](#not-modelled)
* [Plan](#plan)

To check a run: `tlc -config MCLogStream_live.cfg MCLogStream.tla`.
To check a proof: `tlapm LogStreamProofs.tla`. `PROJECT.json` lists runs,
mutants, findings, hazards and, definition by definition, the lines modelled.

## Inventory

| Part | State | Operations | Talks to |
|---|---|---|---|
| `procapi` log: `ringBuffer`, `pump` | lines (at most 1000), subscribers, closed | `add`, `snapshot`, `subscribe`, `unsubscribe`, `closeSubs` | two pipes of the process; the channels of followers |
| `procapi.Manager` | table id -> `Process`, counter; per process: state, pid | `Start`, `Stop`, `Remove`, `List`, `Get`, `Logs`, `Subscribe` | kernel: fork, kill, wait |
| `execapi.Service` | none | `Run` | os/exec, a context with a deadline |
| `audit.Recorder` | ring (1000 entries), file | `Record`, `Recent`, `Close` | called by REST handlers and MCP tools |
| `fsapi.Service` | the root; the file tree is the kernel's | `List Stat Read Write Mkdir Delete Move Copy Chmod Search Patch` | system calls below the root |
| `handler` | none | one handler per route; SSE stream of a log | all of the above |
| `mcpserver` | none | the same services as tools | all of the above |
| `middleware` | none | `Recover`, `Logging`, `APIKey` | around every handler |
| `vnc`, `docs`, `config` | none | reverse proxy, two documents, environment | |
| `main` | the listening server | start, shutdown within 10 s, close of the trail | all of the above |
| `entrypoint.sh` | child processes | start and retry the display stack, then `exec api` | |

What is hard in it:

* **Goroutines around a process.** Two pumps, one goroutine that waits and any
  number of followers share a ring. It matters in which order `cmd.Wait`, the
  last `add` and `closeSubs` come, that a follower has neither gaps nor repeats,
  that no channel is closed twice, and that nobody waits for ever.
* **The kernel moves on.** Between a check of the state and a `kill`, a process
  is reaped and its number given out again; a leader dies and its group lives.
* **Requests overlap.** `Start`, `Stop` and `Remove` of one process; writes,
  patches, moves and deletions in one directory. There is no lock around them.
* **Deadlines.** `Run` gives up on a command, and what the command left behind
  does not give up on its pipes.
* **Arithmetic.** Seconds times `time.Second` in 64 bits.
* **The trail.** When and in which order actions are recorded, what is left of it
  when the server stops or dies, and what was answered by then.
* **Shutdown.** Streams and commands may never end; handlers that it gives up on go
  on while the trail is closed.
* **Readers of a tree that changes.** Listings, searches and downloads look at a
  directory or a file more than once.
* **Restarts of the container.** Locks and sockets of the instance before.

Each hazard is listed under "hazards" in `PROJECT.json` with its line and the
properties that would catch it.

What makes each part correct:

| Part | Properties |
|---|---|
| log and streams | the ring is the latest lines; a follower's lines are the log from some point on, less what was dropped; channels are closed once; "end" means exited; every stream ends; readers never hold up the process |
| process table | an id names one process for ever; one removal wins; exited means reaped; everything is waited for; a signal hits whom it was asked for |
| exec | the cap holds; the leader is bounded; results are complete and do not pass a kill off as an exit; nothing is left unreaped |
| audit and server | `Recent` is the latest entries; ring and file tell the same story, over restarts; the trail tells of what ran and nothing else; who was told of a success has an entry; causes stand before effects; an undisturbed shutdown leaves nobody unanswered, and every signal ends the server |
| files | paths stay below the root and lead where walking them leads; a request that shares no path with another does to the tree what it promises and tells of it what is there, or fails as it promises; who reads a tree that changes misses nothing that stays |
| display stack | it comes up at every start of the container; tries are not used up before the display is there; the browser comes back |

## Modules and the code they model

| Module | Code | Composed with |
|---|---|---|
| `LineFeed` | abstract: what following a log promises | |
| `LogStream` | `procapi.go` ring, pump, waiting goroutine; `handler/procs.go` `procLogsStream` | implements `LineFeed` |
| `LogStreamProofs` | | extends `LogStream` |
| `ProcManager` | `procapi.go` `Manager`; `handler/procs.go` | |
| `ProcManagerProofs` | | extends `ProcManager` |
| `Audit` | `audit.go` | |
| `Exec` | `execapi.go`, `handler/exec.go`, `mcpserver/tools.go` `execRun`, `config.go` `secs` | instance of `Audit` |
| `ExecProofs` | | extends `Exec` |
| `Server` | `cmd/api/main.go`, `middleware/*.go`, the mux, the order of service, audit and answer in `handler/*.go` and `mcpserver/*.go`, `vnc/proxy.go` | extends `Audit` |
| `ServerProofs` | | extends `Server` |
| `PathJail` | `fsapi.go` `resolve`, `toEntry`; the path of `fsUpload` | |
| `Browse` | a client of `List`, `Stat` and `fsUpload` | extends `PathJail` |
| `BrowseProofs` | | extends `Browse` |
| `FsApi` | `fsapi.go`, `ops.go`, `patch.go`; the handlers on top | extends `PathJail` |
| `FsApiProofs` | | extends `FsApi` |
| `PromiseProofs` | | extends `FsApiProofs` |
| `Desktop` | `entrypoint.sh` | |
| `DesktopProofs` | | extends `Desktop` |
| `MC*` | bounds, symmetry and inputs of the runs | |

**LogStream** is one process. `written`, `pipe` and `leader`/`heirs` are the
operating system's part: what the process wrote, what is still in the kernel,
and whether it or a descendant can write. `scan` is the buffer of
`bufio.Scanner`; `lines`, `subs`, `closed` are the ring's fields; `ch`/`chOpen`
the channel of each client; `pc` where `procLogsStream` stands. Everything that
the code does under `ringBuffer.mu` is one action, whatever it does between is
not. `WaitReturns` reaps the process and closes the read ends of the pipes, as
`cmd.Wait` does. Receiving a line from the channel and writing it to the response
is one action, since nothing else looks at either in between. `added`, `from` and
`missed` are history, read by properties alone. A request for the log of an
unknown process changes nothing and is left out.

**ProcManager** is the table. A request runs once, in the steps between which
others can run: `Fork` (with the pid that the kernel gives), `Register` (the
critical section), `Launch`; `Find`, `Check`, `Kill`, and for a removal `Drop`.
`Remove` goes through the steps of `Stop` first and ignores what it answered, as
in the code. `Group(n)` is whom `kill(-n)` finds when it is called. A pid is free
as soon as no zombie and no group member has it.

**Audit** splits `Record` where the code does: the time is read, then the lock is
taken. `Restart` is `New` in the next process: the ring is empty, the file is
appended to. `appended` and `boot` are history. **Exec** includes it by `INSTANCE`,
so that its handlers record through the same two steps. The rest of `Exec` is `Run`
and, marked external, os/exec: the goroutine that watches the context, the ones that
copy output, and `Wait`. The two configured timeouts are seconds that `config.secs`
multiplies, like those of a request.

**Server** is the whole program from the listener to the trail, with each service
reduced to whether it took effect. `Arrive` takes a request through Recover,
Logging, APIKey and the mux (`Passes`, `Route`), which touch nothing that others
see; from there its handler goes on step by step: `Act` (the service, which may
fail or panic), `Record` (before or after it: `When`), `WriteJSON`; or `Follow`,
`Proxy`. `main` is where the main goroutine is: `Signal`, `Drained` or `Late`
(how `Shutdown` returns), `CloseTrail` (the deferred call), `Exit`; `Crash` may come
at any point, `Start` after either. A caller sends one request, so that a caller
stands for its entry in the trail. Paths are sequences as in `PathJail`. That the
middleware and the handlers run in one goroutine each is why a step there may be as
long as it touches nothing shared.

**PathJail** has no state: it is `resolve` and its neighbours as operators, which
`FsApi` resolves the paths of its requests with. It takes a path as the sequence
of what stands between its slashes, so that empty elements, `.` and `..` are
themselves. `Resolve` keeps the comparison with `Root` and a separator of the
code, on characters as far as slashes go. **Browse** sends paths through it one
request after another: any path at first, then what an answer reported (`Follow`
after `Stat`, `Enter` after `List` and `Search`) or the path of an uploaded file.
It has no tree: whether a file is there is the business of `FsApi`.

**FsApi** is at the level of system calls. A request is a program over `stat`,
`mkdir`, `open`, `write`, `lstat`, `rename` and `unlink`/`rmdir`, whose steps
interleave with those of other requests; `tree` and `data` are what the kernel
has. `Promise` is the reference: what a request does to a whole tree at once (an upload,
one file after the other, up to the first that does not fit: `PutAll`).
`base` and `reach` are history: they tell which requests had company on their
paths. A copy, and a write, of contents is one step. So is the reading of a file or
of a directory; a listing then looks at each entry (`Info`), a search visits
each (`Visit`), with what it knew of it when its directory was read, and a download
announces a length (`Measure`) before it sends (`Send`). `same` is history: what has
stayed as it was since a listing or a search began. A block is a line, too, and some are
`TooLong`: `Scanned` is what the scanner of a search delivers of a file, which ends before
the first such line, and `HitsIn` what a search can promise on that account.

**Desktop** counts time in the seconds that the loops sleep. `loop` is where each of
the loops around `xsetroot`, `fluxbox` and `x11vnc` stands, `browser` the one around
Chromium; `socket` and `singleton` are the files that outlive a container. A `Tick`
is a second that everybody sleeps through. After the loop that paints the root has
ended or given up, that of `fluxbox` begins, in the same shell.

## Runs

| Run | Expected | Shows |
|---|---|---|
| `log_live` | pass | ring, subscriber, channel and stream agree in every interleaving; streams end, and clients that leave are forgotten; `LogStream` implements `LineFeed`; with clients that never read, lines still reach the log |
| `proc_table` | pass | table, states, signals; ids are fresh; stops take effect; zombies are reaped |
| `exec_run` | pass | cap, result; the leader is bounded; only a holder of the pipes keeps a run |
| `server_run` | pass | the trail against what ran and what was answered, over shutdown, crash and the next start; a signal ends the server |
| `fs_alone` | pass | every operation against its reference, one at a time, errors included |
| `fs_races` | pass | two requests at a time, readers among them |
| `browse_paths` | pass | every path of up to four elements, and those reported back and uploaded to |
| `desktop_up` | pass | the display stack comes up over restarts and failures |
| `log_exited`, `proc_group`, `exec_bounded`, `fs_copy` | violation | one disagreement each, [below](#what-the-checks-found) |

Every property of a passing run has a mutant: a change of one definition, as a
plausible bug would make it, under which the run finds the property violated. The
mutants stand before the definitions they replace and are marked `(mutant)`.

Deadlock is checked in `browse_paths` only: elsewhere processes may have exited,
requests been answered and bounds been reached, and the system then rightly stops.

### Fairness

* `LogStream!PumpFairness`: the Go scheduler runs pumps and the waiting goroutine
  whenever they can run. `ClientFairness`: a request goes on. The server sets
  `WriteTimeout: 0`, so a client that neither reads nor disconnects could hold its
  handler up for ever; the fairness says that there is none. It is not part of
  `FairSpec` but the premise of the properties that need it, of which
  `ReadersDoNotBlockPumps` must not be one. `select` picks among ready cases at
  random; hence `ContextDone` has fairness of its own. Neither the process nor its
  descendants are assumed to do anything.
* `ProcManager`: goroutines run, and a process that got SIGTERM ends unless it is
  in `Deaf`. No other process is assumed to end.
* `Exec`: goroutines run, the timer fires, a process that was sent SIGKILL ends.
  Descendants may live, and hold the pipes, for ever.
* `Server`: `main` goes on and the timer of `Shutdown` fires. Handlers need not end,
  streams least of all.
* `Desktop`: loops go on, seconds pass, Xvfb comes up within `StartTime`. Nothing has
  to fail, to be stopped or to be started.
* `FsApi` and `Browse` state safety only.

### Bounds

| Run | Bound | Why it is enough |
|---|---|---|
| log | 2 streams, 1 client, 2 lines per stream, ring 2, channel 1, pipe 2, over-long lines | the ring and the channel overflow, filled by two pumps; the client comes before, during and after the exit, is slow, or leaves. Clients meet only in the critical sections of the ring; the proofs have any number of them |
| proc | 3 requests (4 in `proc_group`), 2 processes, 2 pids, one process that ignores SIGTERM | a number is reused while a stop of its former owner is under way; two removals of one process race; a removal races a start. The proofs have no bound |
| exec | one request, 2 lines of output, `Duration` of 6 bits | runs share nothing but the recorder, whose interleavings `Server` checks; the timeouts, asked for or configured, are none, below the cap, above it, one whose product turns negative and one whose product is 0 |
| server | 2 callers, ring 1, 2 starts | the ring overflows; stamps and appends cross; each caller is at each step when the signal, the deadline, the exit or the crash comes, and a caller comes after the next start. One caller sends every kind of request, the other those that are recorded, and a stream |
| desktop | 5 and 6 tries (30 and 60 in the script), a display that takes up to 2 s, one failure, 2 starts | what counts is that the tries last longer (`DesktopAssumption`); both kinds of end of the container before |
| fs | 10 paths of depth up to 3, 4 files, blocks `x`, `y` and one that is too long a line | a tree in which files, directories and what is missing occur in each place of each operation, and directories are shared; a search meets lines before and behind the one that ends its scan, and has a limit that it meets, or of zero (hence 200), which it does not |
| paths | 5 names, 4 elements, roots of 1 and 2 names | `..` occurs before, between and behind names, more often than there are names |

## What is proved

TLAPS proves the following for any number of streams, clients, requests, processes, lines
and paths, from the assumptions named in the modules (`LogStreamAssumption`,
`ProcManagerAssumption`, `AuditAssumption`, `ExecAssumption`, `DesktopAssumption`,
`PathJailAssumption`, `BrowseAssumption`, `FsAssumption`, `RequestsAssumption`). They say
that capacities and units are positive, that the "no value" constants are no values, that
the tries of the display stack last longer than Xvfb takes to come up, that no file is
called `..` and the root is not `/`, and that the paths under consideration contain the
parents of each, what the requests name, and where a move can bring something: all
relative paths do, and so do those of the runs.

`LogStreamProofs`

| Theorem | Property | Argument |
|---|---|---|
| `TypeCorrect`, `RingIsLatest` | `TypeOK`, `RingHoldsLatest` | inductive together: `Subscribe` computes how many lines have left the ring, a natural number only because the ring is a suffix of the log. `KeepLastIs` says what the cap does to a sequence |
| `NoSendOnClosed`, `EndIsAfterExit` | `SubscribersAreOpen`, `EndMeansExited` | `ChannelInv` adds where the waiting goroutine is when the ring is closed, and that a channel is closed only by `closeSubs` or once its request is over |
| `NoGap` | `StreamHasNoGap` | `JoinInv` adds that a subscriber's snapshot is sent before anything from its channel; the lemmas about concatenation (`AppendHead`, `ConcatAppend`, `SuffixOfAppend`) say that moving a line from one part to the next leaves the whole as it is |
| `CapturedInOrder` | `CapturedIsPrefix` | `FlowInv`: behind the lines captured of a stream, the scanner's buffer and then the pipe hold the next ones, in order, up to the last one written, as long as anybody can write. That a pump takes the right line needs to know where the lines after it are |
| `FeedImplemented` | safety part of `FeedPromise` | the refinement of `LineFeed`, step by step: `Subscribe` is `Open`, `Add` is `AppendLine`, `CloseSubs` is `Finish`, a line sent from the snapshot or the channel is a `Give`, the two ways out of `select` are `End` and `Leave`, everything else stutters. `PlacesInv` says that what is in a reader's hands (what it was sent, the rest of its snapshot, its channel) stands in the log in increasing places, so that the next one is further on than the last; `Distinct`, from `FlowInv`, that a line has one place, by which `LastSentAt` can find it |

`ProcManagerProofs` has one inductive invariant, `IndInv`. Beside the properties
it says what a request has in hand at each step (`RequestsInOrder`), that a
request between fork and launch is alone in charge of its process
(`StartsInOrder`), how far the waiting goroutine is against the process
(`ProcsInOrder`), that a removed id is out of the table for good
(`RemovedIsGone`, hence `OneRemoveWins`), and that no two living groups share a
number (`LivePidsDiffer`, hence `SignalsAreAskedFor`). From it follow
`TypeCorrect`, `Coherent`, `RemoveOnce`, `ExitIsFinal`, `NobodyIsForgotten`,
`OnlyStaleSignalsStray` and the action property `FreshIds`.

`ServerProofs` begins with the recorder alone: the ring is the end of the trail since
the last start (`RingIsTail`), and a caller has one entry once it is through
`Record` (`OneEntryEach`). It then shows that the recorder of a server is one of `Audit`
(`ServerAudits`: every step of `Server` is a step of `Audit` or leaves the trail alone),
so that the same holds there:

| Theorem | Property | Argument |
|---|---|---|
| `RecentAnswers` | `RecentIsLatest` | `ServerAudits`, and `Recent` takes the end of the ring |
| `TrailIsTrue`, `AnswersAreInTrail` | `TrailTellsWhatRan`, `AnsweredIsInTrail` | `CallerOK` says for each place of a request whether it must have, or cannot have, its entry, its effect and its answer yet |
| `TrailIsInOrder` | `TrailFollowsAnswers` | `BeforeOK`: who came before has its entry, and an entry is appended behind all that are there, with a time read later |
| `FileIsTrail` | `FileKeepsTrail` | `FileInv`, on the two places where an entry is appended and the one where the file is opened again: who is in the file is in the trail and not among the failed writes, and two entries stand in the file as they stand in the trail |
| `DrainAnswersAll` | `DrainedIsAnswered` | `ExitOK`: once `Shutdown` has seen the last request none comes, until the next start |

`Server`'s theorems hold for any set of callers, any requests that `Asks` gives them, with and
without a key and a file, and for any number of restarts.

`ExecProofs` has `RunOK`: for each place of a request, what of its command is left,
whether its output is copied and whether it has a result. A result comes only behind
`copy`, where the leader is reaped and no descendant can write any more (`Over`);
`how` is "killed" only once the context was done, which it stays. From it follow
`TypeCorrect`, `KillsAreTold`, `OutputIsWhole` and `NoLeftovers`; `CapHolds` follows
from `TimeoutIsBelowCap`, where a product that wraps is some integer or other.

`DesktopProofs` bounds the tries of a service by the seconds that have gone by while
the display comes up, plus one and its own failures afterwards (`Starting`,
`Running`). `TriesSuffice` follows since the tries last longer (`DesktopAssumption`),
and since every start removes the lock, so that Xvfb comes up at all.

`BrowseProofs` is about every path, of any length: what `Clean` and `Join` make of a path
they make element by element, so that it takes induction over data. The library's
induction theorems have an operator for a parameter, which the provers cannot instantiate;
`SetInduction` says the same of a set (it contains 0, and with n also n + 1) and follows
from `WFMin` and the well-foundedness of `<`. `Recursion` then gives the function that
`Clean` and `Join` choose, `SeqInduction` what they make of longer paths.

| Theorem | Property | Argument |
|---|---|---|
| `LeadsWhereItWalks` | `WalksThePath` | `CleanWalks`, for every path: `Leaves` numbers the names that the walk leaves, and says that the names behind one of them outnumber the `..` behind it by those left after it, so that the next `..` takes back the last one, as `Clean` does |
| `NeverLeavesRoot` | | `ResolveIs`: what `Clean` returns are names, so that the comparison with root and separator never fails |
| `ReportsLeadBack` | `ReportedPathsLeadBack` | `EntryPathIs`: a reported path is the names below the root, or `.`, behind a slash; `CleanStay` and `CleanNames` say that `Clean` gives them back |
| `UploadsLand` | `UploadsLandInTheirDirectory` | `JoinIs`: whatever `..` a relative join leaves in front, the second cleaning comes to the same (`FreeStep`) |

`FsApiProofs` has `TreeInv`, for any number of clients at any of their system calls.
`TypeOK` alone is not inductive: that a step leaves a tree needs to know what a handler
has in hand when it comes. `IsTree` says that the entries are closed under prefixes,
with directories above (on which `TypeOK`, by parents, then follows) and that no file
has two names; `AtStep` and `JobOK` what path, open file, depth and stack of entries
each step of a request has, `Asked` that its paths are those of one of `Requests`. The
work is in the lemmas on paths (`PrefixOrder`, `ParentIsAbove`, `ChildOnTheWay`, `MovedOrder`)
and on trees: `TreeGrows` (a new entry in a directory that is there), `TreeShrinks`
(removing a path with all below it), and `TreeMoves` (a rename: where the source has
gone, nothing is left behind, what moved hangs together below the target, and what
the target replaced had nothing below it). `TypeCorrect` follows.

On top of it, `ReaderInv` is about the requests that read, and about the paths that
have stayed since they began (`same`, which `TreeInv` alone says nothing of). A listing
(`Listing`): each entry that has stayed is found already or still on the stack. A search
(`Searching`): what is on the stack, and where hits were found, are parts of the
tree apart from each other, so that no hit is counted twice against the limit; and each
file that has stayed is done, or lies below something on the stack, unless the limit is
met. That this is inductive rests on `StillOK` (what others do only takes from what has
stayed, and takes a directory with all below it), on `EntriesAre` and `SearchDir` (a
directory is read whole and once, and its children cover what was below it), and on
`FirstHits` and `SearchFile` (the first hits of a file are all of them, or as many as the
limit had left), and on `ScannedMatches` (what matches in the lines that the scanner delivers
are the hits that are promised). From it follows `ReadersMissNothing`, the property
`ReadersSeeWhatStays`.

`PromiseProofs` proves `UnrelatedRequestsAreAlone`, the property
`UnrelatedRequestsKeepPromise`: a request whose paths no other request that changes the
tree has touched is answered, and leaves the tree, as `Promise` says of the request
done at once to the tree it came to. `Sees(w, v, N)` is what makes that precise for a request
with the names N: w and v agree in the paths of N and below, and on the way there nothing is
missing, though directories may have come. The proof has two invariants on top of `TreeInv`
and `ReaderInv`.

| Invariant | Says | Steps |
|---|---|---|
| `ReachInv` | each request works on what it reaches (`WorksIn`): the path it makes, opens, renames, and the file it has open, lie in or below `reach`, also after others have renamed a directory above them; and no request that changes the tree reaches a path of one whose base is kept | `ReachNext`; a rename takes `reach` along (`MovingReach`, `FollowsReach`) |
| `PromiseInv` | for each place of a request, what it has done of what it promised (`PromiseOK`): how much of the directories is made (`Making`), which files of an upload are there (`Uploading`), what is left of a deletion and stands on its stack (`Deleting`), what a reader has found so far, and at the end that the answer is the promised one (`Kept`) | `PromiseNext`: one lemma for each system call, from `StatPromise` to `VisitPromise` |

A step of another request is one lemma for all of them, `OthersKeepPromise`. What a request
does stays in its reach, but for directories on the way (`Confined`, shown for `Mkdir`,
`Open`, `Fill`, `Rename` and `RemoveEntry`); by `Undisturbed`, who shares no path with that
reach sees the tree as before. A step of its own changes what the request sees as the reference
says: `PutIs`, `PutAllIs` and `FileFits` for files written one after the other, `RelocatedIs` for
a rename, `LeafRemoved` and `NothingBehind` for a deletion bottom up against one at a stroke,
`GoOnPromise` for entries looked at one by one. That a list or a search is complete
is taken over from `ReaderInv` (`ListIsWhole`, `SearchIsWhole`).

The theorem excepts a copy of a file onto itself (`CopiesOntoItself`), which does not do what
it says (`fs_copy`), and its searches promise what `HitsIn` says: the lines before the
first that is too long.

Every safety property that a run checks is thus a theorem. Model-checked only is everything
about liveness: fairness and `ENABLED` are beyond the prover. Of `FeedPromise` that is its second
half; the others are `StreamsEnd`, `ReadersDoNotBlockPumps`, `StopTakesEffect`,
`ZombiesAreReaped`, `LeaderIsBounded`, `RunEndsOrPipesAreHeld`, `StopsInTime`,
`DesktopComesUp` and `BrowserComesBack`.

`tlapm` takes about a quarter of an hour for `PromiseProofs`, and a few minutes at most for
each of the others.

## What the checks found

Each is a run whose property TLC violates; `PROJECT.json` quotes the text that
the code disagrees with.

| Run | Line | What happens |
|---|---|---|
| `log_exited` | `procapi.go:248` | `cmd.Wait` closes the pipes under the pumps: output of a process that has exited is lost |
| `proc_group` | `procapi.go:330` | a stop of an exited leader answers 200 and leaves its descendants alone |
| `exec_bounded` | `execapi.go:76` | a descendant with the pipes holds the request for ever |
| `fs_copy` | `ops.go:45` | a copy onto itself empties the file |

Known limits, which behaviours of the models show and which the passing properties
are worded around:

* `procapi.go:259`: a stream ends before the last lines are in the log, since
  `closeSubs` does not wait for the pumps (`FeedPromise` does not promise the last
  lines).
* `procapi.go:268`: one line above 1 MiB ends the capture of its stream
  (`ReadersDoNotBlockPumps` excepts it).
* `procapi.go:334`: a stop that races the exit answers 500, or signals a group that
  has inherited the number (`SignalsAreAskedFor` says just that).
* `procapi.go:339`: a removal that races its start drops a process that runs on.
* `audit.go:53`: entries of requests that overlap may be out of the order of their
  times (`TrailFollowsAnswers` is about those that do not).
* `handler/fs.go`, `fs_ops.go`, `procs.go`, `tools.go`: `mkdir`, `copy`, `chmod`,
  `upload`, a stop and a removal of a process record nothing (`When`), although
  `README.md` speaks of a trail of every action.
* `main.go:43`: handlers that `Shutdown` has given up on find the trail's file closed;
  what they do then is answered but not in the file (`FileKeepsTrail` has it among the
  failed writes).
* `main.go:94`: one signal is waited for; a second one during the 10 s is ignored.
* `main.go:59`: an empty `VNC_UPSTREAM` is replaced by its default, so that `/vnc/`
  cannot be switched off.
* `middleware.go:75`: Recover keeps `http.ErrAbortHandler`, with which the proxy breaks
  off, from net/http; the client is sent an end that looks regular.
* `config.go:74`: an `EXEC_MAX_TIMEOUT_SEC` whose product wraps to zero or below is no
  cap.
* `fs_ops.go:173`: a file that grows or shrinks while it is downloaded is cut off, or
  the response is broken off.
* `ops.go:118`: a line above 1 MiB ends the content search of its file: what matches in
  it or behind it is lost, the answer is 200, and no error tells. `HitsIn`, and so
  `ReadersSeeWhatStays` and `UnrelatedRequestsKeepPromise`, promise the lines before it;
  the comment at `ops.go:70` and the tool's description at `server.go:41` know no such limit.
* `ops.go:101`: a search by name alone also reports files that are gone by then.
* `entrypoint.sh`: fluxbox and x11vnc are tried again after a failure, not after an
  end without one; Xvfb and websockify are started once.
* `execapi.go:53`: a timeout whose product wraps to zero or below is not clamped
  but makes the command time out at once (`TimeoutIsCapped` bounds it from above
  only).
* `tools.go:140`: a command over MCP that ends in an error leaves no entry.
* `fsapi.go:106`, `patch.go:42`: two writes leave a mixture, a patch undoes
  another's change (`UnrelatedRequestsKeepPromise` is about requests that share no
  path).
* `fsapi.go:127`: a deletion goes on in a directory that is moved away meanwhile.
* `fsapi.go:38`: `FS_ROOT=/` refuses every path (excluded by
  `PathJailAssumption`).

## Not modelled

* Contents of lines, commands, environment, exit codes and times beyond what the
  properties tell apart.
* File modes (the server is root in its container), a full disk, symbolic links.
* The read-only `info` handler, `List`, `Get` and `Logs` of the process table; the
  decoding of bodies; the MCP protocol; the access log; the rewriting of headers and
  paths in `vnc`; the text of `docs`; `.env` and the defaults of texts in `config`.
* websockify, and images that lack one of the tools that `entrypoint.sh` looks for.
* `Dockerfile`, workflows and samples: no behaviour of the program.

## Plan

In order of weight; the modules above are the steps that are struck out.

1. ~~`LogStream` with `LineFeed`, and its proofs~~
2. ~~`ProcManager` and its proofs~~
3. ~~`Audit`, and `Exec` on top of it~~
4. ~~`PathJail` and `Browse`~~
5. ~~`FsApi`~~
6. ~~the readers of `FsApi`~~
7. ~~`Server`: middleware, handlers and trail, shutdown and restart~~
8. ~~`Desktop`~~
9. `Procs`: the table and the logs together (a `Remove` while a stream follows,
   `Start` recorded after its process may have exited), with the recorder.
10. Proofs: ~~`Audit`, `Server`, `Exec`, `Desktop`~~; ~~the safety part of the
    refinement `LogStream` => `LineFeed`~~; ~~`CapturedIsPrefix`~~; ~~`FileKeepsTrail`~~;
    ~~the tree invariant of `FsApi`~~; ~~`ReadersSeeWhatStays`~~;
    ~~`PathJail` and `Browse`~~; ~~`UnrelatedRequestsKeepPromise`~~.
