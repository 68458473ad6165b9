# A TLA+ development for repld

repld evaluates code in long-lived Julia, Python, R and Wolfram interpreters. One Go
binary (`src/go/`) is the client and the daemon; the daemon keeps a map of sessions,
each a child process, and serves every client connection in a goroutine of its own.
Most of what is hard in it is parallel: goroutines, processes and signals that meet in
an order nobody wrote a test for. Two parts are hard in sequence, the scanner that finds
the end of an eval in a stream cut anywhere, and the command line. This project models both.
File and line numbers below are of the modelled commit; every definition that stands for
code is listed with its lines in `PROJECT.json` under `map`.

## 1. The system

| Component | State | Operations | What makes it hard | Module |
|---|---|---|---|---|
| Client connection (`main.go` 20-129) | one socket connection | `connect` (15 dials), `startDaemon`, `run` | the daemon it starts races with others and with one that ends | `DaemonSocket` |
| Daemon lifecycle (`daemon.go` 301-394) | the socket path, the listener, `stopCh` | `listenExclusive`, `pingDaemon`, the accept loop, the idle watchdog, the end | the path is shared with other processes and no lock covers it | `DaemonSocket` |
| Request dispatch (`daemon.go` 30-299, 396-420) | locals of the handler: `sess`, `existed`, `err` | `handleConn`, `handleRequest`, `handleStreamingEval`, `staleReasons` | every call of the manager is a critical section of its own | `SessionManager` |
| Session manager (`manager.go`) | `sessions`, `lastErrors`, the singleflight group | `getOrCreate`, `remove`, `restart`, `close`, `free`, `interrupt`, `recordError`, `reapLoop`, `shutdown` | starts take seconds and kills up to seven, both outside the lock | `SessionManager` |
| Session evals (`session.go` 400-700) | `dead`, `busySince`, `sem`, `ctrlLines`, the pipes, the child process | `execute`, `executeRaw`, `interrupt`, `kill` | an eval, the watcher of its client, interrupts, the control reader and a kill run at once | `SessionEval` |
| Start and handshake (`session.go` 90-261) | a loopback listener, a token, two statements under a timeout | `start`, `acceptControl` | stray connections; a deadline racing the right one; a process that must not be left behind | `Handshake` |
| Output scanner (`session.go` 312-396) | the bytes of the current line | `scanToSentinel`, `holdback` | a sentinel or a rune split over two reads | `OutputScan` |
| Arguments (`main.go` 276-480, `config.go`) | the position in argv, what was parsed | `parseArgs`, `parseTarget`, `resolveLang`, `key` | which flags are repld's own depends on what came before | `CommandLine` |
| Runtimes (`runtime.py`, `.R`, `.jl`, `.wl`) | what is being evaluated | eval, report, hear a signal, print the sentinel | a signal that lands between two statements | in `SessionEval` |
| Owner leases (`owner.go`) | pid and start time | `ownerDead`, `resolveOwner`, `harnessPID` | an owner exits at any time | in `SessionManager` |
| Saved errors (`manager.go` 269-281, 365-383) | `lastErrors`, `errTimes` | `recordError`, `lastError`, `latestError` | recorded after the session was given up | in `SessionManager` |
| Keys and ids (`manager.go` 24-132) | none | `key`, `looksLikeID`, `uniqueIDLocked`, `keyForID` | two places compute the key of one session | in `CommandLine`, `SessionManager` |

How they interact. `CommandLine` turns argv into one request for one key; the client dials
the socket path (`DaemonSocket`) and sends it. An eval makes `handleStreamingEval` call
`hasLiveSession`, `restart` (with `--fresh`), `getOrCreate`, possibly a stale check,
`execute`, and on an error `remove` and `recordError`. All share `m.mu`, which is held for
map accesses only. `getOrCreate` starts an interpreter inside `singleflight.Do`
(`Handshake`). `execute` is serialised by `sem`; it starts a goroutine that calls
`interrupt` when the client's connection breaks (`SessionEval`). The runtime answers an
eval twice: with a status line on the control socket and with the sentinel on both output
streams, where two scanners look for it (`OutputScan`). A reaper goroutine closes sessions
whose owner process has exited. The end of the daemon kills all sessions while handlers
are still running.

What would make each component correct, in words, is the list of hazards in
`PROJECT.json`, each at the line where it bites and with the properties below that are
about it.

## 2. The modules

* **`SessionManager.tla`**, the core: `manager.go` and the handlers of `daemon.go`. One
  action is one critical section of `m.mu`, or one step between two of them. Goroutines
  are the connections (`Conn`), the reaper (`Reaper`) and `serveDaemon` (`Main`); `pc`
  says where each stands, `ses` is its local `sess`, `existed`, `err`, `reapKeys` and
  `doomed` are the other locals. A session is a number, in the order of `newSession`;
  `proc`, `dead`, `owner` and `sem` are its fields. `flight[k]` is the connection that
  leads the singleflight call of `k`; those that wait for it have `pc = "wait"` and get the
  leader's result in one step (`Finish`). `Session.kill` has two steps, the mark
  (`KillMark`) and the process leaving (`KillReap`), for each of its six callers. An eval
  is its outcome: it returns (`EvalReturns`), the reader hits EOF (`EvalDies`), the write
  fails (`WriteFails`), or it is cancelled or refused. A file run may find its session
  stale or not, whatever the runtime answers.
* **`SessionEval.tla`**: one session in detail, which `SessionManager` abstracts. `pc[e]`
  follows `execute` and `executeRaw`; `int[i]` follows an interrupt, for the watcher of an
  eval and for a `repld interrupt` alike; the interpreter has a `phase` (reading, running
  code, OK sent, over, idle). Status lines go from the interpreter over the `wire` to the
  control reader, which puts them in `ctrlLines` (`Deliver`) at any time, as late as it
  likes; of a line only the eval it is about is kept. `overtaken` records the evals that
  drained `ctrlLines` while a line was still on the wire, `aim` what an interrupt found
  busy. What an exited interpreter was doing is forgotten (`ProcessExits`), since nothing
  depends on it. `held` says that a process
  the code has started has inherited the pipes and outlives the interpreter: then a killed
  interpreter gives no EOF until its heirs leave.
  A `signal` may abort the statement that is running, at each of the places where the
  Python and R runtimes can be hit: before their handler is installed, in the code, after
  OK was sent but before the handler is gone (then ERR follows OK), and in the sentinel
  statement (then no sentinel is printed). It may also be dropped.
* **`EvalService.tla`**: the abstract specification both rest on. What a session promises
  to those that call `execute` on it, with no semaphore, reader, watcher or goroutine: one
  call at a time is served, none is admitted once the session is marked dead, code is given
  only to a process that runs, and a call that was admitted is turned away only from a
  session that is lost. `SessionEval` refines it with one session and all its inside
  (`Service == INSTANCE EvalService WITH ...`, the mapping is `ServiceAt`), `SessionManager`
  with all sessions and no inside. So what the manager takes an eval to be is what a
  session is.
* **`Handshake.tla`**: `start`, the accept loop and one `authed` goroutine per connection.
  `pc` and `stmt` follow `start` through its two statements, `interp` the interpreter from
  its launch to the dial-back, `acc` the accept loop, `won` the channel of capacity 1 that
  the winner is put into, `conn` every connection. `preload` is a language whose launch
  loads the runtime (Python), `launcher` an executable that runs the interpreter as a
  child, which a kill reaches through the end of its stdin only (`EndOfInput`), and that
  only at its prompt. `cause` records what may make a start fail.
* **`OutputScan.tla`**: the loop of `scanToSentinel`, one step per line it finds and one
  per read. Bytes are kinds (newline, return, first and later bytes of a rune, others);
  `input`, everything read, and `emitted`, everything sent, are histories. What
  `holdback`, `sentinelOverlap` and `partialRuneSuffix` compute is defined by the longest
  such suffix, where the code searches for it from the longest down.
* **`CommandLine.tla`**: the scan of argv, token by token, by `parseArgs` and `parseTarget`,
  `main`'s choice of a request and the key both sides compute. A token is a value with the
  attributes the code looks at (a dash, a name, an inline value behind `=`, whether it is a
  subcommand for a session or for the daemon, whether a file of its name exists, ...). A
  behaviour is a command line, or an eval and then a command for its session. What it means
  that a line describes a session (`EvalReading`, `CommandReading`: own flags and an exe that
  between them say enough) is stated of the tokens alone, without the scanner.
* **`DaemonSocket.tla`**: daemon processes and clients over the socket path. `path` is the
  inode that the path names, written as the daemon that bound it; `up` are the daemons
  whose listener is open. bind(2), listen(2), ping, unlink, close are separate steps, since
  other processes can run between them.
* `*_proofs.tla`, `SessionManager_refines.tla`: the theorems (section 4). `MC*.tla` and their `.cfg` files: the instances for TLC.

Operators called *Mutant of X* in the comments are what a plausible slip in X would make
of it. They are used in no specification; each shows that a property can fail.

## 3. What the runs show

Runs that must pass (P marks what is also proved, L liveness):

| Run | Properties | Instance | States |
|---|---|---|---|
| `races` | `TypeOK` P, `ClearedNeverRuns` P, `DiedIsUnregistered` P, `WaitsAreShort` P, `NeverOverwritten` P, `LostOnlyByEviction` P | 1 key, 3 connections (fresh, interrupt, close), 3 interpreters | 276,487 |
| `requests` | `RequestsAnswered` L, `ImplementsService` P | 1 key, 2 connections (file, label, interrupt), the daemon may stop, 3 interpreters | 146,046 |
| `leases` | `DeadOwnersReaped` L | 1 key, 2 connections (eval, free, close), 1 owner, 2 interpreters | 111,841 |
| `evals` | `TypeOK` P, `OwnStatus` P, `CleanStart` P, `ImplementsService` P | 2 evals with their watchers and 1 user's interrupt | 1,030,326 |
| `interrupts` | `InterruptEnds` L, `DisconnectEnds` L | 2 evals with their watchers | 236,486 |
| `starters` | `TypeOK` P, `NobodyTurnedAway` P, `StartersConverge` L | 3 daemons, one of them started by a client | 333,938 |
| `reads` | `TypeOK` P, `Verbatim` P, `ClosesExactly` P, `RunesWhole` P, `Streams` P | all outputs of up to 7 bytes of 6 kinds, reads of up to 3, a sentinel of 3 bytes, runes of 3 | 1,732,262 |
| `dialback` | `TypeOK` P, `OkHasControl` P, `FailsForCause` P, `LeavesOnlyIdle` P, `StartReturns` L, `FailedIsGone` L | the runtime and 2 strays, with and without preload and launcher | 47,206 |
| `commands` | `TypeOK` P, `ForwardsVerbatim` P, `SameSession` P | all command lines of up to 4 of 17 tokens; evals of 16 described sessions, each followed by every command line for it | 537,442 |

* `NeverOverwritten`: `getOrCreate` reads the map, gives the lock up for the seconds a
  start takes, and then writes. It never overwrites an entry, because only the leader of a
  key's call writes, and it looked or deleted after it became the leader.
* `LostOnlyByEviction`: a running interpreter that nobody can reach any more (not in the
  map, not being started, not about to be killed) was lost by one of the two unconditional
  deletes, `remove` after an eval's session died and the delete after an interrupt's kill.
  No other interleaving of restarts, closes, reaps, failed starts and the end loses one.
* `ClearedNeverRuns`: the code of a `--fresh` eval (or of a file run that restarts) never
  reaches the interpreter its restart removed, although the call it may join was begun
  before. (It may reach one that another client launched before the restart and that was
  still starting: a `--fresh` eval can therefore miss its own flags and environment.)
* `DiedIsUnregistered`: an eval that reported a dead interpreter leaves no dead session
  under its key; the next call starts a new one.
* `WaitsAreShort`: waiting never goes in a circle. The call that callers of `getOrCreate` wait
  for is led by a connection at work on that key, and a `sem` is held by one that is executing on
  that session, by whichever of the early returns, deaths and cancellations the evals before it
  came to their ends. It is what `RequestsAnswered` rests on, and no fairness is needed for it.
* `RequestsAnswered`: no request waits for ever, for a call in flight, a `sem`, a kill or
  an interrupt, unless the daemon exits.
* `DeadOwnersReaped`: a session whose owner exits does not stay, even if the reaper is busy
  closing others when it exits.
* `CleanStart`: after late or repeated signals an eval starts on an idle interpreter with
  nothing of another eval in its pipes.
* `OwnStatus`: an eval reports the status of another in one case only: a line was still on
  the control socket, or in the hands of its reader, when the eval drained `ctrlLines`, which
  is all the drain empties. And no line is ever that late by itself: a runtime that was
  interrupted has sent two for one eval, or an eval has waited its two seconds in vain.
* `ImplementsService`: see `EvalService` above. In `evals` it says that a session is one, in
  `requests` that the manager uses it as one.
* `InterruptEnds`, `DisconnectEnds`: an interrupt that finds an eval busy ends it, if need be
  by killing; so does a client that disconnects once its code was sent. Neither can reach what
  the code itself has started: a child that keeps the pipes open holds up the eval.
* `NobodyTurnedAway`, `StartersConverge`: daemons that start at once may remove each other's
  sockets, yet while none of them ends no client runs out of attempts and every client is
  answered: whoever removes the path has an attempt left to bind it.
* `ClosesExactly`, `Verbatim`: wherever the reads cut the output, the scan stops at the first
  line that ends in the sentinel and at no other, and what precedes the sentinel was sent, byte
  for byte. `RunesWhole`: no chunk sent ends inside a rune (each becomes a JSON string of its
  own). `Streams`: what is held back meanwhile is no more than a possible sentinel and a cut rune.
* `OkHasControl`, `FailsForCause`, `StartReturns`: a start returns, either with the runtime's
  own connection as its control channel, or for a reason of the interpreter's or the clock's;
  strays are none, and a dial-back that authenticates as the deadline passes is used or counted
  as late, never lost.
* `LeavesOnlyIdle`, `FailedIsGone`: no map entry leads to what a failed start leaves, so it must
  go by itself. Without a launcher nothing is left when start returns. With one, its child may be,
  and a kill reaches that through its stdin only; it has run all it was sent by then, since start
  awaits the readers also after a timeout, so that it is at its prompt, reads the end and goes.
* `ForwardsVerbatim` (README.md:59): every token of argv has exactly one reading, those for the
  interpreter, the script or the subcommand arrive complete and in order, and behind the exe
  no flag is repld's own.
* `SameSession`: a `close` or `interrupt` that describes its session as the eval did, in any
  order of words and flags, is for the key of that eval. Either line may leave out what follows
  from the rest: the language of a known exe, the default exe of a language, both behind a label.

Runs that TLC must find violated; each checks one property, stated in the repository, that
the code does not keep (`findings` has the quotes):

| Run | Property | What happens |
|---|---|---|
| `orphan` | `NothingOrphaned` | c1's eval dies with its session; c2 finds it dead, starts and registers another; c1's `remove` deletes c2's from the map. `isAlive` is asked of c1's session and `remove` acts on the key (`daemon.go` 280-281) |
| `idledeath` | `LostInterpreterIsUnregistered` | the interpreter exits between evals; `cmd.Wait` closes stdin; the next write fails and leaves `dead` unset, so the session stays registered |
| `overrun` | `KillsOnlyWhileItRuns` | an interrupt's polls miss the instant between two evals; at the deadline it kills the session under the second |

Seen while modelling, and in the models, but not stated as properties because no text of the
repository promises otherwise or because the premise of a property leaves them out:

* The drain of `executeRaw` (`session.go` 403-417) does not reach a stranded line that is still
  behind `ctrlLines`. Two such lines are possible: the ERR that follows OK when an interrupt
  lands late, and the line of an eval whose wait of two seconds was over before it came. An eval
  that begins before the control reader has passed it on returns it as its own status
  (`e \in overtaken`). It takes a reader goroutine slower than the next eval's way to its write.
* A session that is freed between the reaper's scan and its close is closed all the same
  (`manager.go` 243, against the answer at 231).
* A client that disconnects between the `sem` and `busySince` spends the watcher's one
  interrupt on an idle session, and nothing ends its eval (`session.go` 623).
* A starting daemon may remove the live socket of another between its ping and its remove, and
  a daemon that ends removes its successor's (`daemon.go` 330, 391). Starters recover; an end does not.
* `repld <exe> -` (README.md:16) forwards `-` instead of reading stdin (`main.go` 238).
* An exe before the subcommand (`repld julia close`) is dropped by `parseTarget`; of several
  `-e` only the last is kept; an exe that reads like an id (`pypy`) is taken for an id by `close`
  and `interrupt`, although `manager.go:78` says ids never look like exe names.
* `docs/architecture.md:71` lets a session without a control connection degrade; a start
  without one fails (`session.go` 187).

### Bounds

`MaxSession` bounds the interpreters started in one behaviour. With three connections,
two removals and three creations of one key overlap; connections do one request each, since a
client is a process that exits. `races` lets its evals be `--fresh` ones only: with no session
to remove, such an eval goes on as a plain one does, and it may still find or join a session
that another has made meanwhile. Plain, file and label evals run in `requests` and `leases`,
and the theorems hold for all requests. One key is enough because only the reaper and the end
handle two keys in one operation, and each treats them independently; the theorems hold for
any number. Two evals are enough for `SessionEval`, whose hazards all pass from one eval to
the next. Three starters can each spoil another's attempt. Seven bytes hold two lines, a
sentinel cut into three reads with returns behind it, and a rune before it. Two strays fill
the accept loop before and after the runtime. Four tokens are an exe, a flag with its value and one
more. Only the runs without a liveness property use symmetry.

`CHECK_DEADLOCK` is left on everywhere: the specifications end in an explicit stuttering
action (`Quiet`, `Idle`, `Settled`, `Returned`, `Done`, `Ended`) whose guard says when the system may
rest: each client answered or the daemon down, every eval returned, every daemon serving or
gone, `start` returned, the scan returned, the command line turned into a request or refused.
In `OutputScan` a reader with no more input rests through `EOF`.

### Fairness

Weak fairness of goroutines and processes that can run (the Go and OS schedulers), of
timers (deadlines, the ticker of the reaper) and of processes that were killed (the KILL
of `Session.kill` cannot be ignored). `SessionManager` also takes evals to end, through the
fairness of a handler's step: what `SessionEval` shows for interrupts is there assumed of
code. `SessionEval` does not: no fairness for `Report`, so code may run for ever, none for
`Hear`, so a signal may never have an effect, and none for `HeirsLeave`, so a child may keep
the pipes for ever; hence the `\/ held` of its two properties. `Handshake` is fair to the goroutines
and to its three timers (the statement's, the authentication's, the accept deadline), and not to the
interpreter, which may hang anywhere, except that one at its prompt whose stdin is closed ends
(`EndOfInput`; `FailedIsGone` rests on it); `StartReturns` excepts a statement that timed out in a launcher's
child, since the readers are awaited after the kill. Nobody is taken to send
requests, disconnect, crash, stop or exit.

### Timing that the models take for granted

`SessionEval` and `Handshake` take none: any timer may fire before anything else happens.

* `GiveUp` (`DaemonSocket`): 15 dials, over 8 seconds, last longer than a daemon's start.
  A daemon that listens answers a ping within its second.

## 4. What is proved

Every safety property the passing runs check is also a theorem, for all values of the constants. The
assumptions are those named in the modules: actors, peers, paths, byte kinds and null values are
distinct, bounds are natural numbers, the sentinel is a sequence of plain bytes and not empty, a
token's attributes are what the code can see of it (`TokenAttrs`), and, for `SameSession` only, an
eval that has a wish and the commands behind it describe one session (`LinesDescribe`). TLC
evaluates the last on all the lines of the run; command lines that carry no wish are not
restricted, and `TypeOK` and `ForwardsVerbatim` hold of any.

| Module | Theorem | Statement |
|---|---|---|
| `SessionManager_proofs` | `Typing`, `NoDeadLeft`, `FreshNotCleared` | `Spec => []TypeOK`, `[]DiedIsUnregistered`, `[]ClearedNeverRuns` |
| | `NoOverwrite`, `NoLossButEviction` | `Spec => NeverOverwritten`, `LostOnlyByEviction` |
| `SessionManager_refines` | `Implements`, `OneEvalPerSession` | `Spec => ImplementsService`, `[]Service!OneAtATime` |
| | `NoCircle` | `Spec => []WaitsAreShort` |
| `SessionEval_proofs` | `Typing`, `StartsClean` | `Spec => []TypeOK`, `CleanStart` |
| | `StatusIsOwn` | `Spec => []OwnStatus` |
| | `Implements` | `Spec => ImplementsService` |
| `EvalService_proofs` | `Exclusion` | `Spec => []OneAtATime`: no session serves two calls |
| `Handshake_proofs` | `Typing`, `Connected`, `StraysHarmless`, `NoneLeft` | `Spec => []TypeOK`, `[]OkHasControl`, `[]FailsForCause`, `[]LeavesOnlyIdle` |
| `DaemonSocket_proofs` | `Typing`, `StartersSuffice` | `Spec => []TypeOK`, `[]NobodyTurnedAway` |
| `OutputScan_proofs` | `Typing`, `NothingLost` | `Spec => []TypeOK`, `[]Verbatim` |
| | `StopsAtMark`, `NoRuneIsCut`, `NothingWithheld` | `Spec => []ClosesExactly`, `[]RunesWhole`, `[]Streams` |
| `CommandLine_proofs` | `Typing`, `Separates`, `OneKey` | `Spec => []TypeOK`, `[]ForwardsVerbatim`, `[]SameSession` |

Each component has a theorem `Invariance` for an inductive invariant (`OutputScan` a second one,
`Stopping`), since hardly any of the properties is inductive alone. Each invariant was checked with TLC on the
instance of the runs before it was proved. What it adds is what the code relies on silently:

* `SessionManager`. `LeaderIsNamed`: who executes the body of a singleflight call is its
  leader in `flight`; so there is one per key. `LeaderOwnsKey`: while a leader is past its
  second look, the key holds nothing, or the dead session the leader is about to delete; this
  is why a registration overwrites nothing, and it needs that every other writer of the map
  only deletes. `OnlyMade`, `StartingIsPrivate`: a session number in use was made, and one
  that is being started is known to its creator only, so that a failed start loses nothing.
  `NothingDoomedYet`: `shutdown` has taken no session before it ran. `DiedIsMarked`: "died" is
  only reported of a session that is marked. `ClearedIsDead`: what a restart removed is the
  session it is killing, or is dead.
* `SessionManager_refines`. `SemIsHeld`: who waits to write, or runs, holds the sem of its
  session. `MadeIsLaunched`: a session somebody can call has a process that was launched.
  `CallIsLed`: whom `flight` names is between its `Join` and its `Finish` for that very key, and
  who waits has a call to wait for; the leader lets all of them go in the step in which it ends
  the call. `SemIsBacked`, the converse of `SemIsHeld`: whom a `sem` names is executing on that session.
* `SessionEval`. `SemIsHeld`, `BusyIsHolder`: between `Take` and `Release` an eval holds the
  sem, and only it sets `busySince`. `RunsForScan`: an interpreter that is not idle, or has
  printed a sentinel, works for the eval that scans. `KillIsMarked`, `WriteFailsWhenLost`: a
  session whose process is gone is marked, or will be found out. `LinesAreOwn`: unless its drain
  was overtaken, only lines of the eval that waits are on the wire and in `ctrlLines`. `NoStrands`: as
  long as no interrupt found an eval and no wait was in vain, there is one line on the way from the
  report of an eval to its `TakeStatus`, and none otherwise, so that a drain is never overtaken;
  `VainIsLast` says that a wait in vain is not forgotten.
* `Handshake`. `DialsOnce`, `SaysInOrder`: the runtime's connection and what it has printed follow from where
  the interpreter is. `OnlyRuntime`: only its connection is ever verified.
  `ControlIsOpen`: the control connection is not closed unless the start fails. `GivesUpForCause`,
  `EmptyForCause`: a start that gives up, and an accept loop that ends with nothing, have a cause.
  `EndsWhenRun`: start goes on from a statement when it was run, or will not be; with `SaysInOrder`
  this puts an interpreter that is left at its prompt. `ExitsTogether`: only a launcher leaves a child.
* `DaemonSocket`. `HasRetry`: a daemon that has removed the path has an attempt left. `SomeoneBinds`: if
  the path is gone or dead and a client waits, a daemon is on its way to bind. `StartedOne`: a client that dials again
  started one.
* `OutputScan`. `Whole`: what was sent, is held back and is not looked at make up the input.
  `TailIsLast`: the bytes kept for a death are the last ones sent. `NoneBegun`: no byte that was sent
  begins a mark (the sentinel and the returns behind it) that what is held back could go on with;
  this is what holding back is for. `NoneClosed`: no closing line was passed over. `ClosedByMark`:
  where a scan that stopped has stopped. `RunesWhole` is then inductive by itself: the byte behind
  what was sent begins a rune or the sentinel.
* `CommandLine`. `Scanning`: the scan stands at the first token without a reading. `Separable`:
  the n-th token read for a purpose is the n-th that arrives there, and as long as the scan knows
  no exe, none was read. `Aimed`: what the scan knows of exe, language and label is
  exactly what the part of the description it has passed says (`Told`), in `parseArgs` up to its end
  or to the subcommand, and in `parseTarget` beyond it; behind the description of an eval, where the
  tokens are the interpreter's, it learns nothing more. `EnoughIsKey`: a description that says enough
  leads to the key of its session, whichever parts it leaves to be inferred.

An invariant is shown conjunct by conjunct or action by action, a lemma each; action properties follow from the
invariant of the state before the step; a refinement maps the initial states, and each step to
a step of the service or a stutter (`ImplementsService` has no fairness). `Exclusion` carries over to
both refinements.

Only model-checked: the liveness properties (`RequestsAnswered`, `DeadOwnersReaped`,
`InterruptEnds`, `DisconnectEnds`, `StartersConverge`, `StartReturns`, `FailedIsGone`), which need fairness and are
beyond the prover; of `RequestsAnswered` the part that is safety is proved, as `NoCircle`. The
three properties that are expected to fail are TLC's as well.

## 5. What is not modelled

* Formatting of output, errors and listings, log files, chmod and the pid file.
* Failures of `start` before there is a process (LookPath, pipes, listen, cmd.Start): one
  step, `StartRefused`, in `SessionManager`; they return an error and leave nothing.
* A client's `startDaemon` that fails (`main.go` 27-29 warn, and the client dials on in vain), and
  `connect` without `startIfNeeded` (38-40), which dials once and changes nothing. In
  `DaemonSocket` a daemon that is started runs.
* In `Handshake`, a launcher that exits before its child, and other processes that startup files
  leave with the pipes open: they would hold up the readers as a launcher's child does.
* In `OutputScan` all runes of an instance have one length.
* User code that closes its own stdout: the reader would take that for a death. In the
  models EOF comes when the interpreter and its heirs have left.
* `String()` and `logName()` of a key: `SessionManager` takes a key to be its `String()`,
  `CommandLine` to be its fields. Two keys of one `String()` need a colon in a label or a path at the right
  place. Ids are unique (random, and checked against the map under the lock).
* Which error `trace` shows: the models know which keys have one. Two evals that fail one after
  the other may save theirs in either order (`daemon.go` 290).
* Pid reuse and the walk to the harness's pid (`owner.go`): reads of the process table.
* `daemon`'s own flags, which files exist, what PATH holds: parameters of `CommandLine`, or left out.
* `singleflight`, `net` and the operating system are modelled from their use, and marked
  external in the map.
* The two output streams of an eval are one in `SessionEval`: both end in the same
  sentinel statement and both are awaited. `OutputScan` models one of them.
* The adapters' argument lists and code strings, Revise and manifest tracking in `runtime.jl`,
  rendering of errors in the runtimes; process information of each platform; the installer.

## 6. Plan

Done: the manager with its handlers; one session's evals and interrupts; the service both
implement; the start of a session; the scanner; the command line; daemons and clients over the
socket path; the proofs of all their safety properties.

What would be worth adding, in this order:

1. Saved errors with their order: what `trace` may show after evals, closes and a restart.
2. `String()` and `logName()` over labels and paths with colons, against the fields of a key.
3. A clock of requests in `DaemonSocket`, to say what the idle watchdog may end.
4. Owners as pids with start times, some of them unknown.
