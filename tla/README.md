# costrict-router in TLA+

costrict-router is a local HTTP proxy.  It logs in to CoStrict, keeps the tokens
fresh, and serves the OpenAI Chat Completions, OpenAI Responses and Anthropic
Messages protocols on one local address, converting the last two to and from the
upstream's Chat Completions.  This directory models the parts of it whose
correctness depends on order, concurrency or failure, checks them with TLC on small
instances and proves some of the results with TLAPS for every instance.

All paths below are relative to the repository; `PROJECT.json` maps every definition
to the lines it translates.

    tlc -workers 2 -config MCConversation.cfg MCConversation.tla
    tlapm TokenServiceProofs.tla

## 1. The system

| Component | State | Operations | Hard behaviour | Correct when |
|---|---|---|---|---|
| Token service: `internal/server/server.go`, `internal/auth` | the configuration under an RWMutex, the refresh loop's timer | `EnsureFreshToken`, `Config`, `StartRefreshLoop`, `Run` | many callers, one rotating refresh token; HTTP and file I/O under the lock; process stops between exchange and save; lost replies | a refresh token is used once, the file always allows a restart, nobody waits forever, the loop keeps the tokens alive |
| Configuration file: `internal/config`, the commands of `cmd/costrict-router/main.go` | one JSON file, one temporary file, a copy in every process | `Load`, `Save`; login, key reset, auth enable/disable, fallback, models, test, codex-catalog, start, serve | whole-file saves by independent processes, copies that grow old during prompts, crashes between truncate, write and rename | the file can always be loaded, no setting or credential is undone, the key that was printed is the one that works |
| Background service commands: `main.go` start, stop, restart, status; `/healthz`, `/-/shutdown` in `server.go`, `proxy.go` | PID file, TCP address, service processes | `cmdStart`, `cmdStop`, `cmdRestart`, `waitForHealth`, `readDaemonState`, `writeDaemonState` | commands and services interleave and die at any step; a service is known by address and by PID, which may disagree | no background service that no command can find, a command stops only the service it means, "started" means serving |
| Model resolver: `internal/proxy/models.go` | known models, remembered fallback, time of the last list and of the last attempt, two mutexes | `Resolve`, `stripClaudeAlias`, `ensureModels`, `update`, `applyModelSubstitution` | a cold or stale list met by many requests; the list is replaced between two reads of one request | nothing unavailable is forwarded, an available choice is kept, the upstream is not asked again and again |
| Messages encoder: `internal/compat/messages_stream.go` | open block, tools by index with buffered arguments, stop reason, think splitter | one chunk, an error object, the end | any interleaving of text, reasoning and several tool calls; arguments before names; blocks that must not overlap | the events are a legal Messages stream, arguments whole, text in order and never twice, and the end says what the upstream said |
| Responses encoder: `internal/compat/responses_stream.go` | output items, tools by index, text and reasoning buffers, outcome | the same | the same, and a last event that repeats everything | the same, and the last event agrees with the stream |
| Think splitter and argument gate: `think.go`, `tool_arguments.go` | state machines over partial text | `Push`, `Flush`, `Filter` | text held back while undecided | the result does not depend on where chunks are cut |
| SSE transport: `sse.go`, `stream_bridge.go`, `proxy.go` `streamCompatResponse`, `metrics.go` `copyAndFlush` | two pipes, a mutex, a ticker, four goroutines | scan, encode, ping, copy, close | blocked writes, a client that leaves, a silent or failing upstream, pings beside events | pings keep the client, nothing after the end, no goroutine of the encoder leaks |
| HTTP handler: `proxy.go` | the body of a request on its way | `forwardCompat`, `forward`, models, health; routing, local key | the body is converted before the model is known and adapted after it was replaced; the list changes, the lock is held during a fetch | what is sent fits the model it names, every entry treats a request alike, everybody gets through |
| Request conversion: `messages.go`, `responses.go`, `image.go`, `tools_sanitize.go`, `model_policy.go` | none (pure functions) | `DecodeRequest`, sanitizing, the policies of models | a list of heterogeneous items becomes chat messages in which calls and results must be adjacent; tools are dropped one by one | every tool call is followed by its results, nothing is lost, no choice is left without tools |
| Plain answers: `EncodeResponse`, `ChatJSONToSSE`, `errors.go` | none | the answer as a whole, or as a stream of one chunk | the same answer goes through two pieces of code | both clients get the same parts and the same end |
| Logging: `internal/logx`, `start`, `logs -f` | the log, its backups, the offset of the follower | `Rotate`, `New`, writes, `logs -f` | services that start at once rotate one log; a follower reads a file that grows and is renamed | no backup too many is lost, what is written is shown |
| Login, models/test/codex-catalog, token counting, update check, i18n, ids | files | sequential | | |

How they meet.  Every request first calls `EnsureFreshToken` (token service), then
`Resolve` (model resolver), then the upstream.  A converted stream starts four
goroutines: the handler, the upstream copier, the encoder and the keepalive, joined by
two `io.Pipe`s.  The token service writes the configuration file the commands write
too, without any lock between processes.  `start` and `stop` reach a service only
through the PID file, the health endpoint, the shutdown endpoint and a kill.

## 2. The modules

| Module | Models | Its state machine |
|---|---|---|
| `EventStream` | abstract specification: what a client of a converted stream may rely on, in both protocols | blocks opened in order, growing while open, closed once; one end |
| `StreamInput` | `think.go` and `tool_arguments.go` as the encoders see them: every outcome of a push over fragments; `ChatJSONToSSE` | operators only |
| `MessagesStream`, `ResponsesStream` | `messages_stream.go`, `responses_stream.go` | generator goroutine between two reads; `up` records what the upstream said and when |
| `RequestConversion` | `anthropicMessageToChat`, `responsesInputToChat`: the history of a request as chat messages | operators only |
| `StreamCodecs` | both encoders behind one upstream; implements `EventStream` | the protocol, then the encoder's |
| `Conversation` | `StreamCodecs` with `RequestConversion` and `EncodeResponse`: what was streamed comes back in the client's next request, and equals the answer in one piece | that of `StreamCodecs` |
| `TextFilters` | `think.go` and `tool_arguments.go` character by character, with `splitInlineThink` and `normalizeToolArguments`; each push is one of `StreamInput`'s | a text cut anywhere, the filter |
| `StreamRelay` | `sse.go` `streamPipe`, `proxy.go` `streamCompatResponse`, `copyAndFlush` | four goroutines, two pipes, the client, time |
| `TokenService` | `server.go`, the token request of `auth/client.go` | callers, lock, memory, file, server, time, restarts |
| `ConfigStore` | `config.go` `Load`/`Save` and every command that saves | processes, two file names, contents |
| `ModelResolver` | `models.go` | requests, two mutexes, the changing upstream list, time |
| `RequestPath` | `forwardCompat`, `forward`, `tools_sanitize.go`, `model_policy.go`; composed with `ModelResolver`, which it implements | what each request has become |
| `Daemon` | `cmdStart`, `cmdStop`, `cmdRestart`, health and shutdown endpoints | terminals, services, PID file |
| `LogFiles` | `logx` `Rotate` and `New`, the output `start` opens, `logs -f` | paths, files, services, a follower |
| `TokenServiceProofs`, `RequestPathProofs` (with those of `ModelResolver`), `StreamRelayProofs`, `DaemonProofs`, `ConfigStoreProofs`, `LogFilesProofs`, `StreamCodecsProofs` (with those of `Conversation`), `TextFiltersProofs` | theorems | |
| `MC*` | instances for TLC | |

### Correspondence

**MessagesStream, ResponsesStream.**  `st` is the Go state structure plus `view`, the
client's picture of the events emitted so far.  Each method is an operator from state
to state (a set of states where `StreamInput` has several outcomes), composed in the
order of the Go code.  The actions are the callbacks of `scanChatStream`: a chunk
(`ReadChunk`, then one `ReadToolCall` per tool call, then `ReadFinishReason`), an error
object, the end of the scan, `finish`.  A text fragment is named by the number of the
chunk that carried it, so that losing, repeating and reordering can be seen.  The chunk
is split at its loop over the tool calls only to keep the operators small: nothing else
runs between those steps.  `up` is history: the last finish reason (`finish`), whether a tool
call came after it (`late`), whether tools were called and one of them was named before it was
closed (`calls`), an error, and the answer when it came in one piece.

**StreamInput, TextFilters.**  In `StreamInput` characters are not modelled: a push
returns the set of all outcomes the code can produce for some text, including a fragment
cut in two by a tag.  `TextFilters` has the same functions over characters, each marked
with the piece it came in, and the functions that plain answers use instead; the property
`StreamInputCovers` says that forgetting the characters gives an outcome `StreamInput` has,
so that the encoders, which are checked with `StreamInput`, are checked with every text.
For TLC the tags are abbreviated; of their form only that no character of a closing tag after
its first is `<` again (`TagAssumption`) is used, and for `StreamInputCovers` alone.  JSON is what `ObjectAssumption` says of the texts of objects
(they begin with a brace and end where it is closed, brackets in string literals aside), and the
literals `DecodeString` reads; one blank stands for all white space.  That a text of the model
has no blanks inside its strings is a restriction: `Marshal`, which stands for decoding an object
and writing it again, drops all blanks; keys given twice and their order are not modelled.

**StreamCodecs.**  The path of the request chooses the protocol, and from then on every
step is one of `MessagesStream` or `ResponsesStream`.

**Conversation.**  `EncodeResponse` is an operator from an answer to the parts and the end it
lists; a streamed answer that came in one piece (`ReadAnswer`: `ChatJSONToSSE` feeds the encoder
one chunk and `[DONE]`) is compared with it.  The answer says of its content whether it begins
with a thought, blank or not, and whether text is left (`AnswerShape`).  Both sides follow from
that: `SplitInlineThink` trims the thought and so drops a blank one, and `WholePush` lets the
splitter of the stream take only those outcomes that emit, now or at its flush, a thought and a
text when the content has them.

**RequestConversion.**  Both conversions are folds over a list, written as recursive functions so
that they can be proved about (the folds of the community modules recurse over sets of which an
element is chosen at each step).  A text is the fragments
it is made of, a call a number; `Accepted` is the upstream's rule as the comments and tests
of `messages.go` and `responses.go` give it: results follow their calls at once, and
a message with calls carries reasoning.  `Conversation` adds the client, which is not part of
the repository: it assembles the answer from the events, runs the tools and sends both back.

**StreamRelay.**  A pipe holds at most the one chunk its writer is blocked on, which
is `io.Pipe`: a write returns when it was read or when the reader has closed.
`mu` is `streamPipe`'s mutex, `done` its channel, `since` the age of `lastWrite`.  Time
advances only when every goroutine waits, so executing takes no time; the length of a
step is `streamKeepaliveInterval / Interval`.

**TokenService.**  A pair of tokens is its serial number.  `mem` is `Service.cfg`,
`disk` the file, `pc` the place of every goroutine inside `EnsureFreshToken`; `Check`,
`Issue`/`Reject`, `Apply`, `Save` are its steps in their order, with `ApplyFails`,
`SaveFails` and `RefreshFailed` as its error returns.  The CoStrict server is outside
the repository: it may or may not revoke the refresh token it was shown, answer with a
pair of any age, fail, or have its reply lost.

**ConfigStore.**  `path` and `tmp` are the two names, `content` the bytes behind
each file: `Save` is `OpenTmp` (truncate), `WriteTmp`, `Rename`.  A writer whose file
another writer had filled meanwhile may leave a mixture.  Every command is Load (`act`),
its own change, Save; `want`, `shown`, `together` and `crossed` record history for
the properties.  Of the fields, tokens, key, `auth_disabled`, `fallback_model` and `listen_addr`
are modelled.  A service may be given `--addr`, which `Boot` puts into its copy
(`server.go:124-126`) and its next refresh into the file (`server.go:69`); `Edit` is the user
who changes `listen_addr` in the file while nothing runs.

**ModelResolver.**  `known`, `fallback`, `fetchedAt` and `lastAttempt` are the fields of
the Go type, `fetchMu` its mutex; the RWMutex `mu` protects single reads and writes,
each of which is one step.  `pc` follows a request through `ensureModels` (check, lock,
recheck, fetch), `stripClaudeAlias` and `applyModelSubstitution`.  A name is a model with the
prefix `claude-` or without it, and a list may have either: the prefix does not tell an alias
from a model that is called so.

**RequestPath.**  A body is what `sanitizeTools` and `ApplyUpstreamModelPolicy` read of
it: the model, which kinds of tools it has, the kind of `tool_choice` (a word, a function, a
built-in tool, anything else), whether there is a
structured `response_format`, the temperature, `stream` and `thinking`.  `stage` follows
`forward`: `token` (`EnsureFreshToken`), `models` (the steps of `ModelResolver` for this
request), `sent` or `refused`; the converted entries refuse in `Receive`, the chat entry
after its model was resolved, as the code does.  Which family a model's name selects, the
overrides of the configuration and its `fallback_model` are constants.  Invalid JSON,
which of several functions `tool_choice` names, and images are left out.
`ModelResolver` has no run of its own: its properties are checked here.

**Daemon.**  Processes are numbered in the order of their start; `Answers` is the health
check.  `Obeys` says which service obeys the shutdown request with the PID file's token, `Ask` is
that request and, when nobody obeys, `Kill`.  A PID names its process while that lives.  When it
has ended the system may have given the PID away: the kill then hits nothing, a later
service, or a program of no interest here (`struck`).  A service that ends without a command
having ended it is `lost`; that is how a PID file becomes stale.
`together`, `broken`, `stale` and `vouched` record what the properties make an exception for:
commands that ran at once, a start that was interrupted after it had made its child, a command
that was interrupted between ending a service and removing its PID file, a
start that took another service's health answer for that of its booting child.

**LogFiles.**  A file keeps its identity when it is renamed: `path` says which file is
at the log and at each backup, `size` counts lines.  `StatLog`, one `RenameBackup` per
backup, `RenameLog` and `CreateLog` are the system calls of `Rotate` and `New` in
their order; `late` marks a service that looked at the log before another one renamed
it.  `Poll` takes the size, `Read` reads to the end of whatever file is there by then and sets
the offset to the size taken, as `logs -f` does.

## 3. The runs

| Run | What it shows |
|---|---|
| `streams` | every stream of up to four chunks, of the shapes named below and with errors, `[DONE]` or a cut anywhere, becomes a legal stream of either protocol (`ImplementsEventStream`); arguments arrive in order and without a hole, text in order and never twice, and the last event of a Responses stream lists what was streamed (`DeltasAddUp`; that no text is missing is not claimed, see section 6); errors, truncation and tool use are told, in a Messages stream as the last finish reason has it, and a tool named in time reaches the client (`EndTellsUpstream`); the answer comes back as a history the upstream accepts, wherever the client puts its own words and pictures (`NextRequestIsAccepted`); an answer in one piece has the parts and the end `EncodeResponse` would have given it, but for what the splitter holds back and for blank thoughts (`PlainAnswerAgrees`) |
| `text_filters` | where a content or the arguments of a tool call are cut makes no difference (`CutsDoNotMatter`), the stream adds up to what a plain answer has (`StreamAgreesWithPlain`), and `StreamInput` has every outcome (`StreamInputCovers`) |
| `stream_relay` | a silent stream is pinged (`ClientHearsInTime`), between events and never after the last one (`PingsBetweenEvents`), the last event arrives (`ClientGetsTheEnd`), a leaving client ends the request and the encoder's goroutines (`NobodyStaysBehind`) |
| `token_service` | `RefreshTokenUsedOnce`, `FileKeepsUp`, `LogoutNeedsMishap` under concurrent callers, lost replies, failing saves and crashes; every caller is answered and the loop refreshes (`EveryCallerAnswered`, `LoopRefreshes`) |
| `config_store` | a crash never damages the file (`DamageNeedsCrossedSaves`), settings and keys survive everything that happens one after the other, except that a service's `--addr` replaces `listen_addr` at its next refresh (`SettingsSurvive`, `ShownKeyWorks`, `NothingOldComesBack`) |
| `request_path` | a model that is not in the list is not sent (`ForwardsAvailable`) and one that is in it is replaced only by the model behind its `claude-` prefix, while an alias gets the model it stands for as long as that is listed (`ChoiceRespected`), the upstream is not asked for its list again and again (`FetchesAreSpaced`); a body fits the model that it names in the end, and keeps what this model takes, with two exceptions for temperatures (`UpstreamBodyFits`); the three entries refuse and send the same, but for the differences it names (`EntriesAgree`); a request gets through whatever becomes of the list (`RequestsGetThrough`) |
| `daemon` | a background service can be found unless there was a mishap (`NoOrphan`), stop ends the service its PID file was written for and no other process, unless that one had ended by itself, a stop was interrupted or commands ran at once (`StopHitsItsOwn`), a start that reports success has a child that serves (`StartedMeansServing`, with the exceptions it names) |
| `log_files` | a rotation loses the oldest backup only, unless two services rotate at once (`LossNeedsOverlap`); `logs -f` catches up with the log (`FollowerCatchesUp`) |
| `cut_is_not_completed`, `listed_response_is_accepted`, `tokens_not_rolled_back`, `restart_loads_new_key` | violated: the findings of section 6 |

Each property of a passing run has a mutant of the code (`PROJECT.json`, "mutants"; the
mutated operator stands before the one it replaces) that TLC finds to break it.

### Bounds, and why they are enough

* `streams`: two tool indices and four chunks.  Two tools give every relation between
  a tool and another one; arguments before the name, a name, an interruption by text
  and a late delta already need four chunks.  The chunk shapes are the ones upstreams
  send (one part each); the second call always has its name, since what a missing name
  does to a call does not depend on its number.  Answers in one piece have every
  combination of parts, with a blank thought among them.  The theorems have neither bound; only `PlainAnswerAgrees`
  rests on the run, and it is about the answers.
* `text_filters`: contents of up to five of: both tags, a letter, a blank, a lone `<`; arguments
  bare, wrapped and doubly wrapped, with strings that contain braces, quotes and
  backslashes, with garbage after them.  Four pieces put a cut on both sides of
  every character and inside a tag, a string and an escape at the same time.
* `stream_relay`: three reads from the upstream body (an event, a silence, an end) and an
  interval of two steps, so that a write can fall between two ticks.  Gaps and ages need
  no bound: they are reset by the pings the module proves to come.
* `token_service`: one request goroutine, the loop and the main goroutine, three pairs:
  two goroutines compete while a third pair can be issued after a restart.
* `config_store`: two processes alive at once and three started, two pairs, two keys, two
  addresses: a service with `--addr` refreshes, or a command changes what it loaded, and a third
  process meets the result.  The runs of the two findings start as many and have one address.
* `request_path`: two requests, two models, three lists (empty; a model with and without the
  prefix; a model and another one with the prefix), `TTL` 2, `Retry` 1, time to 2:
  one request reads the list twice while the other refreshes it and the list has grown old.
  The bodies are chosen so that each rule of `tools_sanitize.go` and `model_policy.go`
  applies to one of them; what they do to any body is proved.
* `daemon`: two terminals and two addresses (both symmetric), `MaxProcess` 3, `MaxCommands` 3.  Two
  services are too few: an orphan by a health answer that came from somebody else
  takes the one that answers, the child it is taken for, and the child of the next start.
* `log_files`: two services, the three backups the code keeps, a log that is long at three lines
  and a burst of one line between two polls (`ConstantsAssumption`: 5 MB are not written in half a
  second).

`CHECK_DEADLOCK FALSE` is set where the system may stop: a stream ends, commands,
starts and lines are bounded.  `TokenService` and `RequestPath` are checked for deadlock.

### Fairness

* `StreamRelay`: each goroutine that can go on does, and Go's mutex is not unfair to
  the encoder forever (`SF` of taking the lock; Go's starvation mode hands a mutex over after
  1 ms).  Nothing is assumed of the upstream or the client: the HTTP client has no
  timeout for a stream, so `ClientGetsTheEnd` starts from the moment the upstream
  goroutine is through.  A cancelled request does end (`WF` of the upstream under
  `cancelled`), as `net/http` promises.
* `TokenService`: goroutines run, an `RWMutex` starves nobody, the refresh ends within
  its 15-second timeout one way or the other, the loop's timer fires.  Nothing is
  assumed of the server's answers, of saves, or of the life of the process.
* `RequestPath`: handlers run (`WF`), `EnsureFreshToken` and the fetch of the list end
  within their timeouts of 15 and 5 seconds one way or the other, and `fetchMu` is handed to
  whoever waits longest (`SF` of `Lock`).  Nothing is assumed of the upstream's answer.
* `LogFiles`: the ticker of `logs -f` keeps firing (`WF` of `Poll` and `Read`); nothing
  of the services.
* All other runs check safety only.

`ClientHearsInTime` says two intervals, where a comment of `sse.go` speaks of one:
`lastWrite` is compared at ticks that are not aligned with it, so a stream that became
silent just after a tick is pinged at the second tick after it.  The bound of two
intervals is what the code gives; the limit the comment is about (proxies and clients
that time out) is far above it, so it is stated here and not as a finding.

## 4. What is proved

All proof modules follow one argument: `Spec => []IInv` for an inductive `IInv` that
strengthens the properties, one step per action, then the property from `IInv`.  Each
assumes only what its module assumes of its constants, so that it holds for any number of
requests, processes, terminals, models, chunks or seconds.

**TokenServiceProofs** (the goroutines are distinct, there is a pair).

* `TypeCorrect`, `UsedOnce` (`RefreshTokenUsedOnce`), `FileFollows` (`FileKeepsUp`) and
  `RestartCanRefresh` (`LogoutNeedsMishap`).
* The fact behind all three properties is `Written`: unless something was lost, the pair in
  the file is the newest one, except while somebody exchanges it.  It is not inductive by
  itself.  `IInv` adds `TypeOK`; `LockHeld` (whoever is inside `EnsureFreshToken` holds the
  lock); `Stages` (which goroutines can be where in the life of the process); `Asking` (the
  caller presents the pair in memory); `Exchanged` (what it received is the newest pair);
  `Numbered` (the pairs in use were issued, the newest is accepted, the exchanged ones are
  older); `InMemory` (file and memory agree but for the moment before the save).

**RequestPathProofs** (first the resolver by itself, then the path of a request).

* `TypeCorrect`, `AlwaysAvailable` (`ForwardsAvailable`), `NeverOverruled`
  (`ChoiceRespected`) and `Spaced` (the action property `FetchesAreSpaced`).
* `IInv` adds `OneFetcher` (the holder of `fetchMu` is the only one that fetches),
  `FallbackKnown` (list and remembered fallback change together), `NameKept` (what a request
  carries until it is resolved: the client's name, or the one behind its prefix) and `AttemptsDated` (a loaded list is as old as the last
  fetch, unless that one is under way or an old list is kept after its failure).  The lemma
  `ResolveKnown` says what `Resolve` returns.
* `PathUsesResolver`: `PathSpec => ModelResolver!Spec`, the path implements the resolver step
  by step, so the theorems above hold in it (`PathForwardsAvailable` is one).
* `BodiesFit` (`UpstreamBodyFits`) and `EntriesTreatAlike` (`EntriesAgree`), with their exceptions,
  for any bodies, families, overrides and lists.  The invariant `InFlight` says that until the model is known the
  body is the converted body and nothing else, and that what is sent is that body adapted to
  the model named in it; the rest is lemmas about what `Adapted` returns.

**StreamRelayProofs.**

* `TypeCorrect`, `PingsDoNotDisturb` (`PingsBetweenEvents`) and `HearsInTime`
  (`ClientHearsInTime`), for any interval and any number of reads.
* `Writing`: what is in the pipe was put there by the goroutine that holds the mutex.
  `Ending`: the mutex is free between the last event and the closing of the pipe, and no ping
  comes in between because the encoder has just written.  `Together`: the time since the last
  write is the time since the client got something, except between the write and its arrival.
  `Ticking`: a tick that finds too little time gone is followed by one that finds enough.

**DaemonProofs.**

* `TypeCorrect`, `AlwaysFound` (`NoOrphan`), `StopsItsOwn` (`StopHitsItsOwn`) and
  `SuccessMeansServing` (`StartedMeansServing`).
* As long as there is no mishap one command runs at a time (`OneCommand`), and only its child may
  be booting (`Booting`).  A background service that is not told to stop is then the one the
  PID file names, at the address it names (`Described`), so that a health check nobody
  answers means that there is none, and the start that follows may take the PID file
  (`Stages`).  `Tidy` says all of this of the one terminal that may be busy.
* `StopsItsOwn` needs an invariant of its own, `NeverStale`: while commands run one by one and
  none dies between ending a service and removing its PID file, the PID file never names
  a process that a command has ended (`Fresh`).  So the process a stop has read from the file is
  alive, and its PID is its own, or it was lost, which the property makes an exception for.

**ConfigStoreProofs** (the processes are finitely many; a truncated or mixed file is not a
configuration).

* `TypeCorrect` and `LoadableUnlessCrossed` (`DamageNeedsCrossedSaves`), whatever runs together
  and dies.  `Sound`: unless two saves crossed, one process at most is between opening and
  renaming, the temporary file is the one it opened, with nothing or all of what it saves in
  it, and the other file can be loaded; `Apart`: the two names are of different files.
  `FreeFileIsFree` counts: there is a file without a name for whoever opens the next one.
* `NoSettingUndone` (`SettingsSurvive`), `ServesTheShownKey` (`ShownKeyWorks`) and `NoOldKeyOrToken`
  (the action property `NothingOldComesBack`), as long as one process runs after the other.
  These are about authentication, the fallback model and
  `listen_addr`, the key and the tokens.  `Kept` relates the file to the memory of the one process that runs: `Rest` says at every
  place of a command how its copy and the service's copy compare with the file and with what
  the user wanted, `Saves` says of what is being saved that it is as new as the file and that
  its settings are the ones that will be wanted once it is renamed.  `Fits` says which
  commands can be at which place.  One lemma per operation shows that it keeps both.

**LogFilesProofs.**

* `TypeCorrect`: the types of `LogFiles`.  `Created` bounds the number of files by the services
  that may have left the log without one; `Turning` says which backup a rotating service is at.
* `OldestIsLost` (`LossNeedsOverlap`), for up to three backups; the code keeps three
  (`logger.go:46`).  `RoomToRotate`: before a service that is not late renames backup `i`, there
  is room at `i + 1`.  With four backups the property is false, and TLC shows it: two services
  that rotate side by side, neither of them late, shift the same backups at different places.

**StreamCodecsProofs** (what `StreamInput` assumes of the shapes of chunks and answers), for any
tools, any chunks in any order and any number of them, errors and cuts anywhere.

* `EncodersImplementEventStream` (`ImplementsEventStream`): both encoders refine `EventStream`.
* `InOrderAndOnce` (`DeltasAddUp`), `EndIsTold` (`EndTellsUpstream`), `TypeCorrect`.
* `InvariantHolds`: `SInv` is inductive.  It was checked by TLC on the instance of `streams`
  first.  It says, while the upstream is read (`MScans`, `RScans`), that the encoder's own
  idea of what is open is the client's (`MGood`, `RGood`: the current block is the last one;
  every started tool has an open block of its own, and nothing else is open; the Responses
  buffers and outputs repeat the items); that the text sent so far rises, and what the think
  splitter holds undecided comes after it and before the next chunk (`Rising`,
  `MUndecided`); that of every tool what was sent, what waits for its name and what its gate
  holds is what came (`MCounts`, `RCounts`); and that the error and the finish reason are
  remembered.  `MTold` says of the Messages encoder that its stop reason is that of the last
  finish reason and the tools called by then, and that a tool has a name exactly when one came
  in time; `MUsed` that the client sees no tool without one.  The properties alone are not inductive: they say nothing of what is held back.
* There is one lemma for each method of the encoder (what it does to a good state), one for
  each action, and one that a step is a step of `EventStream` (`StepGood`, `OnwardExtends`).
  Sequences are handled by what they are at every index, so that no induction is needed;
  `ROrderedIs` counts the finished items to show that the terminal event lists all of them.
* `AnswerGoesBack` (`NextRequestIsAccepted` of `Conversation`), for both protocols.  It rests on
  `TypeCorrect` and, that the listed items are the streamed ones, on `InOrderAndOnce`; the rest
  is about `RequestConversion` and holds of any items and blocks.  `Fold` names a fold by what it
  does at each element; `FoldOn` says that a fold of a longer sequence goes one step further
  (`JoinedIs`, `OfTypeIs` and `ReadIs` are that for the three folds of the module), and
  `AppendInduction` that what holds of the empty sequence and goes on with each element holds of
  all.  That induction is over a given set, and proved by counting (`Induction`): numbers it does
  not reach could all be moved down by one, into a smaller set.
* `Good` is the invariant of `responsesInputToChat` over the items of an answer: until a text follows
  a call, the messages are plain ones and one last one, which has every call, has reasoning if
  it has a call, and has a text only if nothing may join it any more; and no word is missing.
  `GoodStep` takes it from item to item, `GoodHistory` to the whole answer.  `AcceptedIs` says which
  histories of that shape the upstream accepts, and `OutputsAre` that the results come right after
  the calls.  An answer in the order of its done events has its calls side by side
  (`FinishedTogether`), whatever was streamed.  For the Messages protocol `AnswerIs` and
  `TurnAccepted` show the same of the three forms of the user's message.

**TextFiltersProofs** (the texts are sequences of characters and the tags longer than one,
`TextAssumption`; JSON objects are what `ObjectAssumption` says), for any alphabet and tags, any
texts of any length, cut into any number of pieces.  Only `PushesAreCovered` also needs
`TagAssumption`.

* `TypeCorrect`, `CutsAreInvisible` (`CutsDoNotMatter`) and `AnswersAgree`
  (`StreamAgreesWithPlain`).
* `CutsDoNotMatter` speaks of a filter that was given all at once.  `PlainDetecting` and
  `PlainFilter` say what such a filter does, over plain characters; `FilterFollows` says that a
  filter that was given pieces stands where they say.  With the types of the other variables
  that is `Inductive`, which TLC checked on the instance of `text_filters` before it was proved.
  `PushFollows` and `GatePush` are its steps: what a filter that holds back the end of one piece
  makes of the next is what it would make of both.  They need that a tag found in a text is
  found at the same place when the text grows, and that what `overlapSuffixLen` holds back is
  enough: a tag that lies across the cut begins in it.
* The only difference a cut makes is how many of the blanks after `</think>` are in the buffer;
  they are dropped in any case, and `Follows` says just that.
* What is left is about whole texts: `FlushCompletes` compares the splitter with
  `splitInlineThink`; `ArgumentsComplete` the gate with `normalizeToolArguments`.  For the latter
  `ObjectScanned` says that the gate is done at the last character of an object and not before
  (its flags are `Quoted`, its depth is `Nesting`), so that what is let through holds the object
  and nothing behind it; `MarshalSame` that two ways of decoding it agree, whatever blanks
  surround it.
* Scanning, decoding and marshalling are recursive functions over a text.  The induction the
  library offers takes an operator, but `WFMin` takes none: `LeastElement` follows from it for
  every set of naturals, `Induction` from that for a set that is given, and `Recursion` says of
  a recursive function on `0..k` what its value at each place is.
* `PushesAreCovered` (`StreamInputCovers`): every push of characters is one of the outcomes the
  encoders are proved and checked with, so that `StreamInput` leaves nothing out.  `SplitOf` and
  `PassOf` forget the characters; `PushCovered` and `GateCovered` go through the branches of both
  filters.  They need that what is held back came in earlier pieces than the one pushed (`Dated`,
  an invariant on top of `Inductive`): then all that is joined out of both has the pieces of the
  first and one more (`FragsAdded`, `Sides`).  They also need `TagAssumption`: what is held back
  inside a thought begins a closing tag, and as `<` is not in it again, either all of it goes on
  as the beginning of a tag or none of it does (`TagBegins`).  With a tag like `<<x>` a push could
  let the first of two held characters through and keep the second, which `StreamInput` does not
  know; `think.go:10` has no such tag.

Only model-checked: liveness (`EveryCallerAnswered`, `LoopRefreshes`, `ClientGetsTheEnd`,
`NobodyStaysBehind`, `RequestsGetThrough`, `FollowerCatchesUp`), because TLAPS does not reason
about fairness here; and of the invariants and action properties `PlainAnswerAgrees` alone,
which compares an answer with every block of the stream made of it: it needs the exact effect
of each method of the encoders, one after the other, where `SInv` says only what they keep.

## 5. What is not modelled, and why

* The text of events, ids, names, token counts, metrics, log lines, translations: no
  property depends on them.
* The envelopes of local errors.  `proxy.go:185-188` says that the errors of a converted entry
  have the envelope of its protocol; those after the upstream was asked (`proxy.go:266`,
  `279`, `284`) and those of the check of the local key have the OpenAI envelope for
  `/v1/messages` too.  The choice is one call at each place and needs no state.
* Routing, the check of the local key, headers: straight-line code without state.
* Of a request, images, invalid JSON and which of several functions `tool_choice` names.
* The delay of the refresh loop (`nextRefreshDelay`, `server.go:94-117`): the loop of
  `TokenService` may call at any time and refreshes once it does, so an expiry time that is
  missing, past or misread is not covered.
* What `/v1/models` and the Codex catalog make of the list of models: formatting.  `/v1/models`
  shows the list of this moment and does not refresh the resolver's, so that a model just
  shown may be replaced for as long as the cached list lasts.
* The leak of the upstream goroutine after `[DONE]` or an overlong line
  (nobody closes the reading end of its pipe) is visible in `StreamRelay`, as `upstream`
  staying in `copy` with data in the pipe; nothing in the repository promises otherwise,
  so no property says so.
* `start` killing its child after 10 seconds in the middle of a refresh that may take 15:
  `TokenService` has the crash in the middle of the exchange and `Daemon` the kill; their
  clocks are not composed.
* Login (polling for one browser exchange), `models`, `test`, `codex-catalog` output, token counts,
  update check, platform process flags: no shared state, beyond what `ConfigStore` has of them.

## 6. Findings

1. `CutIsNotCompleted`: a stream the upstream cuts off is presented to the client as a
   complete one.  `sse.go` says a read error is reported through the callback once more;
   it is returned instead and both encoders discard it.
2. `ListedResponseIsAccepted`: when a text stands between two tool calls of an answer, as
   the router's own `response.completed` may list them, the client that sends this list back
   gets a history in which the second call separates the first from its result, which the
   upstream refuses by the rule `responses_test.go` states.
3. `TokensNotRolledBack`: `fallback` refreshes tokens through a copy of its configuration
   and then saves the configuration loaded before, with the exchanged pair.
4. `RestartLoadsNewKey`: after `key reset` beside a running service, the service's next
   token refresh writes the old key back, so the documented restart loads the old one.

Behaviour the passing properties state with an exception, and that a reader of the code may not
expect:

* `start` asks an address, not its child.  A health answer of the service that restart has
  just told to stop makes it report success for a child that will find the address taken
  (`StartedMeansServing`).  If its child is still booting, the next start finds nobody,
  starts a second one and overwrites the PID file: the first is an orphan (`NoOrphan`, `vouched`).
* Content the splitter cannot decide on (white space, the beginning of a tag, or the end of an
  unclosed thought) comes after the tool calls in a stream and before them in a plain
  answer (`PlainAnswerAgrees`).
* The argument gate and `normalizeToolArguments` agree whenever the text holds an object.  They
  differ for texts that hold none: `null`, an array or a bare word passes the gate,
  a plain answer has `{}` (`HoldsObject` in `ArgumentsAgree`).
* A blank thought (`<think>` and `</think>` with white space between them) is streamed as a
  thinking block, while `EncodeResponse` trims it away (`think.go:25`, `PlainAnswerAgrees`).
* For Kimi and the automatic choice the temperature of a request is dropped for a structured
  `response_format` that is itself dropped because the request has tools; and the automatic choice
  drops a temperature of one beside a structure, which every model takes (`model_policy.go:77-79`,
  `UpstreamBodyFits`).
* A model that is listed under a name beginning with `claude-` cannot be asked for while the name
  without the prefix is listed, too: the prefix is taken for the alias of Claude Code
  (`models.go:75-86`, `198`), though `docs/advanced-usage.md:81` says that names which exist
  upstream pass through unchanged.  If the list changes between the two reads, the request may
  even get the fallback (`ChoiceRespected`).
* The chat entry passes on what the converted entries drop: functions without a name, a
  `tool_choice` without tools or of an unknown form, and `thinking`.  When `tool_choice` names a
  built-in tool, which all entries drop, Messages and chat pass the choice on (`messages.go:141`)
  and Responses drops it (`responses.go:134`) (`EntriesAgree`).
* The `--addr` of a service is saved over the `listen_addr` of the user by its next refresh,
  even when nothing else runs (`server.go:124-126`, `69`, `SettingsSurvive`).
* After a service has crashed its PID file is stale, and a stop whose shutdown request is not
  obeyed kills whatever has the PID by then (`main.go:1139-1142`, `StopHitsItsOwn`).
* In a Messages stream the last finish reason counts: one after a truncation hides it
  (`messages_stream.go:229-231`).  Tools that are never named are dropped (`276-279`), and the
  stop reason may still be `tool_use`, with nothing to run (`EndTellsUpstream`).
* Text the splitter still holds when a reasoning field arrives is dropped, by both encoders
  (`messages_stream.go:329`, `responses_stream.go:347`).  `DeltasAddUp` says that text is in order
  and not repeated, not that all of it arrives.
* Two services that start at once can throw away the log that was just rotated, or not
  start (`LossNeedsOverlap`, `RenameLog`).

## 7. Plan

Done in this order, because the streams and the tokens are what every request depends
on: `EventStream`, `StreamInput`, `MessagesStream`, `ResponsesStream`, `StreamRelay`,
`TokenService`, `ConfigStore`, `ModelResolver`, `Daemon`, `RequestConversion` with
the client's next request, the first two proofs; then `StreamCodecs`, `TextFilters`,
`LogFiles`, `RequestPath`, and the proofs of `RequestPath`, `StreamRelay`,
`Daemon`, `ConfigStore`, `LogFiles`, `StreamCodecs`, `TextFilters` and `Conversation`.

What remains: the clocks of `Daemon` and `TokenService` together (the health timeout against the
refresh), and the delay of the refresh loop; functions by name, with `tool_choice`, in
`RequestPath`; whether all text of a stream arrives, where no reasoning field follows it; the envelope of local errors, if
the handler is to be modelled to the last line.  The one safety property left to prove is
`PlainAnswerAgrees`.
