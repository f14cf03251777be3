# A TLA+ model of spector

spector reads Go sources and writes API documents (OpenAPI, gRPC, GraphQL) and
what follows from a document: clients, tests, a verdict on a change. It also
lives at run time: as a console embedded in the documented program, as a watch
loop, as a mock, as a proxy that compares live traffic with the document, and as
a bridge from a browser to streaming gRPC calls. This directory holds TLA+
modules of those parts, TLC configurations that check them, and proofs that
TLAPS checks.

Paths below are relative to the repository's root.

## 1. The system

| Part | State it keeps | Operations | What is hard |
|---|---|---|---|
| Verifying proxy (`internal/proxy/proxy.go`) | findings (key -> count, first path), request and dropped counters, one lock | one HTTP handler per request: forward, count, record, inspect, report | handlers interleave; limits; a panic or an abort half way |
| its capture writer (`proxy.go`, `capture`) | status, header-sent flag, bounded body | `WriteHeader`, `Write`, `Unwrap` | 1xx answers, upgrades, body bound |
| its learner and recorder (`learn.go`, `record.go`) | endpoint -> statuses and first sample; a JSONL file; a lock each | `Observe`, `Record`, `Document` | shared by all handlers; limit |
| Proxy command (`cmd/spector/proxy.go`) | exit code, report, learned fragment | serve, shut down on a signal, summarise, report, learn, exit | handlers that outlive the shutdown; state read twice |
| Embedded console (`spector.go`, `Handler`) | the build being served, the fingerprint it stands for, when it was checked; one lock | `ensure` for every request, `build` | edits during walks and scans; failed scans; throttle |
| Watch mode (`cmd/spector/main.go`) | the last fingerprint, the files on disk | first generation, `watchLoop` | edits during a generation; its own output |
| Live gRPC streaming (`internal/grpcx/stream.go`) | frame channel, request pipe, context | six goroutines of one call | full buffer, closing order, goroutine leaks |
| Baseline of a revision (`spector.go`, `revisionDoc`) | a temporary directory | `git archive` piped to `tar -x`, then a scan | two processes and a pipe of bounded size |
| Evolve's comparison (`internal/evolve`, `cmd/spector/evolve.go`) | none | `Compare` of two documents, `Summarize`, the gate | requests and responses turn a change round; references into two documents |
| Route matching (`internal/route`) | none | `Compile`, `Match` | specificity order |
| Conformance checker (`internal/conform`) | none | `Check`, `Undocumented` | recursive schemas |
| Learned document and merge (`learn.go`, `merge.go`) | a file between two runs | `Document`, `InferSchema`, `MergeObserved`, `MergeManual` | the source moves on between learning and merging |
| Mock server (`internal/mock`) | none | sample answers, credentials, CORS | samples its own document must accept; what caches may keep |
| Router adapters (`internal/adapter/*`) | the groups, mounts and guards of a program while it is read | one scan per router | prefixes and guards spread over files, functions and closures |
| AST utilities (`internal/adapter/astutil`) | names of constants and locals, an index of functions | resolve a path, a receiver's type, a handler; inspect a handler through its helpers | which scope a name belongs to |
| Middleware analysis (`internal/middleware`) | an index of `Use` calls | what stands in front of a registration, what it checks | order and inheritance of guards |
| Document pipeline (`spector.go`, `internal/gen`, `internal/core`) | the document being built | routes to operations, ids, references, manual routes, security schemes | order of the passes |
| Lint (`internal/lint`) | none | unresolved, duplicate and shadowed routes | what registration order means |
| SDK generators (`internal/sdk`) | none; the clients hold what they read | types, decoding, encoding, URLs, errors in ten languages | what one language loses another writes back |
| Contract tests (`internal/contract`) | none | one planned call per operation, as a Go test, a shell script, an HTTP file | credentials, required inputs, statuses |
| proto and GraphQL scanners, exporters, advice, coverage, MCP server | none or one request | syntax heuristics, conversions, counts | breadth rather than behaviour |

How the parts meet: the console and the command line call the document
pipeline; the proxy takes a finished document, compiles its routes once
(`route`) and asks `conform` about every body; the learner's fragment can be
merged into the document, at the end of the session (`-proxy-merge`) or by a
later run (`-merge-learned`), by the merge that also adds routes declared by
hand; the mock serves the document through the same `route`; the console hands
a WebSocket to `grpcx.Stream`; evolve runs the pipeline twice, once over a
baseline. The pipeline asks the adapter of the program's router for its routes;
the adapters share the AST utilities and the middleware index; lint looks at
the same routes. The SDK and contract generators read a finished document.

## 2. Modules

| Module | Models | Extends / uses |
|---|---|---|
| `Capture` | the response writer, one exchange | - |
| `Learner` | `Learner.Observe` as operators on the learner's map | - |
| `DriftLog` | abstract specification: a bounded log of distinct findings with counts, each printed once | - |
| `Proxy` | the proxy's handlers, findings, counters, recording, learner | `Learner`, `DriftLog` (refinement) |
| `ProxyRun` | one run of the command around the proxy | `Proxy` |
| `Console` | `ensure`, `fingerprint`, `build` under concurrent requests and edits | - |
| `Watch` | the first generation and `watchLoop` in its three modes | - |
| `GrpcStream` | the goroutines of `Stream` | - |
| `Baseline` | `revisionDoc` with the two commands and the pipe | - |
| `Evolve` | `Compare`, beside what a client of one document can send and understand | `Conform` |
| `EvolveRun` | the command: tree, baseline, comparison, exit code | `Baseline`; `Evolve`'s operators as constants |
| `Route` | `Compile` and `Match` | - |
| `Schemas` | decoded values and schemas | - |
| `Conform` | `Check`, `Undocumented` | `Schemas` |
| `Samples` | the mock's samples, and the schema inferred from a value | `Mock`, `Conform` |
| `Mock` | one answer of the mock server | `Route`, `Schemas`; `Samples`' as a constant |
| `Merge` | the learned document, both merges | `Route`, `Schemas`; inference as a constant |
| `Documents` | a document beside its proxy, its mock and the runs that add to it | `Mock`, `Merge`, `Learner`; the checker as constants |
| `Sdk` | what a generated client does, in each of ten languages | `Route`, `Conform` |
| `Contract` | the calls the generated tests make and what they accept | `Samples` |
| `Clients` | clients and generated tests at work against a service and a gateway | `Sdk`, `Contract` |
| `Program` | a program's registrations as statements, and its handlers as small syntax trees | - |
| `Middleware` | guards in front of a registration, what a guard checks | `Program` |
| `Index` | which function a handler expression is, and the types that lead to it; constants and local names that spell a path | `Program` |
| `Adapters` | prefixes, groups, mounts and hand-offs of the eight adapters; the routes they find | `Middleware`, `Index` |
| `Handlers` | what a handler reads and answers, through helpers (`inspection`) | `Index` |
| `Execution` | what a handler really reads and answers when it runs | `Handlers` |
| `Build` | routes to a document: ids, parameters, schemas, schemes, pruning | `Adapters`, `Handlers` |
| `Lint` | what the lint says of the routes | `Build` |
| `Scan` | the program is scanned, then run statement by statement, then asked | `Lint`, `Execution` |
| `ConsoleProofs`, `WatchProofs`, `GrpcStreamProofs`, `CaptureProofs`, `RouteProofs` | theorems about the module each is named after | that module, `TLAPS` |
| `ProxyProofs` | theorems about `Proxy`, and from them about `ProxyRun` | `ProxyRun`, `TLAPS` |
| `BaselineProofs` | theorems about `Baseline`, and from them about `EvolveRun` | `EvolveRun`, `TLAPS` |
| `DocumentsProofs` | theorems about `Documents`, and lemmas about `Mock` and `Merge` | `Documents`, `RouteProofs` |
| `MC*` | constants for TLC; `Watch` and `GrpcStream` need none of their own | - |

### Correspondence with the code

**Proxy.** net/http runs each handler in a goroutine; a goroutine is a process
with a program counter `pc`. One critical section of a lock is one action:
`CountRequest` (`p.requests++`), `Record` (the recorder's lock), `Report` (the
proxy's lock), `Learn` (the learner's lock). `Announce` is the call of
`OnFinding`, which the code makes after it released the lock. `inspect` is the
pure function `Disagreements` from an exchange to the sequence of findings it
reports; what `route.Match` and `conform` answer is part of the exchange, and
what they do with real data is `Documents`' subject. The key of a finding is its kind,
operation and detail; the model folds the method into the path. The reverse
proxy is external: it answers, calls the error handler (`Unreachable`),
hijacks the connection (`Upgrade`, `TunnelCloses`) or panics to abort the
client's response (`Abort`). `findings` maps a finding to its count and the
path it was first seen on; `seen` is the learner's map, whose `count` field is
the sum of the statuses and is not kept apart.

**ProxyRun** adds the main goroutine: `Signal`, `Drained` or `DeadlineExpires`
(`server.Shutdown` with a five-second context), then one action per reading of
shared state: `Findings` and `Requests` for the summary, `Requests` and
`Findings` for the report, the learner's map for the fragment. A handler's
step is disabled once the process has exited; an idle request may arrive only
while the server listens. The failure exits before the proxy serves are left
out: they leave nothing behind.

**Capture** is one exchange, with the calls the reverse proxy may make on the
writer and what net/http's own writer does with them.

**Console.** A *file* stands for all the sources of one document, a version for
their sizes and times. `ensure` is split where other processes may act in
between: the lock and the clock (`Throttled`, `StartWalk`), one action per
`Stat` and per `Scan`, and the returns (`Unchanged`, `FinishBuild`). Time is
counted in ticks, saturating at `Recheck`; `hist` and `floor` are history
variables that remember the tree as it was `Recheck` ticks before a request
read the clock. A failed scan is remembered in the build, as `st.err` is.

**Watch.** The sources are one version number. `-all` builds each artifact by
itself and writes those that were built (an artifact with nothing in it is
skipped like one that failed); `-o` and `-sdk` have one artifact. Only `-o` ends
the command when the first generation fails. An artifact's modification time is
told apart from the last one only. Whether the output lies among the watched
files is chosen at the start (`watched`), so both are in every run and theorem.

**GrpcStream.** `main` is `Stream`, `writer`, `reader` and `watcher` its
goroutines, `invoke` the one that runs `grpcurl.InvokeRPC`, and `feed` the
reader of the request pipe inside grpcurl: a goroutine of its own in a
bidirectional call, which InvokeRPC joins, and InvokeRPC's first phase in any
other. `send` is `Try`, and when the buffer was full `Push` or `Drop`,
whichever of room and the end of the context comes first. A client's `send`
frame is written to the pipe in two pieces; the second is taken only by the
read that looks for the next request. A response becomes a message frame or,
when it cannot be formatted, an error frame, after which the call goes on
(`OnReceiveResponse`; `received` counts both).

**Baseline.** The program, git and tar are processes, the pipe is a counter.
The read end that `StdoutPipe` gave the program is closed by `archive.Wait`
(`held`).

**Route, Conform, Mock, Merge** are the four pure packages, as operators. A
path is the sequence of what stands between its slashes and a method one name
(the code folds case wherever it compares one). A schema is a record of what
the checker, the mock and the learner use of it; a pointer that may be nil is
a sequence of none or one; a decoded JSON value is a record of its kind, the
text `fmt` prints for a scalar, its items and its fields. A problem found is a
place and what is wrong there. Left out because neither the checker nor the
merge reads them: formats, numeric and length bounds, array sizes, named
strings, titles, descriptions and the counts inside them. `Coerce` is given
what strconv makes of a segment by three constants (`WholeTexts`, `FloatTexts`,
`BoolTexts`). Status code 0 stands for "default".

**Documents** has the document's life as a state machine: somebody edits the
source (`Edit`), a proxy starts on it (`Start`), judges exchanges by the
document it started with and learns (`Exchange`), and ends by writing the
fragment or the merged document (`Stop`); a later run folds that file into the
source as it then is (`MergeLearned`). An exchange is one step: how handlers
interleave is `Proxy`'s subject. There is one session in a behaviour. The mock
keeps no state, so its answers appear in the properties.

**Evolve** follows `Compare` operation by operation: parameters, responses, the
two directions of `compareSchema` and its two tables of components, where a
`seen` set stops the recursion. What a client of the old document can send
(`Accepts`) and understand (`Understands`) is defined beside it, from the
conformance checker, without looking at `Compare`. **EvolveRun** puts it behind
`Baseline`: the tree is scanned first, then a revision, a directory or a file
gives the baseline, and `Verdict` is the gate.

**Sdk** has one operator per thing a generated client does (`Method` for its
URL, `Taken` for its runtime, `Reads` and `Resent` for its types), split by language
where the generators differ; **Contract** plans one request per operation and
says what the Go test and the smoke script send and accept. **Clients** is the
state machine: one client at a time reads the resource, changes a member and
writes everything back, a gateway may answer in the service's place, and the
next client speaks another language. A path is what the server matches, that is
`r.URL.Path`, decoded: an argument is the segments it becomes there, as it is
(`Pieces`) or escaped, which only Go does (`Escaped`). A Go method that is
answered 2xx without a body returns the zero of its type and no error
(`GoResult`): such a client holds a resource it was never told, and may write
it back.

**Scan** and what it extends are the static side. A program (`Program`) is its
functions in file order, each a list of statements: construct, group, use,
route, mount, enter a closure, call with a router, declare a name, serve. A
path is a sequence of segments, so trimming and joining slashes is counted and
not spelled. A handler is a list of statements over small expression trees
(`Index`), enough for what `inspection` tells apart: calls with the parameters
they bind, composite literals, status codes, conversions of query values.
`ScanSource` is the whole scan: `Adapters` finds routes and diagnostics, in any
order Go's map may give the local names (`Orders`), `Handlers` inspects each
handler, `Middleware` each guard, `Build` makes the document with
`Generate`'s passes in their order, and `Lint` reports. The other actions run
the program: one statement each, on routers that behave as the libraries do
(external: `Inherits`, `Before`, `AtRequest`, `FirstMatch`), then `Request` asks
for a route and gets an answer of a guard or of the handler (`Execution`).
What a call refers to is written into the expression for `Execution` only; the
scan never looks at it.

Schemas, expressions and programs nest, and modules that declare RECURSIVE
operators over them are for TLC only. Where a state machine only hands such
data to an operator, the operator is a constant of the machine's module:
`Problems`, `Unmentioned`, `SampleBody`, `Inferred` and `Uniform` of `Documents`,
`Differences` and `Serves` of `EvolveRun`. Their MC modules extend the modules that
define the real ones (`Conform`, `Samples`, `Evolve`), and each `.cfg` gives the
constants those definitions, so a run checks the code's own functions while a
proof holds for any.

## 3. Runs

One run per component. Passing runs:

| Run | What it shows | Bounds, and why they are enough |
|---|---|---|
| `MCCapture` | the kept body is a beginning of the client's, short bodies are whole, the status is exact without 1xx | body bound 3, chunks of 1 and 3, up to 6 bytes and two 1xx: a chunk that ends at, before and beyond the bound |
| `MCProxy` | counts and drops exact, each finding printed once, evidence recorded, learner exact, refinement of `DriftLog` | three handlers, four exchanges yielding four findings and one learned endpoint, limits 2 and 1: both limits are hit, and three handlers can race for the last place |
| `MCProxyRun` | a drained run is complete and its strict exit agrees, the summary is covered by the report, a signalled run ends | two handlers with the same traffic, every interleaving with the main goroutine; the target may never answer |
| `MCConsole` | the stamp never claims an unread edit, nothing stale is served, the console becomes current, every request is served | two requests, two files, one edit each, one failed scan, a throttle of one tick: a walk, a wait for the lock and a scan can each outlast it |
| `MCWatch` | no later edit lost, every generation answers an edit or, where its output is watched, a generation that wrote, files only go forward | two edits, two failed builds, two artifacts, the three modes, output inside and outside the tree; the counters of generations stop at three, one more than there are edits to answer, and the loop goes on |
| `MCGrpcStream` | closing order, `end` last, uncut calls whole, the call and its goroutines end | buffer of one, two responses, each a message or an error, two requests: more frames than the buffer holds |
| `MCEvolve` | a baseline is compared only when complete, a change that passes the gate breaks no client, a healthy run ends | archives of 0 to 4 blocks through a pipe of 2: smaller than, equal to and larger than it; trees and revisions that differ by one edit of each kind, in a request and in a response, inline and behind references |
| `MCDocuments` | routing is most specific before and after merges, the proxy accepts the mock's answers, learned traffic is documented once merged, a merge only adds, cached cross-origin verdicts | two sources with overlapping templates (`/users/{id}`, `/users/me`, `/{tenant}/me`), references, embedding, recursion through properties and through allOf, two manual routes of which one meets a scanned one; six requests, four replies, four settings, three origins; two exchanges in a session, which is one to create an endpoint and one to add to it |
| `MCClients` | no member nobody changed is lost, no write that follows the document is refused, calls tell the truth, each but for what a language is named with below, and reach their operation, generated tests pass | three documents (inline and named types, embedding, self-reference, an enumeration by name), one resource full and one with everything optional left out, three edits, four answers of a gateway, three writes: any three of the ten languages after one another; arguments that are empty, hold a slash or a question mark or name a sibling path |
| `MCScan` | what is documented is what is served, with its guards, its inputs and its answers; the document is sound; the lint is right | 8 routers, 5 spellings of a prefix, guards or none, a group inside a group, a hand-off under the same name, a new group or both, declared schemes or none; a program runs to the end and is asked for everything it serves |

The type invariants are not among the runs' properties: those of `Proxy`,
`ProxyRun`, `Console`, `Watch`, `GrpcStream`, `Baseline` and `Capture` are
theorems, and what `Documents` holds is part of `DocumentsInv`, one more.

Deadlock is checked in the console's and the clients' runs. In the others the
system may stop (a run exits, an exchange ends, nothing is edited, a program
has been read) and the cfg says so.

A few operators are *variants*: the comment before each names the definition it
varies. No specification uses them; putting a variant in the place of its
original is how a property is shown to notice that slip.

### Where the code and its documentation disagree

Two have a run that exhibits them:

| Run | Violated | What happens |
|---|---|---|
| `MCEvolveNested` | `PassedChangeIsSafe` | a component reached through a nested reference is compared with itself, and a breaking change passes the gate |
| `MCScanShadow` | `RoutesAreDocumented` | a local name in front of a package constant resolves to one or the other with the order of Go's map |

Four more are seen when a run's configuration, or the exception a property makes,
is changed; each then ends in the violation named:

| Run, and the change | Violated | What happens |
|---|---|---|
| `MCCapture`, with `INVARIANT StatusForwarded` | `StatusForwarded` | after a 103 the target's 404 reaches the client as a 200 |
| `MCWatch`, without the term of `wrote` in the property | `RoundsAnswerChanges` | an output `.json` file in the watched directory, where `-o openapi.json -dir .` puts it, retriggers the watch |
| `MCScan`, without the last disjunct of the property | `GuardsAreDocumented` | a header a guard reads is not documented where a parameter of the path or the query has its name (`gen.go:344`) |
| `MCDocuments`, with `Sources <- MCEchoSources` | `MockAnswersPass` | the mock echoes a path parameter that its own document rejects: behind a `$ref`, past an integer's enum, or NaN, which leaves the body empty |

The remaining entries of `findings` in `PROJECT.json` were met while modelling
and are kept out of the runs' instances: tar's death leaves git and the command
waiting (`spector.go:581`; `RunEnds` is claimed of runs where tar lives), a
helper that returns a handler type hides the handler, a `WriteHeader` before an
early return gives its status to the next answer, registration order is read
off file order, and a scheme for a signing header is defined as http bearer
unless the configuration declares it.

The models show others, which the modules follow without a run of their own:

* The exit code of a strict run is decided by the findings read for the summary;
  a handler that outlives `Shutdown` can add one that only the report shows, and
  the run still exits 0 (`ExitCode`, `ReportFindings`; with a drained run they
  agree, `DrainedRunIsComplete`).
* At the limit `report` counts every sighting of a finding that was not kept
  (`CountsAreExact`); `cmd/spector/proxy.go:125` prints the number as "further
  distinct finding(s)".
* A 502 the proxy's own error handler wrote is inspected like an answer of the
  target and reported as an undocumented status (`Unreachable`).
* A response that breaks off after its header aborts the handler before it
  counts, records or inspects the exchange (`Abort`), although "Recorder, when
  set, is handed every exchange" (`proxy.go:87`).
* `Report` reads the request count before the findings: with a handler still at
  work a report can show findings over zero requests (`ReportRequests`,
  `ReportFindings`).
* The console fingerprints one directory only (`Inside`): edits under a proto
  or GraphQL directory outside it are not noticed.
* An edit between the first generation's read and `watchLoop`'s first
  fingerprint is generated only with the next edit (`StartWatch`, `base`).
* An operation that documents "default" alone is answered 200 by the mock, and
  the proxy calls that status undocumented (`Primary`, `Findings`).
* A learned template can take requests from a documented one: of two templates
  of one shape the byte order of the paths decides (`Before`), so learning
  `/users/{id}` beside a documented `/{tenant}/me` changes whom
  `GET /users/me` reaches. `LearnedIsDocumented` speaks of the operation the
  exchange was filed under, where it is still the one matched.
* A schema inferred from a heterogeneous array describes its first element
  only, and one inferred from a null member nothing at all, so the very sample
  can contradict it or look undocumented (`Homogeneous`).
* The answer to a refused origin, or to a request without one, depends on the
  Origin header and carries no Vary, although "Whenever the answer depends on
  the request's Origin, caches have to be told" (`cors.go:121`).
  `GrantsAreSafeToCache` covers the answers that let an origin in.
* `MergeObserved` takes paths only: a merged document that a later run merges
  again into another source leaves its components behind (`MergeInto`), so its
  references can dangle.
* A cancelled or timed-out gRPC call whose frame buffer is full drops the `end`
  frame (`Drop`).
* A body over the proxy's bound, or one the target compressed, is judged though
  it cannot parse (`proxy.go:218`); a write that fails in the recorder is dropped
  without a word (`record.go:80`).

Evolve:

* The path printed for a nested change depends on map order, although
  `evolve.go:81-83` orders the changes.
* Not compared: allOf, bodies that are no objects, items of scalar arrays, a
  response's enum or body schema that goes away, a request's new enum, a body
  that becomes required. A value removed from a request's enum is reported as
  narrowed. Parameters given by `$ref` share one key.
* Passing each step does not add up: a request's field may be dropped in one and
  return with another type in the next.

Clients and tests:

* Clients that do not compile or end: Go and Rust of a schema that contains
  itself by value, C# and PHP of components that only name another, Kotlin
  defaults that build themselves for ever; `resolvedFields` recurses for ever on
  a cyclic allOf. `sdk.go:6` calls the output "a starting point that compiles".
* Only Go escapes a path argument, so in the others a question mark ends the
  path. It does not help with a slash: `url.PathEscape`'s `%2F` is one again in
  `r.URL.Path`, which the mock and the proxy match (`mock.go:52`), so no client
  reaches `/pets/{id}` with the id `a/owner`, and all of them reach
  `/pets/{id}/owner` instead. `CallsReachTheirOperation` is of arguments that are
  one segment there. TypeScript keeps the base's trailing slash;
  path parameters by `$ref` are never substituted; names made unique by a suffix
  can meet a name that has it already (`sdk.go:132-133`).
* A Go method answered 2xx without a body returns the zero value of its type and
  no error (`go.go:104-107`, `229-234`), a PHP one null when the body is no JSON
  (`php.go:98`). A Go program that sets a member and writes the value back
  erases the others, unless the document refuses the zeros. The three properties
  say so: `CallsTellTheTruth` names both values, `WritesAreTaken` counts such a
  value as made up, and for `UntouchedMembersStay` what was written that way is
  the resource from then on.
* Go drops an optional zero, list or map without members (omitempty; `{}` of a
  free-form object too) and has no field for a part written
  inline in allOf; Go and Kotlin make up a member that was absent (Kotlin cannot
  read null), PHP writes `[]` for `{}`; numbers past 2^53 are rounded where
  the language's number is a float.
* TypeScript, JavaScript, Ruby and Java parse before they look at the status, so
  a gateway's text page loses it (`CallsTellTheTruth` asks it of the other six);
  a Rust method without a result fails on a body that is no JSON.
* The smoke script drops required headers (`contract.go:149-152` plans them); an
  operation that documents "default" alone fails its own tests; the first
  scheme by name is used, which need not be one the operation accepts.

Scan:

* A `WriteHeader` inside a helper is lost to the caller's `Encode`; conversions
  of a query value inside a helper are not seen; types returned are looked up by
  bare name, and an element of a helper's own map through the handler's fields.
  The answers of `http.Error` are not read in handlers; a function literal is
  documented as a 200; a wrapper that is no spread is documented in place of the
  handler it wraps.
* The names of gin's groups share one table, the middleware index and the string
  constants are keyed by bare names across packages, and local names are shared
  by the functions of a file. `r = r.Group("/x")` loses the prefix silently; so
  does a third hand-off that conflicts with two others.
* Guards: those inside a spread or a chain helper, or on chi's
  `With(...).Route`, are not documented; a gorilla subrouter does not take on its
  parent's `Use` and late `Use` of gorilla and of echo's root does apply; fiber's
  parent `Use` after a group, and one with a prefix, reach the group. An
  unresolvable prefix leaks the inner `Use`.
* chi and bunrouter: a hand-off is followed for selector calls only, and the
  function is documented at the bare path too; chi's regular expressions and
  stdlib's `{$}` stay in the path.
* Skipped without a word: stdlib patterns without a method, gin's `Any`,
  `OPTIONS` and `Handle`, chi's `HandleFunc`. Factories with arguments of
  stdlib and httprouter are taken for middleware.
* Lint: duplicates that differ in a parameter's name are not reported; a handler
  registered through a wrapper is reported as an orphan; an orphan that shares
  its name with a registered handler is not.

### Fairness

* `ProxyRun!RunFairSpec`: the main goroutine runs on after a signal;
  `Shutdown` returns by its deadline. No fairness of handlers: the target owes
  no answer, and the run must end without one.
* `Console!FairSpec`: the clock ticks; strong fairness of `ensure` because its
  first step competes for a `sync.Mutex`, which hands itself to a waiter after
  a millisecond; requests and edits are not owed (`BecomesCurrent` assumes that
  requests keep coming).
* `Watch!FairSpec`: the command's own steps.
* `GrpcStream!FairSpec`: Stream's goroutines, the context's timeout, a socket
  write that ends one way or the other by its ten-second deadline, a read that
  fails once the socket is closed. Nothing of the client or the server: no
  frame, no response and no status is owed.
* `EvolveRun!RunFairSpec`: the program, git and tar; no command need fail.

`Proxy`, `Capture`, `Documents`, `Clients` and `Scan` state safety only: that a
kept finding is printed is `KeptIsPrintedOnce`, which says which handler owes
the line.

## 4. Proofs

What a run shows for one small instance, a theorem shows for every value of the
constants: any number of handlers, clients, files or artifacts, any traffic, any
document, limit, buffer or pipe. The assumptions are the modules' named
`ASSUME`s, which TLC evaluates in every run; no theorem of a specification has a
hypothesis of its own. Each invariant below is inductive only together with the
strengthening named beside it.

`ProxyProofs`, of the handlers

* `TypeCorrect`: `Spec => []TypeOK`.
* `StaysBounded`: `Spec => []Bounded`. `AtLimit` guards the only action that
  adds a finding, `HasRoom` the only one that adds an endpoint; finiteness of
  the domains is carried along, since a cardinality means nothing without it.
* `PrintedOnce` (`KeptIsPrintedOnce`): a handler about to announce could be
  announcing what is in the log already. The strengthening says that what a
  handler has still to announce is kept, is not in the log, and that no two
  handlers have the same finding to announce (`Pending`), and where each handler
  stands in its own sequence of disagreements (`Positions`).
* `Implements`: `Spec => ImplementsDriftLog`, by step simulation: `Report` is
  `Keep`, `Repeat` or a stutter, `Announce` is `Tell`, every other action a
  stutter. It rests on the invariant of `PrintedOnce`, which gives `Tell` its
  guard.
* `FindingsAreRecorded` (`EvidenceIsRecorded`): a handler that reports has been
  past the recorder (`RecordedFirst`), and a finding's first path is that of the
  handler that kept it.
* `NothingIsMiscounted` (`CountsAreExact`): every report adds one sighting, to
  the count of the finding or to `dropped`. That a kept finding has *all* its
  sightings needs a reason why none was dropped before it was kept: something is
  dropped only when the findings are full, and they never shrink
  (`FullWhenDropped`), so nothing is kept afterwards.
* `LearnerMissesNothing` (`LearnedIsExact`): the same argument on the learner's
  map (`FullWhenRefused`), and that a handler takes only an exchange worth
  learning there (`LearnsOnlyNews`).
* `FirstsAreKept`: `Spec => FirstsStay`, the action property: no step replaces a
  first path or a first sample, or lowers a count.

`ProxyProofs`, of the command's run

* `RunIsProxy`: `RunSpec => Spec`: each step of the run is one of a handler, or
  leaves the proxy's variables alone. What is proved of the proxy then holds of
  the command.
* `ReportCoversSummary` (`SummaryIsCovered`): what the main goroutine read
  earlier is not more than what it read later or what there is now
  (`ReadInOrder`), because findings and requests only grow.
* `DrainedRunTellsAll` (`DrainedRunIsComplete`): once `Shutdown` returned before
  its deadline and no connection was hijacked, no handler can start or go on
  (`HasDrained`), so each later reading is all there will ever be (`Complete`);
  the number of requests is that of handlers past the counter (`RequestsInv`);
  the exit code is set from the summary (`VerdictFollows`).

`ConsoleProofs`

* `StaleBuildsAreNoticed` (`StaleIsNoticed`): the strengthening relates, file by
  file, the walk to the tree, the stamp to the walk, the draft and the state to
  the stamp: what a build read is never older than what the walk before it saw,
  and a version never goes back.
* `NothingStaleIsServed` (`ServedIsFresh`): the strengthening says what each of
  the last `Recheck` trees is at most, and that a build trusted `since` ticks
  after `checked` has read at least the tree of then.

`WatchProofs`

* `ForwardOnly`: `Spec => FilesGoForward`. No file is newer than its artifact's
  last build, and only builds that succeeded wait to be written
  (`BuildsBeforeFiles`).
* `OnlyChangesAreAnswered` (`RoundsAnswerChanges`): the fingerprint `watchLoop`
  holds moved on for every generation it started, and only an edit moves it or,
  where the output is watched, a generation that wrote
  (`FingerprintsFollowChanges`). It does not say that the loop comes to rest: with
  its output watched it does not, as section 3 shows.

`GrpcStreamProofs`

* `EndStaysLast` (`EndIsLast`): `main` sends its own last frame only after the
  invocation's goroutine sent its, and closes the channel after that (`Turns`);
  so nothing stands behind `end` on the socket, in the writer's hand, in the
  buffer or before it (`EndComesLast`).
* `UncutIsWhole` (`UncutStreamIsWhole`): frames are counted. Unless the context
  has ended, of each type as many were written, are in the buffer or wait in
  front of it as the two senders have sent (`NothingLost`); cut short or not,
  none comes from nowhere (`Bounded`, which also bounds what is written and so
  gives the type invariant). How many each sender has sent follows from where it
  stands (`Turns`, `Outcome`: whether the call failed is settled before its
  outcome is sent). Each response counts as the message or the error it was sent
  as, and the outcome is one status or one error more.

`BaselineProofs`

* `BaselineIsWhole` (`ScannedIsComplete`): what git wrote is what tar extracted
  and what is in the pipe (`BlocksAreConserved`); a tar that ended well read to
  the end of a git that had ended, which wrote all of it if it ended well
  (`EndsAreHonest`); the program got to the scan by waiting for both
  (`WaitsAreKept`).
* `RunIsBaseline`: `RunSpec => Spec`: each step of the command is one of the
  extraction or leaves its variables alone, so `ScannedIsComplete` holds in
  every run of `spector -evolve`.
* `NothingPassesUncompared`: a gated run that exits 0 has compared the document of
  this run's tree with the one the baseline really has, never that of half an
  export (`RunInv`, with `CompleteWhenScanned` for the step that scans), whichever
  way the baseline came and whatever failed, and counted nothing breaking. That
  the comparison counts everything that breaks a client is not part of it:
  `PassedChangeIsSafe` is TLC's on `MCEvolve`'s documents and false of
  `MCEvolveNested`'s.

`CaptureProofs`

* `BodyIsTheBeginning` (`KeptIsTheBeginning`), by sequences: a chunk is added to
  both bodies until the kept one is full.
* `PlainStatusIsExact` (`PlainAnswersAreExact`): once the target has answered
  without a 1xx, the writer holds what net/http committed (`StatusFollows`).

`RouteProofs` (any finite set of paths, any method, any request)

* `TableIsSorted`: `Compile` lists each documented operation once and in order.
  `Before` is shown to be a strict total order (`RoutesAreOrdered`): two paths
  that are not the same differ at a first place (`PathsAreOrdered`), and two
  operations of one path differ in the method.
* `TableIsTheOnlyOne`: no other listing is in that order, which is why a table
  computed from Go's maps can be modelled by a function of the document.
* `MatchIsFirst`, `RequestsMeetTheMostSpecific`: of the operations that fit,
  `Match` takes the one before all others; a more specific template has fewer
  placeholders (`MoreSpecificGoesBefore`), so none of those that fit is one. The
  second is about `MostSpecific`, the formula `MatchIsMostSpecific` asks of
  every document `MCDocuments` reaches.

They rest on lemmas about members numbered by how many go before them
(`NumbersOfMembers`, `InOrderSorts`, `OneOrder`, `LeastMember`), which take the
place of induction.

`DocumentsProofs` (any sources, declared routes, requests, replies and settings;
any checker, sampler and inference)

`Invariance`: `Spec => []DocumentsInv`, checked by TLC on `MCDocuments`'
instance before it was proved. It says where everything in the state comes from:

* a session judges by the document of some source, with that document's own
  table (`SessionInv`), and what it has learned is well formed: endpoints with
  the statuses seen, disjoint from those the document has for that operation,
  and for some of them the body of a reply that parses (`Entered`);
* an exchange the document did not know has its status with its endpoint, unless
  the learner had no room for the endpoint (`NotLost`): `LearnedIsDocumented` is
  about what was filed, and this says what that is;
* the file is the fragment of such a session, or its merge (`FileInv`), and the
  merged document keeps its source (`OutInv`);
* every document names only templates and contents a source has, a declared
  route has, or an answer lets one infer (`Known`).

From it:

* `EveryRequestMeetsItsOwn` (`MatchIsMostSpecific`): every document there is to
  serve, merged or not, is a finite table of operations, of which `RouteProofs`
  speaks.
* `NothingIsOverwritten` (`SourceIsKept`), from `MergeKeepsSource`: the merge of
  two documents, path by path and operation by operation, and that a generated
  document has no operation marked observed (`GeneratedIsKnown`).
* `WhatWasLearnedIsDocumented` (`LearnedIsDocumented`): where a request is filed
  under is where the merged document has an operation for it (`WhereItIsFiled`,
  `MergedHasEntry`), so some operation fits it (`FiledIsDocumented`). The operation
  has the exchange's status, from the document or from the fragment, and a first
  body meets the schema inferred from it: `InferenceAssumption`, the one thing
  assumed of the checker and of inference, and only for bodies of which all can
  be inferred.
* `GrantsCanBeCached` (`GrantsAreSafeToCache`): whether the origin matters for
  the header depends on the settings only (`GrantIsForAll`).
* `MockIsJudgedBySamplesAlone`: of an answer the mock takes from a document the
  proxy of that document finds exactly what the checker finds of the bare sample
  against the schema it was sampled from, and nothing else. The same operation is
  matched on both sides, the status is documented (`PrimaryIsDocumented`,
  `MockAnswersAsDocumented`), and the schema is one a scan gave that operation or
  inferred from a body, after any merge (`Known`). That samples satisfy their
  schemas is not part of it: `MockAnswersPass` is TLC's on `MCDocuments`' sources
  and false of `MCEchoSources` (section 3).

Only model-checked:

* Liveness, which needs fairness and ENABLED: `BecomesCurrent`,
  `EveryRequestIsServed`, `LaterEditsAreGenerated`, `SignalEndsTheRun`,
  `StartedEnds`, `RunEnds`.
* `PassedChangeIsSafe` and `MockAnswersPass`, of which the theorems above are the
  half that holds for every document.
* What the recursive functions compute: that a comparison, a sample, a check or
  an inference of one value is right is an induction over the data, and these
  operators are RECURSIVE. The prover takes neither. The theorems above name what
  they rely on of them; that it holds is TLC's.
* The properties of `Clients` and `Scan`: what a client keeps of a value and what
  a scan makes of a program *are* such functions, and the states around them add
  too little to state a theorem about what is left.

## 5. Not modelled, and why

* The proto, protobuf, gateway and GraphQL scanners, the exporters, sample
  values, advice, coverage, realtime and outgoing calls: recognition of other
  languages or libraries by name, conversions and counts. What could be said of
  them restates their tables; their golden tests say it better.
* How a Go type becomes a schema (`core/schema.go`, validation tags): the
  models' schemas start where that ends, a type is its name and the names its
  fields lead to.
* The text a generator writes: the models take what the text does. That it
  compiles is not modelled (a list of what does not is in section 3).
* The console's dispatch, its mounts and access rules, unary gRPC calls and the
  MCP server: one stateless handler per request.
* Forms of a registration an adapter passes over without a word (section 3).
* Panics inside the scanners while the console builds; writes that fail in the
  recorder; redaction of recordings.
* External systems appear only as the calls `src/` makes on them: net/http,
  httputil, gorilla/websocket, grpcurl, git, tar, the file system and the clock.

## 6. Plan

1. `ConsoleRoutes`: the dispatch of the console's paths with its access rules.
2. `Recorder`: a writer that fails under a session, and what `Count` then says.
3. `Lint`'s orphan handlers and its baseline file, over `Scan`'s programs.
4. The runtimes of the generated clients apart from their types, so that
   `CallsTellTheTruth` can be proved for any answer of a gateway.
5. A condition on documents under which `CallsReachTheirOperation` follows from
   `RouteProofs`: of two templates that one request fits, one is more specific.
