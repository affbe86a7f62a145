# A verification project for zeptor

zeptor is a Go web framework with a command line tool, `zt`: file-based routes, a development server that rebuilds the application on every change, and a plugin system. This directory holds TLA+ models of the parts whose correctness depends on order, concurrency or failure, runs of the TLC model checker on small instances, and theorems checked by TLAPS.

References such as `server.go:210` name a file of the repository by its base name and a line.

## Running it

    tlc -config DevServerSafety.cfg MCDevServer    # one run; PROJECT.json lists them all
    tlapm DevServerProofs.tla                      # the proofs of one module

## The system

| Component | State | Operations | Meets | What is hard |
|---|---|---|---|---|
| Development server `internal/dev/server.go` | `childMu`, `rebuilding`, `childCmd`; the binary `.zeptor/server.exe` | `Start`, `handleFileChange`, `buildAndStartChild`, `proxyHandler`, `Shutdown`, `RunDev` | called by the watcher, one goroutine per event; runs `templ` and `go build`; starts and signals the child; calls the hub and plugin hooks | check and set of the flag in two critical sections, failing commands, a child that crashes, signals at any time, one lock for builds and requests |
| File watcher `watcher.go` | `debounce`, `running`, the directories watched | `Start`, `addDir`, `processEvents`, `Close` | receives from fsnotify, calls `handleFileChange` | directories that are not watched, a full queue of the kernel, events that are discarded, a time window per path, closing while events are queued |
| Hot-reload hub `hmr.go`, script `inject.go` | `clients`; the page's WebSocket | `Handler`, `register`, `unregister`, `readPump`, `send`, `Broadcast`, `Close`; `connect`, `onmessage`, `onclose` | handlers broadcast when they have rebuilt; browsers connect | several writers on one connection, broken connections, deletes under a read lock |
| Rate limiter `plugins/ratelimit` | a map from addresses to a count and the end of a window | `allow`, `cleanupLoop`, `Init`, `Close` | a middleware of every request | the instants at which windows end, the sweep between two requests |
| Plugin registry and loader `pkg/plugin` | `plugins`, `configs`; `loaded` | `Register`, `Unregister`, `SetConfig`, `GetHooks`, `CloseAll`; `LoadFromConfig`, `LoadPlugin`, `UnloadPlugin`, `Close` | `zt dev` loads what the configuration enables; server and development server run hooks from snapshots | two names per plugin, loads that fail half-way, exits that close nothing, snapshots that outlive the lock |
| Router and radix tree `internal/app/router` | `routes`, `layouts`, `static`, `tree` | `New` (walk and inserts), `Lookup` | `StaticRoutes` and `DynamicRoutes` feed chi; only tests call `Lookup` | spellings of placeholders, splits of nodes that depend on the order of inserts, backtracking |
| Application server, headers plugin, basic authentication | chi's mux and stack of middlewares; the headers of a response | `SetupMiddlewares`, `callRouterHooks`, `SetupRoutes`, `pluginResponseHook`; `OnMiddleware`, `OnResponse` | the plugins, among them the rate limiter | order of hooks and of middlewares, headers changed after they were sent, panics |
| Scaffolding `internal/scaffold` | a directory on disk | `Create` and its steps, `cleanupOnError` | `zt create`, `templ`, `git` | failures and kills between steps, several creators, a check that is stale when it is used |
| Configuration, command line | flags, environment, files | `Load`, commands | everything | precedence |
| Builder, middleware helpers, rendering, contexts | little or none | pure functions of a request, or never called | | |
| eBPF loader and programs | none; kernel maps | stubs that return errors; the C programs are not attached | | |

What makes each component correct:

* **Development server**: one build at a time; at most one child, running the program on disk; a flag that never stays set; a reload is announced only when the change is built; a change that was accepted is served; handlers and shutdown are never stuck, nor a request but behind a child that does not answer; no child survives the server unnoticed.
* **Watcher**: nothing is lost but for three reasons (its window, a full queue, a directory that is not watched), and paths do not hold one another back.
* **Hub**: the map agrees with the connections, and a broadcast reaches every working client in it, whichever others fail.
* **Rate limiter**: clients cannot notice the sweep; no more than twice the limit in the length of a window.
* **Plugins**: no open plugin is lost; hooks reach no plugin that is closed but by an unload or at the end; none is closed twice but after `loader.Close`; loader and registry agree; `zt dev` serves only with all that is enabled and ends with none open.
* **Router**: a lookup finds what the places of the files say, the most specific route of all, with that route's parameters, and the last file of those that claim one static pattern; at every insert the tree spells what was entered.
* **Application server**: setting up panics only in a router hook that adds a middleware after a route of its own or of a hook of no higher priority; credentials are looked at only in requests the limiter counted; every response that passed the headers plugin carries its fields, save what the handler made of them.
* **Scaffolding**: success means a whole project; nobody loses files to another's failure except where the check and the creation of the directory race; a failure can be repeated.

## The modules

### DevServer

Goroutines are `Main` (the one of `RunDev`) and `Handlers` (one per call of `handleFileChange`); `pc` says where each one is. A short critical section (lock, one read or write, unlock) is a single action that needs `childMu = Free`. `buildAndStartChild` keeps the lock and is cut where others can see what it does:

| `pc` | Code | Action |
|---|---|---|
| `check` | 210-216, and 252-254 for ignored files | `Drop`, `Accept` |
| `mark` | 221-223, 256-258 | `Mark` |
| `generate`, `emit` | `templ generate`, 228-234: reads at one moment, writes at another, may fail with some files written | `GenRead`, `GenDone`, `GenFail` |
| `enter` | 107 | `Enter` |
| `stop` | 110-117 | `StopChild` |
| `compile`, `link` | `go build`, 119-125 | `BuildRead`, `BuildDone`, `BuildFail` |
| `launch` | 127-135 | `StartChild`, `StartFail` |
| `settle`, `abort` | 137-138, the deferred `Unlock` | `Leave` |
| `clearOk`, `clearErr` | 230-232, 238-246, 265-273 | `ClearOk`, `ClearErr` |
| `notify` | 248-249, 275-276 | `Notify` |

`Main` goes from the first build to `serving`, on a signal to `shutdown`, after it has signalled the child to `draining` and to `exited`; a signal during the first build, before `signal.Notify`, is `Kill`. A request is `Arrive`, `ReadChild` (142-149), `Forward` or `Refused` (157-187). The child that it is sent to need never answer: `http.DefaultClient` has no time limit and the browser's leaving is not passed on (`server.go:156-164`). What the proxy answers may be `cut`, because the proxy's `WriteTimeout` of 15 s (`server.go:88`) went by, behind a build, say (`Answer`).

A file's content is a version. `src` is the disk, `gen` what the generated files were made from, `binary` what `server.exe` was built from, `image` what a process runs. A failed build or start leaves the state the code leaves: the old child gone, `childCmd` as it was or naming no process. The history variables `want` (the version a handler was called for) and `late` (a build began after the SIGTERM of `Shutdown`) let properties relate a state to an earlier one.

**Preview** is the abstract supervisor, without locks, handlers or commands: at most one process, a program that is replaced only while none runs, Go code that never gets older. **DevServerPreview** has the refinement mapping. **MCDevServer** has the symmetry sets for TLC: handlers and process identities are only ever compared for equality.

### Watcher and DevLoop

**Watcher** models fsnotify's queue (external) and the loop: the filters of kind and extension, the window of 500 ms, the call in a goroutine. Time is reduced to the set `recent` of paths whose window is open. The kernel keeps `MaxEvents` events and, of those that do not fit, one record, which reaches the loop as an error and is logged. The walk of `Start` stops at the first directory that cannot be watched (`watcher.go:69`), which may leave out any of `Missable`. `told` is what the latest call was made for, `hot` the paths last saved within their window, `spilled` those whose last save found the queue full, `unseen` those whose directory is not watched.

**DevLoop** joins Watcher and DevServer: a save is an edit and an event, a report is the start of a handler, the first build comes before the watcher, and `Shutdown` closes the watcher first.

### HMR

Browser pages and the hub. Each connection has its goroutine (register, greet, read, unregister twice), each broadcaster holds the read lock for its loop. What Go and the WebSocket library leave undefined is a choice: a second writer panics, which ends the process in a broadcast and is recovered in a connection's goroutine, where `Recoverer` runs; a delete during another goroutine's iteration may abort the process. Properties speak of the states before such a crash.

### RateLimit and FixedWindow

`allow` and the sweep are an action each, as both read the clock inside the lock. The sweep may happen at any moment, which covers every period. **FixedWindow** is the quota as a client sees it, where nothing is stored without an open window.

### Plugins

The registry and the loader. `own` is the name a plugin gives itself, chosen once, among the names of all files, a further one and the empty one. `LoadPlugin` is cut where it lets go of `r.mu` or runs the plugin. The Go runtime loads a file once, so an instance is denoted by its file. Users take snapshots (`GetHooks`) and call the hooks later, in the order of priorities. Properties are stated for plugins that do not take the name of another plugin's file (`Proper`): without it `UnloadPlugin` closes somebody else's plugin, as `Unregister` is called with the name of the file (`loader.go:101`). The loader is used by a library's user in any order (`program = "library"`) or by `zt dev`: `LoadFromConfig` loads `enabled` one after the other, and the first that fails, or an error of `RunDev`, ends the program by `os.Exit`, which skips the deferred `loader.Close` (`cmd/zt/main.go:57-68`).

`loader.Close` takes `r.mu` only (`loader.go:145`) and keeps the plugins registered, so a library's user may call it while `LoadPlugin` is between two steps, twice, or before loads and unloads; `zt dev` calls it once. What it has closed is `ended` rather than `closed`, because the registry still has it: hooks reach it, and `UnloadPlugin` or another `Close` closes it again. `after` are the plugins registered since its last call, `misused` what instances were that were closed without being open. Plugins are assumed to bear a second `Close`; the rate limiter panics at it (`ratelimit.go:57`), which ends the program.

### Radix

A file is the directories it lies in, each with the form of its spelling (`[x]`, `{x}`, `_x`, `x_`, `[...x]` or plain), and its own name. The walk passes the files in order, and each is there or not, so a run checks every application made of them. `AddRoute` is `addPageRoute` and `addAPIRoute` with `normalizePattern` (an API route in the root answers `/api`), `AddLayout` is `addLayoutRoute`; a private directory is skipped. A pattern is a sequence of characters, in which a placeholder is one sign.

The nodes of the tree are numbered. `insert` is cut at its calls: `at` is the node and `rest` the pattern that the call at hand was made with, and each way through `insert` is an action:

| Code (`radix.go`) | Action |
|---|---|
| 239-241 of `router.go` | `Begin` |
| 33-37 | `InsertHere` |
| 41-67 | `InsertWild` |
| 84-86, 116-118 and 133-151 | `SplitChild`; the call goes on with what it left |
| 89-93, 121-125 | `Descend` |
| 94-98 | `AddBelow` |
| 102-104, 128-130 | `AddChild` |

A new child is entered before the call that fills it, where the code fills it first; nobody looks at the tree in between. `Lookup` asks the static map and then `search`. As a recursive operator would keep the provers out, a call of `search` is a point in `Calls` (node, child, rest of the path, parameters), and `SearchTree` is a recursive function on how deep calls may be nested (`Fuel`).

The reference does not look at the tree. `LookupSound` compares the letters of the path with those of the pattern that was found, the values put in for the placeholders; slashes are not compared, but when the segments cannot be taken for each other (`Unmistakable`), the directories of the file that was found match them one by one (`Matches`). `LookupComplete` says that a path that is not found is matched by no file, `StaticFirst` that the file that is found is the most specific (`Preferred`). What the router cannot do is stated next to them:

* `Orderly`: behind one text comes one placeholder, and no pattern has a name twice. A node keeps the name of its first placeholder, and the map of the parameters has one value per name, so anything else mixes them up.
* `Unmistakable`: no segment begins with the name of a directory or is a beginning of one. `insert` and `search` strip the slashes they meet, so one between nodes does not count: with `/blog` and `/blog/{slug}`, `/blogger` is answered with the slug `ger`; with `/ab` and `/ac`, `/a/b` is answered by `/ab`.
* `Torn`: a dynamic route whose node is cut before a slash, by a route the walk meets later that parts from it there, is not found any more.
* `BehindRest`: `search` stops at a placeholder for the rest of a path, so what a pattern has behind one is not reached.
* `Doubled`: text that is left before a placeholder gets a new child without a look at those that are there (94-98), so two children may begin alike, and the first is tried first.

### AppServer

The server before and while it serves, on top of RateLimit, whose variables it extends. The router hooks are called as `GetHooks` sorts them, ties in any order (`EnterHook`, `LeaveHook`). Each makes as many calls of its `routerAdapter` as it likes, a middleware (`HookUse`) or a route (`HookRoute`), and chi panics when `Use` comes after a route, in the same hook, too. A request goes through `limit`, `auth`, `headers`, `handler`, `respond` and `flush`, the order that the priorities 50, 100 and 200 give. Whether a path is protected and the credentials are right is a choice (`AuthPass`, `AuthFail`). `sent` is a response with the header map it was sent with: later changes of the map stay in the map. A handler sets some fields and deletes some, as `w.Header().Del` and `http.Error` do, then writes or not, or panics; `Recoverer` answers a panic, and the response hook is passed over. A field that the handler deleted is `deleted` until the plugin sets it again, which it does for overridden fields and not for added ones (`headers.go:90-98`). `pluginResponseHook` asks the registry at each response, so `Unload` takes effect there and not in the stack.

### Scaffold

`zt create` by several processes with one target directory. Each is cut at every call of the file system or of a command: `Stat`, `Make`, `Copy` per file, `WriteMod`, `Generate`, `GitInit`, `GitAdd`, `GitCommit`, and the removal item by item. `StepFail` stands for every error before git and leads to the removal; what fails in git is only warned about (`scaffold.go:98-102`). `Kill` may come between any two steps; `Note` is a file of the developer's. `os.MkdirAll` does not mind a directory that exists, and `copyTemplateFile` makes it again, so a Create can go on after another has removed its directory. The history variables say who was at work together (`met`), who began to remove (`removers`), and who was past its `Stat` when the developer's file came (`guests`).

## The runs

| Run | Instance | Shows |
|---|---|---|
| `DevServerSafety` | 2 handlers, a `.go`, a `.templ` and an ignored file, one save each, 2 process identities, every failure and crash | type, lock, flag, child, program and freshness invariants; the refinement of Preview |
| `DevServerLive` | 2 handlers, a request, no edits (contents do not matter) | `HandlerReturns`, `RequestReturns`, `ShutdownEnds` |
| `DevLoopAccepted` | a `.go` and a `.templ` file, saved once each at any moment, also during the first build | `AcceptedIsServed` |
| `Watcher` | a watched file, one of another kind, one in a directory made later; 2 saves, 2 queued events, a walk that may miss the watched ones | `LostOnlyWhenBlind`, `QueuedIsReported` |
| `HMR` | a page that connects twice, 2 broadcasters | `ClientsMatch`, `RegisteredIsReloaded` |
| `AppServer` | one client with 2 requests at a time, limit 2, window 1, 3 instants, 3 router hooks of 2 priorities with any calls, a field each that is removed, overridden and added | `BurstBound`, the refinement of FixedWindow inside the server, `SetupDecided`, `ChecksAreCounted`, `HeadersReach` |
| `PluginsNames` | 3 files, every choice of names, a user of hooks, `Close` at any moment; `zt dev` with every list of at most 2 enabled plugins | `NothingLeaks`, `HooksReachOpen`, `LoadedIsRegistered`, `ClosedOnce`, `ServesEnabled`, `LeftOpen` |
| `Radix` | every application of at most 5 of 18 files in the order of `filepath.Walk`, paths of up to 3 segments over 5 words | `TreeSound` at every call of `insert`, `LookupSound`, `LookupComplete`, `StaticFirst`, `LastFileAnswers` |
| `Scaffold` | two processes, one without `templ generate`, a template of 2 files | `SuccessComplete`, `AloneIsExact`, `GuestsOnlyLose`, `FailureCanRetry` |

Three runs show that the program does not do what the repository says of it:

| Run | Violated | Why |
|---|---|---|
| `DevServerTemplStale` | `TemplReloadFresh` | two handlers pass the check of the flag, their `templ generate` race outside `childMu`, and the older writes last (`server.go:228`) |
| `DevLoopDropped` | `AutoReload` | a change reported while a rebuild runs is dropped, and nothing rebuilds afterwards (`server.go:214`) |
| `HMRStale` | `PagesFresh` | a page that is disconnected during a broadcast connects again without reloading (`inject.go:31`) |

Further behaviours a reader of the code should know of, which no run is spent on because a property of a passing run already states them as its exception:

* A save within 500 ms of a report of the same file, one that finds the kernel's queue full, and every save in a directory made after `Start` or after a directory that could not be watched is not reported (`LostOnlyWhenBlind`); a save during the first build is not noticed (`DevLoop`, `EarlySaves`).
* A dynamic route is not found when one that the walk meets later parts from it before a slash and cuts its node there: `b/i_/page.templ` and `b/page.templ` (`LookupComplete`, `Torn`; `radix.go:116`, `185`). A dynamic route that goes on behind `[...rest]` is not found either (`BehindRest`; `radix.go:194`).
* Text left before a placeholder gets a second child that begins like one that is there (`StaticFirst`, `Doubled`; `radix.go:94`). With `aa/page.templ`, `ab/[x]/[y]/page.templ` and `ab/[x]/b/page.templ` the path `/ab/q/b` gets the second file and not the third, which is more specific; with `aa/page.templ`, `ab/[x]/page.templ` and `ab/x_/route.go` the path `/ab/q` gets the second file, although the third has the same pattern and comes later. `LastFileAnswers` therefore speaks of static patterns only.
* Names of directories that begin with one another answer for each other's paths (`Unmistakable`), and siblings with different placeholders or one name twice in a pattern give wrong parameters (`Orderly`): `/{x}/b/{x}` has one value for both.
* With `plugins/headers`, a field the handler sets itself goes out although the plugin removes or overrides it (README.md:178), when the handler writes, and one that it deletes does not; an added field that it deletes stays away even if it does not write (`HeadersReach`). After a panic that `Recoverer` answers the response hook does not run at all.
* `loader.Close` while a plugin is loaded leaves that one open (`LeftOpen`); `UnloadPlugin` or a second `Close` after it closes plugins again (`ClosedOnce`), at which the rate limiter panics; hooks go on to reach what it closed (`HooksReachOpen`). None of it happens in `zt dev`.
* A request whose answer takes longer than 15 s, because a build held `childMu` or the child was slow, is answered in vain, and one to a child that never answers keeps its goroutine until no child runs (`RequestReturns`).
* Two processes of `zt create` that both found no directory may remove each other's files, and a developer's file that came meanwhile goes with them (`SuccessComplete`, `GuestsOnlyLose`).

### Bounds

* `MaxVersion`: one save lets a handler's change be older or newer than what a concurrent build read. The theorems do away with the bound.
* Two handlers: every hazard of the flag and of `childMu` is about a pair, with `Main` as a third contender. Two process identities are enough to have an old child and a new one.
* `MaxConnects`, `MaxSaves`, `MaxTime`: a connection and its successor; a save before and after a window; two windows and the instants between them. They are guards of the actions that count. `MaxEvents` is no bound of the model but the length of the kernel's queue; two are enough to fill it and to have an event behind another.
* `AppServer`: two requests at once are enough for one to overtake the other at every point of the stack; the theorems have any finite number of requests, and any clients, hooks and fields. Three hooks give a tie and a strict order.
* `Radix`: five routes and three segments let a node be split twice and a branch be abandoned at two depths. The files were chosen for shared beginnings, several spellings of a name, and placeholders on both sides of `page.templ`. The theorems have any files and paths. `Fuel` allows every call of `search` a character of the path or another child; it is never used up (`SearchEnds`).
* `Scaffold`: two processes, as each removal concerns a pair; the theorems have any number and any templates.
* Symmetry is used for handlers and processes (DevServer), requests and hooks of equal priority (AppServer) and plugin files of equal priority (Plugins), in runs without liveness properties or where only safety and step properties are checked.
* `DevServerLive` has no edits: its properties do not depend on contents.

Deadlock is not checked: bounded saves, events, connections and a server that has exited let every system stop. That nothing is stuck is what the liveness properties say.

### Fairness

Goroutines that are not blocked run on (weak fairness of their steps). Go's `sync.Mutex` hands the lock to a waiter of more than 1 ms, hence strong fairness of the steps whose guard is a free `childMu`; a waiting writer of `sync.RWMutex` is preferred to later readers, hence strong fairness of `Register` and `Unregister`. Commands of handlers end because they run with a timeout of 60 s (`server.go:225`, `260`); the first build has none and is assumed to end, and so are the `OnDevReload` hooks of plugins and the writes to browsers, which the code gives no limit.

A child need not answer, nor end when it gets SIGTERM. A request sent to it is certain to return only when no child is left (`alive = {} /\ Refused(r)`), since its connection is then refused or reset; `RequestReturns` says that a request returns, if perhaps too late for the `WriteTimeout`, unless from some moment on it waits while a child is running. What it rules out is that a request stays behind `childMu`, or in front of a child that is gone. `Shutdown` does not wait for the child, so `ShutdownEnds` does without assumptions about it. Saves, events, signals, requests, crashes, broken connections and failures are never assumed.

## The proofs

Every module whose name ends in `Proofs` is checked by `tlapm`, for every value of the constants that satisfies the `ASSUME`s of the modelled component: names of goroutines, files and processes are distinct, limit and window are positive, the fields of the headers plugin are disjoint.

* **DevServerProofs**. `Mutex`: `LockInv` is inductive on top of the types. `FlagIsHeld`: a handler that clears the flag leaves no claim to it, and every path from `Mark` leads to a clear. `OneChild`, `RunsBinary`, `OrphanOnlyIfLate` follow from `ChildInv`, which adds that no child is alive between `StopChild` and `StartChild`; without it `StartChild` could make a second one. It needs `LateInv`: when `Shutdown` has signalled, no build is under way unless a late one began. `ReloadsAreFresh` follows from `FreshInv`, which bounds what a build has read by the binary below and the disk above. `Refinement`: with both, every step is one of Preview or a stutter. `PartsInside`: every step of DevLoop is one of DevServer and one of Watcher, or leaves the variables of either alone, so `LoopIsSafe` has all of the above for the loop, and what WatcherProofs shows of a Watcher holds for the one in it.
* **AppServerProofs**, first of the limiter alone. `WindowRefinement`: with `Counted` (an entry counts from 1 to the limit), every step of RateLimit is one of FixedWindow or a stutter: sweeps stutter, and an expired entry and no entry are the same. `TwoWindows` proves `BurstBound` from `Bursts`: the last `count` requests let through are those of the entry's window, those before them came before it began, and those a limit earlier came more than another window before; when the entry is gone or over, all of them are past. Of 2 * Limit + 1 requests in a row the first is thus always older than the window.
  `LimiterInside`: every step of the server is one of RateLimit or leaves its variables alone, so what is shown of the limiter holds in the composition, the bound on bursts among it (`ServerBurst`). `Counting` proves `ChecksAreCounted`: each request between the limiter and basicauth is one more in the limiter's history than basicauth has seen; the set of requests has to be finite. `SetupIsDecided` rests on `SetupInv`: a hook that made calls has a priority no higher than the one being called and those still to be called, and a route stands for a hook that added it. `HeadersReached` needs, for each point of the stack, what the header map of a request there contains, up to what the handler set or deleted; a response is sent with the map of its moment.
* **PluginsProofs**. `NoLeak`, `HooksOpen`, `LoadedRegistered`, `NotClosedTwice`, `Serves` and `LeavesOpen` follow from `ProperInv`, the conjunction of what the registry keeps under which name, how far the plugin of a load under way is, which plugins can be open after `loader.Close` (those registered since), and how far `LoadFromConfig` has come in its list.
* **WatcherProofs**. `LostWhenBlind` follows from `LossInv`, per file: what was saved and not reported is queued, unless one of the exceptions holds; a path in the debounce window has been saved there since its report; what is not watched is in `unseen`. The queue needs lemmas on what `Append` and `Tail` leave pending.
* **HMRProofs**. `MapMatches`: `ClientsMatch` is inductive with what a goroutine between `register` and `unregister` may rely on.
* **RadixProofs**. `TreeIsSound`: the tree is sound, by the invariant `TreeSpelled`, which is inductive, and `RoutesKept`. `IsTree` says that every node but the root is the child or the wildcard of one node, so what an insert changes in one place does not reach another. `TextsSpelled` relates each node to the text that leads to it, without slashes (the history variable `text`), and the call at hand to its pattern: the node's text and what is left are the pattern of the route that is being inserted. There is one lemma for each action of `Build`; a split keeps all texts, because the two halves spell what the whole did. It needs `Orderly`: else a route may be entered below another's placeholder. `RoutesKept` says that each route that was inserted is at a node with its text, or a later one with the same letters is: the half of `LookupComplete` that is about `insert`. A split moves the handler with the path's end, and no other action but `InsertHere` touches a handler (`KeptFrom`, `SplitKept`, `HereKept`). `LastAnswers` rests on `StaticMap`, an inductive invariant of the walk: the map leads to the last route of each pattern. `EveryPathIsSpelled` combines both with the search: a call of `search` whose parameters are those of its node's text answers with a route whose pattern is that text followed by the rest of the path, values put in, or not at all. This is shown for `SearchChild` and `SearchWild` from the same of the calls they make, and for all nestings by induction. `LookupIsSound` adds where the values come from (`Takes`, by the same induction): the value of each placeholder begins in the path where the letters in front of it are used up, and is the segment there or all that is left. With that a pattern and a path are read side by side (`TogetherOn`): a plain piece is the segment or begins it or is begun by it, and only the first is left when names cannot be taken for each other; a placeholder has the segment; and a piece behind the last letter of the path would have an empty value (`NothingLeft`, `PieceTakes`). The theorems about induction and recursive definitions that take an operator are out of the provers' reach, so the module proves forms of its own over sets and functions (`Induction`, `Recursion`), and its first sections are lemmas on sequences, prefixes and texts. `SearchEnds` says that the calls of `search` have one meaning: exactly one function on `Calls` keeps to the text of `Search`, and `SearchTree` looks deep enough to be it. A call's work is what is left of the path, times one more than there are nodes, plus the children not tried; it gets less with every call, because a move to another node takes at least a character, and a node has fewer children than there are nodes (`KidsFew`, invariant because a child is always made with its node).
* **RadixCompleteProofs**. `NoBranchIsMissed` is the other direction: if some way leads from the root through children and wildcards to a node with a route, each edge taking what `search` takes for it, `search` does not fail, because a call fails only when all the branches behind it do (`FailedTried`). `LookupIsComplete` says that there is such a way wherever there ought to be one. Its invariant is `Ways`: for every route that was inserted, and that is neither torn by a later one nor has a name that could be taken for another's, there is a set of nodes with what each leaves of the pattern, such that each has the route's end or an edge to another one, with the slashes stripped that `search` strips (`HasWay`), and what is in front of the nodes of the way is what `StaticIsFirst` needs (`Clean`); for the route at hand it may end at the node that `insert` is at. One lemma for each action keeps it: an insert that goes on makes the way of its route longer (`WayMoves`), growth of the tree keeps all ways (`WayStays`), and a split keeps those that do not go on behind it with a slash (`WaySplits`); a way that did would be that of a torn route (`SplitTears`), because in patterns whose names can be told from each other, equal letters have their slashes in the same places (`NotBySlash`, `SamePlace`). A pattern and a path that its file matches then go side by side along the way (`Abreast`): a character next in the one is next in the other, a placeholder has a segment, and both end together, so no call on the way fails (`PassesOn`). `TreeIsTight` is about the order of the children: below the root and below a placeholder `insert` finds a child that begins like its text if there is one (`TakesFirst`), so none begin alike there (`Shape`, with the place `insert` is at when a text and a placeholder are left); `AddBelow` appends without looking, so elsewhere children may begin alike, but behind each child the patterns of two routes part, or one ends or has a placeholder (`Forks`).
  `StaticIsFirst` proves `StaticFirst`. It needs the history of the inserts: where a child on the way of a route begins like one in front of it (`Rivals`), what lies in the one in front is an earlier route or has no placeholder behind that place (`Screened`, `Before`), and an earlier one with the letter of the route there is doubled by it (`Parted`, `Doubled`). This is what `Clean` says of a node of a way. It is kept because a route with text in front of a placeholder enters a child only from the root or a placeholder, where none begin alike, so the one in front gets no later routes but plain ones; and because a child that `AddBelow` appends is where two other routes part (`ForkParts`). With that the search is followed. An answer comes from the first child that has one or from the wildcard when no child has (`AnswerComes`), and is a route below the node (`AnswerInside`). Along the way of a route that matches the path, what is answered at each node is as specific (`Nearer`) or doubled (`WayFollows`, by induction on what is left of the pattern): a child in front that begins alike holds no more than `Clean` allows (`RivalBetter`), a child on the way answers before the wildcard is tried (`KidBetter`), and where the way takes the wildcard, a child that answers instead has a letter where the route has a placeholder (`WildBetter`). Last, to have no placeholder before the other route has one, letter by letter (`Lenient`), is to be preferred, segment by segment (`LenientPreferred`), for two routes that match the same path.
* **ScaffoldProofs**. `TypeCorrect` has, besides types, that a Create which has gone on to `go.mod` has copied its whole template (`CountsStep`). `Complete` and `Exact` follow from `CreateInv`, per process: what it has made so far is there, and its own if it met nobody, or something was removed by one it met; whoever is at work has met everybody else who is; its commit contains what it made. The step of another process (`OthersStep`) and of its own (`OwnStep`) are separate lemmas. `GuestsLose` needs that nobody passes its `Stat` while the developer's file is there; `Retries`, that a directory no developer touched has somebody who answers for it.

Every safety invariant, action property and refinement that a run checks is the statement of a theorem. Only model-checked: the six liveness properties (`HandlerReturns`, `RequestReturns`, `ShutdownEnds`, `QueuedIsReported`, `RegisteredIsReloaded`, `AcceptedIsServed`), as fairness is defined by `ENABLED`, which is beyond the prover.

## Not modelled

* Plugin context, router context, rendering and middleware helpers keep no state that several steps share. Configuration is one pass through viper. The builder, `InjectHMR`, `Mount` and `createHandler` have no caller. `zt build`, `start` and `generate` print that they are not implemented; `routes` and `plugin` list.
* The eBPF loader returns errors, and the C programs are not attached and have no user.
* Containers, examples and templates hold no logic of the program.
* Of modelled parts: an error of `NewWatcher`, which `Start` ignores and which makes the next call fail on a nil watcher (`server.go:60-64`); the script that the proxy appends to HTML; the addresses `getClientIP` derives; the panic of the rate limiter at a second `Close` (when there is one, `ClosedOnce` says); other panics of chi while setting up (a pattern it does not accept, two mounts in one place); directory names that mix text and placeholders; what chi makes of a pattern.
* Wording, formats and logging everywhere.

Divergences met while modelling that need no model: `zt create -p` writes `zeptor.config.yaml`, but `config.Load` looks for `zeptor.yaml` (`config.go:69`); `-p 3000` cannot override a port of the file, as 3000 means "not given" (`main.go:44`); `Mount` registers every method, `SetupRoutes` only GET; chi takes `{...r}` for one segment where `Lookup` takes it for the rest; the parameters of an API route are the first group of the expression only; layouts keep the spelling of their directories; `Info` looks a configuration up by a plugin's own name although `SetConfig` used the file's; `Retry-After` is 60 whatever the window; `tc_cache.c` compares with a constant in the other byte order.

The status of each part is in `PROJECT.json`, and so is the property of each hazard. Two hazards have none, as the code does nothing about them: a signal in the first build leaves a child behind (`Kill`), and a save during it is not noticed (`EarlySaves`). What is excluded or excused in the properties of another is said in its note.

## Order of work

1. DevServer, Preview and their proofs; Watcher; DevLoop; HMR; RateLimit, FixedWindow and their proof; Plugins and its proofs; Radix.
2. The walk and the spellings of directories in Radix; `zt dev` in Plugins; the kernel's queue and the walk in Watcher; AppServer with the plugins of the repository; Scaffold; the proofs of AppServer, Watcher, HMR, Scaffold and of the new parts of Plugins.
3. The inserts of Radix call by call, its properties stated with their exceptions, and its proofs.
4. The theorems about the search of Radix: that it ends, misses nothing and prefers what is most specific.
5. Left, should the code come to use them: `Mount` next to `Lookup`, `pluginRequestHook`, the eBPF maps, and `zt build`.
