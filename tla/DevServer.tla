------------------------------ MODULE DevServer ------------------------------
(***************************************************************************)
(* The development server of internal/dev/server.go: it supervises one     *)
(* child process (the user's application, rebuilt from source), proxies    *)
(* requests to it and rebuilds it when the watcher reports a change.       *)
(*                                                                         *)
(* Every change runs handleFileChange in a goroutine of its own (a         *)
(* "handler" below); the main goroutine performs the initial build, waits  *)
(* for a signal and shuts down.  All of them share childMu, childCmd and   *)
(* the flag `rebuilding'.  A short critical section (lock, one read or     *)
(* write, unlock) is one action enabled when childMu is free;              *)
(* buildAndStartChild holds childMu throughout and is cut into the steps   *)
(* that other processes can observe.                                       *)
(*                                                                         *)
(* A file's content is its version number.  `templ generate' and `go       *)
(* build' are external commands: each reads what it reads at one instant   *)
(* and writes its output at a later one, and may fail.                     *)
(***************************************************************************)
EXTENDS Naturals, FiniteSets

CONSTANTS
  Handlers,    \* goroutines running handleFileChange
  Main,        \* the goroutine of RunDev
  Free,        \* the owner of an unlocked childMu
  GoFiles,     \* hand-written .go files
  TemplFiles,  \* .templ files, each with its generated _templ.go
  InertFiles,  \* watched files handleFileChange ignores: .yaml, _templ.go
  NoFile,      \* the file of a handler that is not running
  Requests,    \* requests to the proxy
  Pids,        \* identities of child processes
  NoProcess,   \* childCmd == nil, or childCmd.Process == nil
  Failures,    \* what may go wrong: "templ", "build", "start", "crash"
  MaxVersion   \* bound: edits of one file

Threads == Handlers \cup {Main}
Sources == GoFiles \cup TemplFiles
Files   == Sources \cup InertFiles

ASSUME ThreadsAssumption == Main \notin Handlers /\ Free \notin Threads
ASSUME FilesAssumption ==
  /\ GoFiles \cap TemplFiles = {}
  /\ InertFiles \cap Sources = {}
  /\ NoFile \notin Files
ASSUME PidsAssumption == NoProcess \notin Pids
ASSUME BoundAssumption == MaxVersion \in Nat

VARIABLES
  src,         \* src[f]: version of source file f on disk
  gen,         \* gen[f]: version of f that f's _templ.go was generated from
  binary,      \* what .zeptor/server.exe was built from
  snap,        \* snap[t]: what the command t is running has read
  pc,          \* where each goroutine is
  file,        \* file[h]: the path h was called with
  want,        \* history: version of file[h] when h passed its check
  childMu,     \* the goroutine that holds childMu, or Free
  rebuilding,  \* the flag
  childCmd,    \* the process childCmd.Process denotes
  alive,       \* child processes that are running
  termed,      \* the living ones that were sent a SIGTERM by Shutdown
  image,       \* image[p]: what the program p runs was built from
  late,        \* history: a build began after Shutdown's SIGTERM
  req          \* req[r]: where request r is in proxyHandler

disk  == <<src, gen, binary, snap>>
sync  == <<pc, file, want, childMu, rebuilding>>
child == <<childCmd, alive, termed, image, late>>
vars  == <<src, gen, binary, snap, pc, file, want, childMu, rebuilding,
           childCmd, alive, termed, image, late, req>>

Builds  == [Sources -> 0..MaxVersion]
Nothing == [f \in Sources |-> 0]

\* Points of buildAndStartChild (childMu is held) and of handleFileChange.
Building  == {"stop", "compile", "link", "launch", "settle", "abort"}
Waiting   == {"enter"}
HandlerPc == {"idle", "check", "mark", "generate", "emit",
              "clearOk", "clearErr", "notify"} \cup Waiting \cup Building
MainPc    == {"serving", "shutdown", "draining", "exited", "killed"}
               \cup Waiting \cup Building
\* Points at which a handler has set the flag and not yet cleared it.
Claimed   == {"generate", "emit", "clearOk", "clearErr"} \cup Waiting \cup Building
\* What proxyHandler returns with; "cut" is an answer nobody gets any more.
Answered  == {"ok", "starting", "unavailable", "failed", "cut"}
ReqState  == {"none", "lock", "send"} \cup Answered

TypeOK ==
  /\ src \in [Sources -> 0..MaxVersion]
  /\ gen \in [TemplFiles -> 0..MaxVersion]
  /\ binary \in Builds
  /\ snap \in [Threads -> Builds]
  /\ pc \in [Threads -> HandlerPc \cup MainPc]
  /\ pc[Main] \in MainPc
  /\ \A h \in Handlers : pc[h] \in HandlerPc
  /\ file \in [Handlers -> Files \cup {NoFile}]
  /\ \A h \in Handlers : pc[h] # "idle" => file[h] \in Files
  /\ want \in [Handlers -> 0..MaxVersion]
  /\ childMu \in Threads \cup {Free}
  /\ rebuilding \in BOOLEAN
  /\ childCmd \in Pids \cup {NoProcess}
  /\ alive \subseteq Pids
  /\ termed \subseteq alive
  /\ image \in [Pids -> Builds]
  /\ late \in BOOLEAN
  /\ req \in [Requests -> ReqState]

Init ==
  /\ src = Nothing
  /\ gen = [f \in TemplFiles |-> 0]
  /\ binary = Nothing
  /\ snap = [t \in Threads |-> Nothing]
  /\ pc = [t \in Threads |-> IF t = Main THEN "enter" ELSE "idle"]
  /\ file = [h \in Handlers |-> NoFile]
  /\ want = [h \in Handlers |-> 0]
  /\ childMu = Free
  /\ rebuilding = FALSE
  /\ childCmd = NoProcess
  /\ alive = {}
  /\ termed = {}
  /\ image = [p \in Pids |-> Nothing]
  /\ late = FALSE
  /\ req = [r \in Requests |-> "none"]

\* The process is still there: once it is gone only child processes move.
Up == pc[Main] \notin {"exited", "killed"}
\* The proxy listens and the watcher may have an event in hand.
Started == pc[Main] \in {"serving", "shutdown", "draining"}

Goto(t, from, to) == pc[t] = from /\ pc' = [pc EXCEPT ![t] = to]

-----------------------------------------------------------------------------
(* The developer and the watcher                                           *)

\* The developer saves source file f.
Edit(f) ==
  /\ src[f] < MaxVersion
  /\ src' = [src EXCEPT ![f] = @ + 1]
  /\ UNCHANGED <<gen, binary, snap, sync, child, req>>

\* processEvents runs `go w.onChange(path)'.
Spawn(h, f) ==
  /\ Started
  /\ Goto(h, "idle", "check")
  /\ file' = [file EXCEPT ![h] = f]
  /\ UNCHANGED <<disk, want, childMu, rebuilding, child, req>>

-----------------------------------------------------------------------------
(* handleFileChange, up to the build                                       *)

\* A handler returns: its goroutine ends.
Return(h) ==
  /\ file' = [file EXCEPT ![h] = NoFile]
  /\ want' = [want EXCEPT ![h] = 0]

\* The flag is read in one critical section ...
Drop(h) ==
  /\ Up /\ childMu = Free
  /\ rebuilding \/ file[h] \in InertFiles
  /\ Goto(h, "check", "idle")
  /\ Return(h)
  /\ UNCHANGED <<disk, childMu, rebuilding, child, req>>

Accept(h) ==
  /\ Up /\ childMu = Free
  /\ ~rebuilding /\ file[h] \in Sources
  /\ Goto(h, "check", "mark")
  /\ want' = [want EXCEPT ![h] = src[file[h]]]
  /\ UNCHANGED <<disk, file, childMu, rebuilding, child, req>>

\* ... and set in another.
Mark(h) ==
  /\ Up /\ childMu = Free
  /\ Goto(h, "mark", IF file[h] \in TemplFiles THEN "generate" ELSE "enter")
  /\ rebuilding' = TRUE
  /\ UNCHANGED <<disk, file, want, childMu, child, req>>

\* `templ generate' reads every .templ file ...
GenRead(h) ==
  /\ Up
  /\ Goto(h, "generate", "emit")
  /\ snap' = [snap EXCEPT ![h] = [f \in Sources |->
                                    IF f \in TemplFiles THEN src[f] ELSE 0]]
  /\ UNCHANGED <<src, gen, binary, file, want, childMu, rebuilding, child, req>>

\* ... and writes the generated files of those in F.
Emit(h, F) ==
  /\ gen' = [f \in TemplFiles |-> IF f \in F THEN snap[h][f] ELSE gen[f]]
  /\ snap' = [snap EXCEPT ![h] = Nothing]
  /\ UNCHANGED <<src, binary, file, want, childMu, rebuilding, child, req>>

GenDone(h) ==
  /\ Up
  /\ Goto(h, "emit", "enter")
  /\ Emit(h, TemplFiles)

\* It fails, or is killed after 60 s, with some of them written.
GenFail(h, F) ==
  /\ Up /\ "templ" \in Failures
  /\ Goto(h, "emit", "clearErr")
  /\ Emit(h, F)

-----------------------------------------------------------------------------
(* buildAndStartChild                                                      *)

EnterBuildsFirst(t) ==   \* wrong: builds before it stops the child
  /\ Up /\ childMu = Free
  /\ Goto(t, "enter", "compile")
  /\ childMu' = t
  /\ late' = (late \/ pc[Main] = "draining")
  /\ UNCHANGED <<disk, file, want, rebuilding, childCmd, alive, termed, image, req>>

EnterCoalesced(t) ==   \* wrong: another handler's build is taken for one's own
  /\ Up /\ childMu = Free
  /\ Goto(t, "enter", IF alive # {} THEN "clearOk" ELSE "stop")
  /\ childMu' = IF alive # {} THEN Free ELSE t
  /\ late' = (late \/ pc[Main] = "draining")
  /\ UNCHANGED <<disk, file, want, rebuilding, childCmd, alive, termed, image, req>>

Enter(t) ==
  /\ Up /\ childMu = Free
  /\ Goto(t, "enter", "stop")
  /\ childMu' = t
  /\ late' = (late \/ pc[Main] = "draining")
  /\ UNCHANGED <<disk, file, want, rebuilding, childCmd, alive, termed, image, req>>

StopChildSkipped(t) ==   \* wrong: the old child is left running
  /\ Up
  /\ Goto(t, "stop", "compile")
  /\ UNCHANGED <<disk, file, want, childMu, rebuilding, child, req>>

\* SIGTERM, 500 ms, SIGKILL, Wait: the old child is gone, childCmd is not.
StopChild(t) ==
  /\ Up
  /\ Goto(t, "stop", "compile")
  /\ alive' = alive \ {childCmd}
  /\ termed' = termed \ {childCmd}
  /\ UNCHANGED <<disk, file, want, childMu, rebuilding, childCmd, image, late, req>>

\* `go build' reads the Go files and the generated ones ...
BuildRead(t) ==
  /\ Up
  /\ Goto(t, "compile", "link")
  /\ snap' = [snap EXCEPT ![t] = [f \in Sources |->
                                    IF f \in TemplFiles THEN gen[f] ELSE src[f]]]
  /\ UNCHANGED <<src, gen, binary, file, want, childMu, rebuilding, child, req>>

\* ... and replaces .zeptor/server.exe when it succeeds.
BuildDone(t) ==
  /\ Up
  /\ Goto(t, "link", "launch")
  /\ binary' = snap[t]
  /\ snap' = [snap EXCEPT ![t] = Nothing]
  /\ UNCHANGED <<src, gen, file, want, childMu, rebuilding, child, req>>

BuildFailLocked(t) ==   \* wrong: returns without Unlock
  /\ Up /\ "build" \in Failures
  /\ Goto(t, "link", IF t = Main THEN "serving" ELSE "clearErr")
  /\ snap' = [snap EXCEPT ![t] = Nothing]
  /\ UNCHANGED <<src, gen, binary, file, want, childMu, rebuilding, child, req>>

BuildFail(t) ==
  /\ Up /\ "build" \in Failures
  /\ Goto(t, "link", "abort")
  /\ snap' = [snap EXCEPT ![t] = Nothing]
  /\ UNCHANGED <<src, gen, binary, file, want, childMu, rebuilding, child, req>>

StartChild(t, p) ==
  /\ Up
  /\ Goto(t, "launch", "settle")
  /\ p \notin alive
  /\ childCmd' = p
  /\ alive' = alive \cup {p}
  /\ image' = [image EXCEPT ![p] = binary]
  /\ UNCHANGED <<disk, file, want, childMu, rebuilding, termed, late, req>>

StartFailLocked(t) ==   \* wrong: returns without Unlock
  /\ Up /\ "start" \in Failures
  /\ Goto(t, "launch", IF t = Main THEN "serving" ELSE "clearErr")
  /\ childCmd' = NoProcess
  /\ UNCHANGED <<disk, file, want, childMu, rebuilding, alive, termed, image, late, req>>

\* childCmd was already replaced: its Process is nil.
StartFail(t) ==
  /\ Up /\ "start" \in Failures
  /\ Goto(t, "launch", "abort")
  /\ childCmd' = NoProcess
  /\ UNCHANGED <<disk, file, want, childMu, rebuilding, alive, termed, image, late, req>>

LeaveLocked(t) ==   \* wrong: Unlock only after a success
  /\ Up
  /\ \/ Goto(t, "settle", IF t = Main THEN "serving" ELSE "clearOk") /\ childMu' = Free
     \/ Goto(t, "abort", IF t = Main THEN "serving" ELSE "clearErr") /\ childMu' = childMu
  /\ UNCHANGED <<disk, file, want, rebuilding, child, req>>

LeaveAsHandler(t) ==   \* wrong: every build goes on to clear the flag and reload
  /\ Up
  /\ Goto(t, "settle", "clearOk") \/ Goto(t, "abort", "clearErr")
  /\ childMu' = Free
  /\ UNCHANGED <<disk, file, want, rebuilding, child, req>>

\* The deferred Unlock; Start only warns when the initial build fails.
Leave(t) ==
  /\ Up
  /\ \/ Goto(t, "settle", IF t = Main THEN "serving" ELSE "clearOk")
     \/ Goto(t, "abort", IF t = Main THEN "serving" ELSE "clearErr")
  /\ childMu' = Free
  /\ UNCHANGED <<disk, file, want, rebuilding, child, req>>

-----------------------------------------------------------------------------
(* handleFileChange, after the build                                       *)

ClearErrFlagSet(h) ==   \* wrong: returns with the flag set
  /\ Up /\ childMu = Free
  /\ Goto(h, "clearErr", "idle")
  /\ Return(h)
  /\ UNCHANGED <<disk, childMu, rebuilding, child, req>>

ClearErr(h) ==
  /\ Up /\ childMu = Free
  /\ Goto(h, "clearErr", "idle")
  /\ rebuilding' = FALSE
  /\ Return(h)
  /\ UNCHANGED <<disk, childMu, child, req>>

ClearOk(h) ==
  /\ Up /\ childMu = Free
  /\ Goto(h, "clearOk", "notify")
  /\ rebuilding' = FALSE
  /\ UNCHANGED <<disk, file, want, childMu, child, req>>

\* The OnDevReload hooks, then hmr.Reload to the browsers.
Notify(h) ==
  /\ Up
  /\ Goto(h, "notify", "idle")
  /\ Return(h)
  /\ UNCHANGED <<disk, childMu, rebuilding, child, req>>

-----------------------------------------------------------------------------
(* RunDev and Shutdown                                                     *)

\* A signal before signal.Notify: the default action ends the process.
Kill ==
  /\ pc[Main] \in Waiting \cup Building
  /\ pc' = [pc EXCEPT ![Main] = "killed"]
  /\ UNCHANGED <<disk, file, want, childMu, rebuilding, child, req>>

\* A signal after it: OnDevStop hooks, watcher.Close, hmr.Close.
Signal ==
  /\ Goto(Main, "serving", "shutdown")
  /\ UNCHANGED <<disk, file, want, childMu, rebuilding, child, req>>

SignalChildUnlocked ==   \* wrong: does not wait for the build under way
  /\ Goto(Main, "shutdown", "draining")
  /\ termed' = termed \cup ({childCmd} \cap alive)
  /\ UNCHANGED <<disk, file, want, childMu, rebuilding, childCmd, alive, image, late, req>>

SignalChild ==
  /\ childMu = Free
  /\ Goto(Main, "shutdown", "draining")
  /\ termed' = termed \cup ({childCmd} \cap alive)
  /\ UNCHANGED <<disk, file, want, childMu, rebuilding, childCmd, alive, image, late, req>>

\* proxyServer.Shutdown waits for open requests, 10 s at most; RunDev returns.
Exit ==
  /\ Goto(Main, "draining", "exited")
  /\ UNCHANGED <<disk, file, want, childMu, rebuilding, child, req>>

-----------------------------------------------------------------------------
(* Child processes and proxyHandler                                        *)

\* A child ends, on the SIGTERM or by itself; nothing waits for it.
ChildExit(p) ==
  /\ p \in termed \/ (p \in alive /\ "crash" \in Failures)
  /\ alive' = alive \ {p}
  /\ termed' = termed \ {p}
  /\ UNCHANGED <<disk, sync, childCmd, image, late, req>>

ReqGoto(r, from, to) ==
  /\ Up
  /\ req[r] = from
  /\ req' = [req EXCEPT ![r] = to]
  /\ UNCHANGED <<disk, sync, child>>

Arrive(r) == pc[Main] \in {"serving", "shutdown"} /\ ReqGoto(r, "none", "lock")

\* proxyHandler returns with the answer `how'.  The http.Server closes the
\* connection instead when its WriteTimeout, 15 s from the request, is over
\* by then: a build that holds childMu may take longer, and so may the child.
Answer(r, from, how) ==
  \E to \in {how, "cut"} : ReqGoto(r, from, to)

ReadChild(r) ==
  /\ childMu = Free
  /\ IF childCmd = NoProcess THEN Answer(r, "lock", "starting")
                            ELSE ReqGoto(r, "lock", "send")

\* The request goes to port 3001, and whoever listens there by now answers,
\* if it ever does: http.DefaultClient has no timeout.
Forward(r) == alive # {} /\ Answer(r, "send", "ok")
\* Nobody listens, or not yet, or it ends before it has answered in full; a
\* request that cannot be made or a body that cannot be read is a 500.
Refused(r) == \E how \in {"unavailable", "failed"} : Answer(r, "send", how)

-----------------------------------------------------------------------------
HandlerStep(h) ==
  \/ Drop(h) \/ Accept(h) \/ Mark(h)
  \/ GenRead(h) \/ GenDone(h) \/ \E F \in SUBSET TemplFiles : GenFail(h, F)
  \/ ClearErr(h) \/ ClearOk(h) \/ Notify(h)

BuildStep(t) ==
  \/ Enter(t) \/ StopChild(t)
  \/ BuildRead(t) \/ BuildDone(t) \/ BuildFail(t)
  \/ (\E p \in Pids : StartChild(t, p)) \/ StartFail(t)
  \/ Leave(t)

MainStep == Kill \/ Signal \/ SignalChild \/ Exit

RequestStep(r) == Arrive(r) \/ ReadChild(r) \/ Forward(r) \/ Refused(r)

Next ==
  \/ \E f \in Sources : Edit(f)
  \/ \E h \in Handlers, f \in Files : Spawn(h, f)
  \/ \E h \in Handlers : HandlerStep(h)
  \/ \E t \in Threads : BuildStep(t)
  \/ MainStep
  \/ \E p \in Pids : ChildExit(p)
  \/ \E r \in Requests : RequestStep(r)

Spec == Init /\ [][Next]_vars

(***************************************************************************)
(* Fairness.  A goroutine that is not blocked runs on; the external        *)
(* commands end (handlers give them 60 s), and so do the OnDevReload hooks *)
(* and the writes to browsers; a sync.Mutex waiter is handed the lock      *)
(* after 1 ms (starvation mode), hence strong fairness where the guard is  *)
(* a free childMu.  Edits, events, signals, arrivals and crashes need not  *)
(* happen, and a child need not answer: a request sent to it is sure to    *)
(* return only when no child is left to answer it, its connection being    *)
(* refused or reset then.                                                  *)
(***************************************************************************)
Locking(t) ==
  \/ Enter(t)
  \/ t \in Handlers /\ (Drop(t) \/ Accept(t) \/ Mark(t) \/ ClearErr(t) \/ ClearOk(t))
  \/ t = Main /\ SignalChild

Fairness ==
  /\ \A t \in Threads : WF_vars(BuildStep(t)) /\ SF_vars(Locking(t))
  /\ \A h \in Handlers : WF_vars(HandlerStep(h))
  /\ WF_vars(Exit)
  /\ \A r \in Requests : SF_vars(ReadChild(r)) /\ SF_vars(alive = {} /\ Refused(r))

FairSpec == Spec /\ Fairness

-----------------------------------------------------------------------------
(* Safety                                                                  *)

\* childMu is held exactly by the goroutine inside buildAndStartChild
\* (server.go:107), so the builds of concurrent handlers never overlap.
LockInv ==
  /\ \A h \in Handlers : pc[h] \in Building <=> childMu = h
  /\ pc[Main] # "killed" => (pc[Main] \in Building <=> childMu = Main)

\* The flag is never left set: while it is, some handler is still going to
\* clear it, on whichever of the error paths (server.go:221-246, 256-273).
FlagHeld == rebuilding => \E h \in Handlers : pc[h] \in Claimed

\* Two children never run at once, whatever fails or crashes: a live child
\* is the one childCmd points to, so the next build and Shutdown reach it
\* (server.go:110-117, 302).
SingleChild == alive \subseteq {childCmd}

\* The application that runs is the one on disk: server.exe is not replaced
\* under a running child (server.go:110-128).
ChildRunsBinary == \A p \in alive : image[p] = binary

\* Shutdown waits for the build that holds childMu and then signals the
\* child that build started: a child outlives the server unsignalled only
\* when a handler that was still queued begins its build after that
\* (server.go:301-305).
NoOrphanUnlessLate ==
  pc[Main] \in {"draining", "exited"} /\ ~late => alive \subseteq termed

\* A handler that announces a reload has the change it was called for in
\* the binary, even when another handler built last (server.go:263-276).
Reported(h) == pc[h] \in {"launch", "settle", "clearOk", "notify"}
GoReloadFresh ==
  \A h \in Handlers :
    Reported(h) /\ file[h] \in GoFiles => binary[file[h]] >= want[h]

\* The same of the .templ files: `templ generate' runs outside childMu
\* (server.go:228), so an older run may overwrite a newer one.
TemplReloadFresh ==
  \A h \in Handlers :
    Reported(h) /\ file[h] \in TemplFiles => binary[file[h]] >= want[h]

-----------------------------------------------------------------------------
(* Inductive strengthenings, for the proofs of DevServerProofs             *)

\* No build is under way when Shutdown signals the child, which a history
\* of late builds makes inductive.
LateInv ==
  pc[Main] \in {"draining", "exited"} /\ ~late =>
    \A t \in Threads : pc[t] \notin Building

\* Between the end of the old child and the start of the new one none runs.
ChildInv ==
  /\ SingleChild /\ ChildRunsBinary /\ NoOrphanUnlessLate
  /\ \A t \in Threads : pc[t] \in {"compile", "link", "launch"} => alive = {}

\* What a build has read lies between what the last one installed and what
\* is on disk, and is no older than the change its handler was called for.
FreshInv ==
  /\ \A f \in GoFiles : binary[f] <= src[f]
  /\ \A t \in Threads, f \in GoFiles :
       pc[t] = "link" => binary[f] <= snap[t][f] /\ snap[t][f] <= src[f]
  /\ \A h \in Handlers, f \in GoFiles :
       file[h] = f => /\ want[h] <= src[f]
                      /\ pc[h] = "link" => want[h] <= snap[h][f]
                      /\ Reported(h) => want[h] <= binary[f]
  /\ \A h \in Handlers : pc[h] = "idle" => want[h] = 0

-----------------------------------------------------------------------------
(* Liveness                                                                *)

\* Every handler returns: it is not stuck behind childMu or a failed command.
HandlerReturns ==
  \A h \in Handlers : (pc[h] # "idle") ~> (pc[h] = "idle" \/ ~Up)

\* A proxied request returns although it queues behind builds, children are
\* replaced under it and commands fail (server.go:141-168): all that can hold
\* it for ever is a child that does not answer and that nobody replaces.
RequestReturns ==
  \A r \in Requests :
    (req[r] = "lock") ~> \/ req[r] \in Answered \/ ~Up
                         \/ [](req[r] = "send" /\ alive # {})

\* A SIGINT or SIGTERM ends the server, whatever is being built.
ShutdownEnds == (pc[Main] = "shutdown") ~> (pc[Main] = "exited")
=============================================================================
