------------------------------- MODULE DevLoop -------------------------------
(***************************************************************************)
(* The edit-and-reload loop of `zt dev': the watcher of Watcher and the    *)
(* supervisor of DevServer together.  A save changes the source and queues *)
(* an event in one step; a report of the watcher spawns a handler of the   *)
(* supervisor; Start runs the initial build before it starts the watcher;  *)
(* Shutdown closes it.  Every watched file matters to the build here       *)
(* (InertFiles is empty) and |Handlers| is large enough for every report.  *)
(***************************************************************************)
EXTENDS DevServer, Sequences

CONSTANTS
  EarlySaves   \* whether the developer saves before the watcher runs

VARIABLES present, watched, events, recent, loop, closed, told, hot, spilled, unseen

W == INSTANCE Watcher WITH
       Paths <- Sources, Reportable <- Sources, Late <- {}, Missable <- {},
       MaxSaves <- MaxVersion, MaxEvents <- MaxVersion * Cardinality(Sources),
       ver <- src

watch == <<present, watched, events, recent, loop, closed, told, hot, spilled, unseen>>
all   == <<vars, watch>>

LoopInit == Init /\ W!WatcherInit

\* A save is an edit that the kernel may report.
SaveFile(f) ==
  /\ EarlySaves \/ loop # "new"
  /\ Edit(f) /\ W!Save(f, "write")

\* Start: the initial build first, then the watcher (server.go:56-64).
WatchStarts == pc[Main] = "serving" /\ W!StartWatch /\ UNCHANGED vars

\* go w.onChange(path)
Reports(h, f) == W!Report(f) /\ Spawn(h, f)

WatcherAlone ==
  /\ Up
  /\ W!Discard \/ W!EndLoop \/ \E f \in Sources : W!WindowEnd(f)
  /\ UNCHANGED vars

\* Shutdown closes the watcher first (server.go:296-298).
SignalAndClose == loop # "new" /\ Signal /\ W!CloseWatch

\* The steps of the supervisor that the watcher takes no part in.
ServerAlone ==
  /\ \/ \E h \in Handlers : HandlerStep(h)
     \/ \E t \in Threads : BuildStep(t)
     \/ Kill \/ SignalChild \/ Exit
     \/ \E p \in Pids : ChildExit(p)
  /\ UNCHANGED watch

LoopNext ==
  \/ \E f \in Sources : SaveFile(f)
  \/ \E h \in Handlers, f \in Sources : Reports(h, f)
  \/ WatchStarts \/ WatcherAlone \/ SignalAndClose \/ ServerAlone

\* The fairness of the two parts; a report needs a goroutine to be created.
LoopFairness ==
  /\ WF_all(WatchStarts)
  /\ WF_all(WatcherAlone)
  /\ WF_all(W!Discard /\ UNCHANGED vars)
  /\ WF_all(\E h \in Handlers, f \in Sources : Reports(h, f))
  /\ \A t \in Threads :
       /\ WF_all(BuildStep(t) /\ UNCHANGED watch)
       /\ SF_all(Locking(t) /\ UNCHANGED watch)
  /\ \A h \in Handlers : WF_all(HandlerStep(h) /\ UNCHANGED watch)

LoopSpec == LoopInit /\ [][LoopNext]_all /\ LoopFairness

-----------------------------------------------------------------------------
Stopping == pc[Main] \in {"shutdown", "draining", "exited", "killed"}

\* Whatever other handlers do meanwhile, a Go change that passed the check
\* of the flag ends up in the program the child runs, unless a command
\* fails (server.go:210-276).
AcceptedIsServed ==
  \A h \in Handlers, f \in GoFiles, v \in 1..MaxVersion :
    (pc[h] = "mark" /\ file[h] = f /\ want[h] = v)
      ~> (Stopping \/ \E p \in alive : image[p][f] >= v)

\* Once the developer stops saving, the application that runs is built from
\* the sources on disk (cmd/zt/main.go:30-31).
AutoReload ==
  \A f \in Sources :
    (pc[Main] = "serving" /\ binary[f] # src[f])
      ~> (binary[f] = src[f] \/ Stopping)
=============================================================================
