------------------------------- MODULE Watcher -------------------------------
(***************************************************************************)
(* The file watcher of internal/dev/watcher.go: one goroutine receives     *)
(* file-system events and runs onChange, each call in a goroutine of its   *)
(* own.  Only directories that exist when Start walks the tree are         *)
(* watched.  An event is dropped when its kind or the file's extension is  *)
(* of no interest, and when the same path was reported less than 500 ms    *)
(* ago: the first event of a burst is reported, the later ones are not.    *)
(*                                                                         *)
(* The kernel keeps at most MaxEvents events; of those that do not fit it  *)
(* keeps one record, which reaches the loop as an error and is logged.     *)
(*                                                                         *)
(* Time is reduced to what the code asks of it: `recent' holds the paths   *)
(* whose last report is less than 500 ms old; they leave it at any moment. *)
(***************************************************************************)
EXTENDS Naturals, Sequences

CONSTANTS
  Paths,       \* the files the developer may touch
  Reportable,  \* those with a watched extension: .go .templ .yaml .yml
  Late,        \* those in a directory that does not exist at first
  Missable,    \* those whose directory the kernel may refuse to watch
  MaxSaves,    \* bound: saves of one file
  MaxEvents    \* how many events the kernel keeps

ASSUME PathsAssumption == Reportable \cup Late \cup Missable \subseteq Paths
ASSUME BoundsAssumption == MaxSaves \in Nat /\ MaxEvents \in Nat

VARIABLES
  ver,         \* ver[f]: how often f was saved
  present,     \* the paths whose directory exists
  watched,     \* the paths whose directory is watched
  events,      \* events not yet received, oldest first
  recent,      \* the paths reported less than 500 ms ago
  loop,        \* processEvents: "new", "running" or "ended"
  closed,      \* Close was called
  told,        \* history: the version of f onChange was last called for; a
               \* save before Start is no concern of the watcher
  hot,         \* history: the paths in `recent' when last saved
  spilled,     \* history: those whose last save found the kernel's queue full
  unseen       \* history: those whose directory was made after Start, or was
               \* not reached by its walk

history == <<hot, spilled, unseen>>
wvars   == <<ver, present, watched, events, recent, loop, closed, told, history>>

Interesting == {"write", "create"}
Kinds       == Interesting \cup {"chmod", "overflow"}

WatcherTypeOK ==
  /\ ver \in [Paths -> 0..MaxSaves]
  /\ present \subseteq Paths
  /\ watched \subseteq present
  /\ loop = "new" => watched = {}
  /\ events \in Seq([path : watched, kind : Kinds])
  /\ recent \subseteq Reportable
  /\ loop \in {"new", "running", "ended"}
  /\ closed \in BOOLEAN
  /\ told \in [Paths -> 0..MaxSaves]
  /\ hot \subseteq Paths
  /\ spilled \subseteq Paths
  /\ unseen \subseteq present

WatcherInit ==
  /\ ver = [f \in Paths |-> 0]
  /\ present = Paths \ Late
  /\ watched = {}
  /\ events = <<>>
  /\ recent = {}
  /\ loop = "new"
  /\ closed = FALSE
  /\ told = [f \in Paths |-> 0]
  /\ hot = {}
  /\ spilled = {}
  /\ unseen = {}

-----------------------------------------------------------------------------
(* The developer and the kernel                                            *)

\* The kernel notices what happens to f, and has no room for it.
Noticed(f)  == f \in watched /\ ~closed
Overflow(f) == Noticed(f) /\ Len(events) >= MaxEvents

\* Of all that does not fit it keeps one record.
Queue(f, k) ==
  events' = CASE Overflow(f) /\ Len(events) > MaxEvents -> events
              [] Overflow(f) -> Append(events, [path |-> f, kind |-> "overflow"])
              [] Noticed(f)  -> Append(events, [path |-> f, kind |-> k])
              [] OTHER       -> events

\* A save is a write, or a create when the editor replaces the file.
Save(f, k) ==
  /\ f \in present /\ ver[f] < MaxSaves
  /\ k \in Interesting
  /\ ver' = [ver EXCEPT ![f] = @ + 1]
  /\ Queue(f, k)
  /\ hot' = (hot \ {f}) \cup ({f} \cap recent)
  /\ spilled' = IF Overflow(f) THEN spilled \cup {f} ELSE spilled \ {f}
  /\ told' = IF loop = "new" THEN ver' ELSE told
  /\ UNCHANGED <<present, watched, recent, loop, closed, unseen>>

\* An event that does not change the content.
Touch(f) ==
  /\ f \in present
  /\ Queue(f, "chmod")
  /\ UNCHANGED <<ver, present, watched, recent, loop, closed, told, history>>

\* The developer makes the directory of f.
MakeDir(f) ==
  /\ f \in Late \ present
  /\ present' = present \cup {f}
  /\ unseen' = IF loop = "new" THEN unseen ELSE unseen \cup {f}
  /\ UNCHANGED <<ver, watched, events, recent, loop, closed, told, hot, spilled>>

-----------------------------------------------------------------------------
(* The watcher                                                             *)

\* addDir walks the directories that exist and stops at the first that
\* cannot be watched, which is logged; then the goroutine starts.
StartWatch ==
  /\ loop = "new"
  /\ \E missed \in SUBSET (present \cap Missable) :
       watched' = present \ missed /\ unseen' = missed
  /\ loop' = "running"
  /\ UNCHANGED <<ver, present, events, recent, closed, told, hot, spilled>>

Receive ==
  /\ loop = "running" /\ events # <<>>
  /\ events' = Tail(events)
  /\ UNCHANGED <<ver, present, watched, loop, closed, history>>

WantedAnyFile(e) == e.kind \in Interesting   \* wrong: any extension

Wanted(e) == e.kind \in Interesting /\ e.path \in Reportable

DiscardGlobal ==   \* wrong: one debounce window for all paths
  /\ Receive
  /\ ~Wanted(Head(events)) \/ recent # {}
  /\ UNCHANGED <<recent, told>>

\* The two `continue's: of no interest, or within the debounce window.  The
\* error of an overflow is logged, and that is all.
Discard ==
  /\ Receive
  /\ ~Wanted(Head(events)) \/ Head(events).path \in recent
  /\ UNCHANGED <<recent, told>>

\* debounce[f] = now; go onChange(f)
Report(f) ==
  /\ Receive
  /\ Wanted(Head(events)) /\ Head(events).path = f /\ f \notin recent
  /\ recent' = recent \cup {f}
  /\ told' = [told EXCEPT ![f] = ver[f]]

WindowEnd(f) ==
  /\ f \in recent
  /\ recent' = recent \ {f}
  /\ UNCHANGED <<ver, present, watched, events, loop, closed, told, history>>

\* fsnotify drops what it has queued and closes Events.
CloseWatch ==
  /\ ~closed
  /\ closed' = TRUE
  /\ events' = <<>>
  /\ UNCHANGED <<ver, present, watched, recent, loop, told, history>>

EndLoop ==
  /\ loop = "running" /\ closed
  /\ loop' = "ended"
  /\ UNCHANGED <<ver, present, watched, events, recent, closed, told, history>>

-----------------------------------------------------------------------------
WatcherNext ==
  \/ \E f \in Paths :
       (\E k \in Kinds : Save(f, k)) \/ Touch(f) \/ MakeDir(f) \/ Report(f)
  \/ StartWatch \/ Discard \/ CloseWatch \/ EndLoop
  \/ \E f \in Reportable : WindowEnd(f)

WatcherSpec == WatcherInit /\ [][WatcherNext]_wvars

\* The goroutine keeps receiving, and 500 ms pass.
WatcherFairness ==
  /\ WF_wvars(StartWatch) /\ WF_wvars(EndLoop)
  /\ WF_wvars(Discard \/ \E f \in Paths : Report(f))
  /\ \A f \in Reportable : WF_wvars(WindowEnd(f))

WatcherFairSpec == WatcherSpec /\ WatcherFairness

-----------------------------------------------------------------------------
Pending(f) ==
  \E i \in DOMAIN events : events[i].path = f /\ Wanted(events[i])

\* A save is lost only when it is made within 500 ms of a report of the same
\* file, when the kernel's queue is full, or in a directory that was made
\* after Start or that its walk did not reach: whatever order saves, reports and discards come in, any other is reported
\* or still queued (watcher.go:48-52, 97-103, 111-115).
LostOnlyWhenBlind ==
  \A f \in Reportable :
    told[f] < ver[f] /\ ~closed => Pending(f) \/ f \in hot \cup spilled \cup unseen

\* A queued write of a path outside its debounce window is reported: the
\* reports of other paths do not hold it back (watcher.go:97).
QueuedIsReported ==
  \A f \in Reportable :
    (Pending(f) /\ f \notin recent) ~> (f \in recent \/ closed)
=============================================================================
