---------------------------- MODULE WatcherProofs ----------------------------
(***************************************************************************)
(* Proofs about Watcher, for all sets of files and both bounds: its types, *)
(* and that no save is lost for another reason than the three that         *)
(* LostOnlyWhenBlind names.                                                *)
(***************************************************************************)
EXTENDS Watcher, TLAPS

Event(S) == [path : S, kind : Kinds]

LEMMA EventsGrow ==
  ASSUME NEW S, NEW T, S \subseteq T, NEW q \in Seq(Event(S))
  PROVE  q \in Seq(Event(T))
<1>1. Event(S) \subseteq Event(T)
  BY DEF Event
<1> QED
  BY <1>1

LEMMA QueueKeepsType ==
  ASSUME WatcherTypeOK, NEW f \in Paths, NEW k \in Kinds, Queue(f, k)
  PROVE  events' \in Seq(Event(watched))
<1>1. events \in Seq(Event(watched))
  BY DEF WatcherTypeOK, Event
<1>2. f \in watched => /\ [path |-> f, kind |-> "overflow"] \in Event(watched)
                       /\ [path |-> f, kind |-> k] \in Event(watched)
  BY DEF Event, Kinds
<1> QED
  BY <1>1, <1>2 DEF Queue, Noticed, Overflow

LEMMA TypeStep == WatcherTypeOK /\ [WatcherNext]_wvars => WatcherTypeOK'
<1> SUFFICES ASSUME WatcherTypeOK, [WatcherNext]_wvars PROVE WatcherTypeOK'
  OBVIOUS
<1> USE PathsAssumption, BoundsAssumption
<1>1. events \in Seq(Event(watched))
  BY DEF WatcherTypeOK, Event
<1>2. ASSUME NEW f \in Paths, NEW k \in Kinds, Save(f, k) PROVE WatcherTypeOK'
  <2>1. events' \in Seq([path : watched, kind : Kinds])
    BY <1>2, QueueKeepsType DEF Save, Event
  <2>2. ver' \in [Paths -> 0..MaxSaves] /\ told' \in [Paths -> 0..MaxSaves]
    BY <1>2 DEF Save, WatcherTypeOK
  <2> QED
    BY <1>2, <2>1, <2>2 DEF Save, WatcherTypeOK, history
<1>3. ASSUME NEW f \in Paths, Touch(f) PROVE WatcherTypeOK'
  <2>1. events' \in Seq([path : watched, kind : Kinds])
    BY <1>3, QueueKeepsType DEF Touch, Event, Kinds
  <2> QED
    BY <1>3, <2>1 DEF Touch, WatcherTypeOK, history
<1>4. ASSUME NEW f \in Paths, MakeDir(f) PROVE WatcherTypeOK'
  BY <1>4 DEF MakeDir, WatcherTypeOK
<1>5. ASSUME NEW f \in Paths, Report(f) PROVE WatcherTypeOK'
  <2>1. events' \in Seq([path : watched, kind : Kinds])
    BY <1>1, <1>5 DEF Report, Receive, Event
  <2> QED
    BY <1>1, <1>5, <2>1 DEF Report, Receive, Wanted, WatcherTypeOK, history
<1>6. CASE StartWatch
  <2>1. PICK missed \in SUBSET (present \cap Missable) :
          watched' = present \ missed /\ unseen' = missed
    BY <1>6 DEF StartWatch
  <2>2. watched \subseteq watched'
    BY <1>6 DEF StartWatch, WatcherTypeOK
  <2>3. events' \in Seq([path : watched', kind : Kinds])
    BY <1>1, <1>6, <2>2, EventsGrow DEF StartWatch, Event
  <2> QED
    BY <1>6, <2>1, <2>3 DEF StartWatch, WatcherTypeOK, history
<1>7. CASE Discard
  <2>1. events' \in Seq([path : watched, kind : Kinds])
    BY <1>1, <1>7 DEF Discard, Receive, Event
  <2> QED
    BY <1>7, <2>1 DEF Discard, Receive, WatcherTypeOK, history
<1>8. CASE CloseWatch
  BY <1>8 DEF CloseWatch, WatcherTypeOK, history
<1>9. CASE EndLoop
  BY <1>9 DEF EndLoop, WatcherTypeOK, history
<1>10. ASSUME NEW f \in Reportable, WindowEnd(f) PROVE WatcherTypeOK'
  BY <1>10 DEF WindowEnd, WatcherTypeOK, history
<1>11. CASE UNCHANGED wvars
  BY <1>11 DEF wvars, WatcherTypeOK, history
<1> QED
  BY <1>2, <1>3, <1>4, <1>5, <1>6, <1>7, <1>8, <1>9, <1>10, <1>11 DEF WatcherNext

\* Every variable of the watcher keeps its type; no file of another kind is
\* ever in the debounce map (watcher.go:91-102).
THEOREM WatcherTypes == WatcherSpec => []WatcherTypeOK
<1>1. WatcherInit => WatcherTypeOK
  <2> SUFFICES ASSUME WatcherInit PROVE WatcherTypeOK
    OBVIOUS
  <2>1. ver \in [Paths -> 0..MaxSaves] /\ told \in [Paths -> 0..MaxSaves]
    BY BoundsAssumption DEF WatcherInit
  <2>2. events \in Seq([path : watched, kind : Kinds])
    BY DEF WatcherInit
  <2> QED
    BY <2>1, <2>2 DEF WatcherInit, WatcherTypeOK
<1> QED
  BY <1>1, TypeStep, PTL DEF WatcherSpec
-----------------------------------------------------------------------------
(* What is lost                                                            *)

\* What holds of f whatever is under way: before Start nothing counts as
\* lost, only paths in the debounce window have been saved in it since their
\* report, and what is not watched is in `unseen'.
LossInv(f) ==
  /\ loop = "new" => told[f] = ver[f] /\ f \notin watched
  /\ loop # "new" /\ f \in present \ watched => f \in unseen
  /\ f \in recent /\ told[f] < ver[f] => f \in hot
  /\ f \notin present => told[f] = ver[f]
  /\ f \in Reportable /\ told[f] < ver[f] /\ ~closed =>
       Pending(f) \/ f \in hot \cup spilled \cup unseen

LossAll == \A f \in Paths : LossInv(f)

\* What is appended leaves the rest pending, and is pending itself.
LEMMA PendingAppend ==
  ASSUME NEW f \in Paths, NEW e \in Event(watched),
         events \in Seq(Event(watched)), events' = Append(events, e)
  PROVE  /\ Pending(f) => Pending(f)'
         /\ e.path = f /\ Wanted(e) => Pending(f)'
<1>1. /\ Len(events') = Len(events) + 1
      /\ \A i \in 1 .. Len(events) : events'[i] = events[i]
      /\ events'[Len(events) + 1] = e
      /\ DOMAIN events = 1 .. Len(events)
      /\ DOMAIN events' = 1 .. Len(events')
      /\ Len(events) \in Nat
  OBVIOUS
<1> QED
  BY <1>1 DEF Pending, Wanted

\* What is received was pending if it was wanted; the rest still is.
LEMMA PendingTail ==
  ASSUME NEW f \in Paths, events \in Seq(Event(watched)), events # <<>>,
         events' = Tail(events), Pending(f)
  PROVE  Pending(f)' \/ (Head(events).path = f /\ Wanted(Head(events)))
<1>1. /\ Len(events') = Len(events) - 1
      /\ \A i \in 2 .. Len(events) : events'[i - 1] = events[i]
      /\ Head(events) = events[1]
      /\ DOMAIN events = 1 .. Len(events)
      /\ DOMAIN events' = 1 .. Len(events')
      /\ Len(events) \in Nat
  OBVIOUS
<1>2. PICK i \in DOMAIN events : events[i].path = f /\ Wanted(events[i])
  BY DEF Pending
<1>3. CASE i = 1
  BY <1>1, <1>2, <1>3
<1>4. CASE i # 1
  <2>1. i - 1 \in DOMAIN events' /\ events'[i - 1] = events[i]
    BY <1>1, <1>2, <1>4
  <2>2. events'[i - 1].path = f /\ Wanted(events'[i - 1])
    BY <1>2, <2>1
  <2>3. \E j \in DOMAIN events' : events'[j].path = f /\ Wanted(events'[j])
    BY <2>1, <2>2
  <2>4. Pending(f)'
    BY <2>3 DEF Pending, Wanted
  <2> QED
    BY <2>4
<1> QED
  BY <1>3, <1>4

LEMMA LossStep == WatcherTypeOK /\ LossAll /\ [WatcherNext]_wvars => LossAll'
<1> SUFFICES ASSUME WatcherTypeOK, LossAll, [WatcherNext]_wvars, NEW f \in Paths
             PROVE  LossInv(f)'
  BY DEF LossAll
<1> USE PathsAssumption, BoundsAssumption
<1>1. LossInv(f) /\ events \in Seq(Event(watched))
  BY DEF LossAll, WatcherTypeOK, Event
<1>2. ver[f] \in Nat /\ told[f] \in Nat
  BY DEF WatcherTypeOK
<1>3. UNCHANGED events => (Pending(f)' <=> Pending(f))
  BY DEF Pending, Wanted
<1>4. ASSUME NEW g \in Paths, NEW k \in Kinds, Queue(g, k), Pending(f) PROVE Pending(f)'
  <2>1. g \in watched => /\ [path |-> g, kind |-> "overflow"] \in Event(watched)
                         /\ [path |-> g, kind |-> k] \in Event(watched)
    BY DEF Event, Kinds
  <2> QED
    BY <1>1, <1>3, <1>4, <2>1, PendingAppend DEF Queue, Noticed, Overflow
<1>5. ASSUME NEW g \in Paths, NEW k \in Kinds, Save(g, k) PROVE LossInv(f)'
  <2>1. UNCHANGED <<present, watched, recent, loop, closed, unseen>>
    BY <1>5 DEF Save
  <2>2. CASE g # f
    <3>1. ver'[f] = ver[f] /\ (f \in hot => f \in hot') /\ (f \in spilled => f \in spilled')
      BY <1>5, <2>2 DEF Save, WatcherTypeOK
    <3>2. told'[f] = told[f]
      BY <1>1, <1>5, <2>2 DEF Save, WatcherTypeOK, LossInv
    <3>3. Pending(f) => Pending(f)'
      BY <1>4, <1>5 DEF Save
    <3> QED
      BY <1>1, <2>1, <3>1, <3>2, <3>3 DEF LossInv
  <2>3. CASE g = f
    <3>1. /\ loop = "new" => told'[f] = ver'[f]
          /\ f \in recent => f \in hot'
          /\ Overflow(f) => f \in spilled'
          /\ f \in present
      BY <1>5, <2>3 DEF Save
    <3>2. Noticed(f) /\ ~Overflow(f) /\ f \in Reportable => Pending(f)'
      <4> SUFFICES ASSUME Noticed(f), ~Overflow(f), f \in Reportable PROVE Pending(f)'
        OBVIOUS
      <4>1. [path |-> f, kind |-> k] \in Event(watched) /\ Wanted([path |-> f, kind |-> k])
        BY <1>5 DEF Event, Wanted, Save, Noticed
      <4>2. events' = Append(events, [path |-> f, kind |-> k])
        BY <1>5, <2>3 DEF Save, Queue
      <4> QED
        BY <1>1, <4>1, <4>2, PendingAppend
    <3>5. ver'[f] \in Nat
      BY <1>2, <1>5, <2>3 DEF Save, WatcherTypeOK
    <3>3. CASE Noticed(f)
      BY <1>1, <2>1, <3>1, <3>2, <3>3, <3>5 DEF LossInv
    <3>4. CASE ~Noticed(f)
      BY <1>1, <2>1, <3>1, <3>4, <3>5 DEF LossInv, Noticed
    <3> QED
      BY <3>3, <3>4
  <2> QED
    BY <2>2, <2>3
<1>6. ASSUME NEW g \in Paths, Touch(g) PROVE LossInv(f)'
  BY <1>1, <1>4, <1>6 DEF Touch, LossInv, history, Kinds
<1>7. ASSUME NEW g \in Paths, MakeDir(g) PROVE LossInv(f)'
  BY <1>1, <1>3, <1>7 DEF MakeDir, LossInv
<1>8. ASSUME NEW g \in Paths, Report(g) PROVE LossInv(f)'
  <2>1. events # <<>> /\ events' = Tail(events) /\ Head(events).path = g
    BY <1>8 DEF Report, Receive
  <2>2. g # f /\ Pending(f) => Pending(f)'
    BY <1>1, <2>1, PendingTail
  <2>3. /\ UNCHANGED <<ver, present, watched, loop, closed, history>>
        /\ recent' = recent \cup {g}
        /\ told'[f] = IF g = f THEN ver[f] ELSE told[f]
        /\ loop = "running"
    BY <1>8 DEF Report, Receive, WatcherTypeOK
  <2> QED
    BY <1>1, <1>2, <2>2, <2>3 DEF LossInv, history
<1>9. CASE StartWatch
  <2>1. PICK missed \in SUBSET (present \cap Missable) :
          watched' = present \ missed /\ unseen' = missed
    BY <1>9 DEF StartWatch
  <2>2. /\ UNCHANGED <<ver, present, events, recent, told>>
        /\ loop = "new" /\ loop' = "running"
    BY <1>9 DEF StartWatch
  <2>3. told'[f] = ver'[f] /\ ~(told'[f] < ver'[f])
    BY <1>1, <1>2, <2>2 DEF LossInv
  <2>4. f \in present' \ watched' => f \in unseen'
    BY <2>1, <2>2
  <2> QED
    BY ONLY <2>2, <2>3, <2>4 DEF LossInv
<1>10. CASE Discard
  <2>1. events # <<>> /\ events' = Tail(events)
    BY <1>10 DEF Discard, Receive
  <2>2. Pending(f) /\ f \notin recent => Pending(f)'
    BY <1>1, <1>10, <2>1, PendingTail DEF Discard
  <2>3. UNCHANGED <<ver, present, watched, recent, loop, closed, told, history>>
    BY <1>10 DEF Discard, Receive
  <2> QED
    BY <1>1, <2>2, <2>3 DEF LossInv, history
<1>11. CASE CloseWatch
  BY <1>1, <1>11 DEF CloseWatch, LossInv, history
<1>12. CASE EndLoop
  BY <1>1, <1>3, <1>12 DEF EndLoop, LossInv, history
<1>13. ASSUME NEW g \in Reportable, WindowEnd(g) PROVE LossInv(f)'
  BY <1>1, <1>3, <1>13 DEF WindowEnd, LossInv, history
<1>14. CASE UNCHANGED wvars
  BY <1>1, <1>3, <1>14 DEF wvars, LossInv, history
<1> QED
  BY <1>5, <1>6, <1>7, <1>8, <1>9, <1>10, <1>11, <1>12, <1>13, <1>14 DEF WatcherNext

\* However saves, events, reports and the ends of windows interleave, a save
\* is lost only in the debounce window of its file, to a full queue, or in a
\* directory that was made after Start or that its walk did not reach
\* (watcher.go:48-52, 97-103, 111-115).
THEOREM LostWhenBlind == WatcherSpec => []LostOnlyWhenBlind
<1>1. WatcherInit => LossAll
  <2> SUFFICES ASSUME WatcherInit, NEW f \in Paths PROVE LossInv(f)
    BY DEF LossAll
  <2>1. loop = "new" /\ told[f] = 0 /\ ver[f] = 0 /\ watched = {}
    BY DEF WatcherInit
  <2> QED
    BY <2>1 DEF LossInv
<1>2. WatcherTypeOK /\ LossAll => LostOnlyWhenBlind
  BY PathsAssumption DEF LossAll, LossInv, LostOnlyWhenBlind
<1> QED
  BY <1>1, <1>2, LossStep, WatcherTypes, PTL DEF WatcherSpec
=============================================================================
