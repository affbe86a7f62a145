--------------------------- MODULE DevServerProofs ---------------------------
(* What holds of the development server for every set of handlers, files   *)
(* and failures, and every number of edits.                                *)
EXTENDS DevServerPreview, DevLoop, TLAPS

-----------------------------------------------------------------------------
(* Types                                                                   *)

\* Every variable keeps its type; a live child may be signalled, a dead one not.
THEOREM TypeCorrect == Spec => []TypeOK
<1>1. Init => TypeOK
  <2> SUFFICES ASSUME Init PROVE TypeOK
    OBVIOUS
  <2>1. Nothing \in Builds /\ TemplFiles \subseteq Sources
    BY BoundAssumption DEF Nothing, Builds, Sources
  <2>2. /\ pc \in [Threads -> HandlerPc \cup MainPc]
        /\ pc[Main] \in MainPc
        /\ \A h \in Handlers : pc[h] \in HandlerPc /\ pc[h] = "idle"
    BY ThreadsAssumption DEF Init, Threads, HandlerPc, MainPc, Waiting
  <2>3. src \in [Sources -> 0..MaxVersion]
    BY <2>1 DEF Init, Builds
  <2>4. gen \in [TemplFiles -> 0..MaxVersion] /\ binary \in Builds
        /\ snap \in [Threads -> Builds] /\ image \in [Pids -> Builds]
    BY <2>1, BoundAssumption DEF Init
  <2>5. file \in [Handlers -> Files \cup {NoFile}] /\ want \in [Handlers -> 0..MaxVersion]
    BY BoundAssumption DEF Init
  <2>6. childMu \in Threads \cup {Free} /\ rebuilding \in BOOLEAN
        /\ childCmd \in Pids \cup {NoProcess} /\ alive \subseteq Pids /\ termed \subseteq alive
    BY DEF Init
  <2>7. late \in BOOLEAN /\ req \in [Requests -> ReqState]
    BY DEF Init, ReqState
  <2> QED
    BY <2>2, <2>3, <2>4, <2>5, <2>6, <2>7 DEF TypeOK
<1>2. TypeOK /\ [Next]_vars => TypeOK'
  <2> SUFFICES ASSUME TypeOK, [Next]_vars PROVE TypeOK'
    OBVIOUS
  <2> USE ThreadsAssumption, FilesAssumption, BoundAssumption
      DEF TypeOK, Builds, Goto, disk, sync, child
  <2>0. TemplFiles \subseteq Sources /\ Nothing \in Builds
    BY DEF Sources, Nothing
  <2>1. ASSUME NEW f \in Sources, Edit(f) PROVE TypeOK'
    <3>1. src' \in [Sources -> 0..MaxVersion]
      BY <2>1 DEF Edit
    <3> QED
      BY <2>1, <3>1 DEF Edit
  <2>2. ASSUME NEW h \in Handlers, NEW f \in Files, Spawn(h, f) PROVE TypeOK'
    BY <2>2 DEF Spawn, Threads, HandlerPc
  <2>3. ASSUME NEW h \in Handlers, HandlerStep(h) PROVE TypeOK'
    <3> USE DEF Threads, HandlerPc, Waiting
    <3>1. CASE Drop(h)      BY <3>1 DEF Drop, Return
    <3>2. CASE Accept(h)    BY <3>2 DEF Accept, Sources
    <3>3. CASE Mark(h)      BY <3>3 DEF Mark
    <3>4. CASE GenRead(h)
      <4>1. [f \in Sources |-> IF f \in TemplFiles THEN src[f] ELSE 0] \in Builds
        OBVIOUS
      <4> QED
        BY <3>4, <4>1 DEF GenRead
    <3>5. ASSUME NEW F \in SUBSET TemplFiles, Emit(h, F)
          PROVE  gen' \in [TemplFiles -> 0..MaxVersion] /\ snap' \in [Threads -> Builds]
      <4>1. snap[h] \in [Sources -> 0..MaxVersion]
        OBVIOUS
      <4> QED
        BY <2>0, <3>5, <4>1 DEF Emit
    <3>6. CASE GenDone(h)
      BY <3>5, <3>6 DEF GenDone, Emit
    <3>7. ASSUME NEW F \in SUBSET TemplFiles, GenFail(h, F) PROVE TypeOK'
      BY <3>5, <3>7 DEF GenFail, Emit
    <3>8. CASE ClearErr(h)
      <4>1. rebuilding' \in BOOLEAN
        BY <3>8 DEF ClearErr
      <4> QED
        BY <3>8, <4>1 DEF ClearErr, Return
    <3>9. CASE ClearOk(h)   BY <3>9 DEF ClearOk
    <3>10. CASE Notify(h)   BY <3>10 DEF Notify, Return
    <3> QED
      BY <2>3, <3>1, <3>2, <3>3, <3>4, <3>6, <3>7, <3>8, <3>9, <3>10 DEF HandlerStep
  <2>4. ASSUME NEW t \in Threads, BuildStep(t) PROVE TypeOK'
    <3> USE DEF Threads, HandlerPc, MainPc, Waiting, Building
    <3>1. CASE Enter(t)     BY <3>1 DEF Enter
    <3>2. CASE StopChild(t) BY <3>2 DEF StopChild
    <3>3. CASE BuildRead(t) BY <3>3 DEF BuildRead, Sources
    <3>4. CASE BuildDone(t) BY <3>4 DEF BuildDone, Nothing
    <3>5. CASE BuildFail(t) BY <3>5 DEF BuildFail, Nothing
    <3>6. ASSUME NEW p \in Pids, StartChild(t, p) PROVE TypeOK'
      BY <3>6 DEF StartChild
    <3>7. CASE StartFail(t) BY <3>7 DEF StartFail
    <3>8. CASE Leave(t)     BY <3>8 DEF Leave
    <3> QED
      BY <2>4, <3>1, <3>2, <3>3, <3>4, <3>5, <3>6, <3>7, <3>8 DEF BuildStep
  <2>5. CASE MainStep
    BY <2>5 DEF MainStep, Kill, Signal, SignalChild, Exit, Threads, MainPc,
                Waiting, Building
  <2>6. ASSUME NEW p \in Pids, ChildExit(p) PROVE TypeOK'
    BY <2>6 DEF ChildExit
  <2>7. ASSUME NEW r \in Requests, RequestStep(r) PROVE TypeOK'
    BY <2>7 DEF RequestStep, Arrive, ReadChild, Forward, Refused, Answer, ReqGoto, ReqState,
                Answered
  <2>8. CASE UNCHANGED vars
    BY <2>8 DEF vars
  <2> QED
    BY <2>1, <2>2, <2>3, <2>4, <2>5, <2>6, <2>7, <2>8 DEF Next
<1> QED
  BY <1>1, <1>2, PTL DEF Spec

-----------------------------------------------------------------------------
(* Mutual exclusion                                                        *)

\* childMu is held exactly by the goroutine inside buildAndStartChild, so
\* builds never overlap (server.go:107-108).
THEOREM Mutex == Spec => []LockInv
<1>1. Init => LockInv
  BY ThreadsAssumption DEF Init, LockInv, Threads, Building
<1>2. TypeOK /\ LockInv /\ [Next]_vars => LockInv'
  <2> SUFFICES ASSUME TypeOK, LockInv, [Next]_vars PROVE LockInv'
    OBVIOUS
  <2> USE ThreadsAssumption
      DEF LockInv, TypeOK, Goto, Threads, Building, disk, sync, child
  <2>1. ASSUME NEW f \in Sources, Edit(f) PROVE LockInv'
    BY <2>1 DEF Edit
  <2>2. ASSUME NEW h \in Handlers, NEW f \in Files, Spawn(h, f) PROVE LockInv'
    BY <2>2 DEF Spawn
  <2>3. ASSUME NEW h \in Handlers, HandlerStep(h) PROVE LockInv'
    BY <2>3 DEF HandlerStep, Drop, Accept, Mark, GenRead, GenDone, GenFail, Emit,
                ClearErr, ClearOk, Notify
  <2>4. ASSUME NEW t \in Threads, BuildStep(t) PROVE LockInv'
    <3>1. CASE Enter(t)     BY <3>1 DEF Enter, Up
    <3>2. CASE StopChild(t) BY <3>2 DEF StopChild
    <3>3. CASE BuildRead(t) BY <3>3 DEF BuildRead
    <3>4. CASE BuildDone(t) BY <3>4 DEF BuildDone
    <3>5. CASE BuildFail(t) BY <3>5 DEF BuildFail
    <3>6. ASSUME NEW p \in Pids, StartChild(t, p) PROVE LockInv'
      BY <3>6 DEF StartChild
    <3>7. CASE StartFail(t) BY <3>7 DEF StartFail
    <3>8. CASE Leave(t)     BY <3>8 DEF Leave, Up
    <3> QED
      BY <2>4, <3>1, <3>2, <3>3, <3>4, <3>5, <3>6, <3>7, <3>8 DEF BuildStep
  <2>5. CASE MainStep
    BY <2>5 DEF MainStep, Kill, Signal, SignalChild, Exit
  <2>6. ASSUME NEW p \in Pids, ChildExit(p) PROVE LockInv'
    BY <2>6 DEF ChildExit
  <2>7. ASSUME NEW r \in Requests, RequestStep(r) PROVE LockInv'
    BY <2>7 DEF RequestStep, Arrive, ReadChild, Forward, Refused, Answer, ReqGoto
  <2>8. CASE UNCHANGED vars
    BY <2>8 DEF vars
  <2> QED
    BY <2>1, <2>2, <2>3, <2>4, <2>5, <2>6, <2>7, <2>8 DEF Next
<1> QED
  BY <1>1, <1>2, TypeCorrect, PTL DEF Spec

-----------------------------------------------------------------------------
(* The flag                                                                *)

\* `rebuilding' is never left set: while it is, some handler has yet to
\* clear it, on every error path (server.go:221-246, 256-273).
THEOREM FlagIsHeld == Spec => []FlagHeld
<1>1. Init => FlagHeld
  BY DEF Init, FlagHeld
<1>2. TypeOK /\ FlagHeld /\ [Next]_vars => FlagHeld'
  <2> SUFFICES ASSUME TypeOK, FlagHeld, [Next]_vars, rebuilding'
               PROVE  \E h \in Handlers : pc'[h] \in Claimed
    BY DEF FlagHeld
  <2> USE ThreadsAssumption DEF Goto, Claimed, Waiting, Building, Threads
  <2>1. pc \in [Threads -> HandlerPc \cup MainPc]
    BY DEF TypeOK
  <2>2. ASSUME NEW h \in Handlers, Mark(h) PROVE pc'[h] \in Claimed
    BY <2>1, <2>2 DEF Mark
  <2>3. ASSUME rebuilding,
               \A h \in Handlers : pc[h] \in Claimed => pc'[h] \in Claimed
        PROVE  \E h \in Handlers : pc'[h] \in Claimed
    BY <2>3 DEF FlagHeld
  <2>4. ASSUME NEW f \in Sources, Edit(f)
        PROVE  rebuilding /\ \A h \in Handlers : pc[h] \in Claimed => pc'[h] \in Claimed
    BY <2>4 DEF Edit, sync
  <2>5. ASSUME NEW g \in Handlers, NEW f \in Files, Spawn(g, f)
        PROVE  rebuilding /\ \A h \in Handlers : pc[h] \in Claimed => pc'[h] \in Claimed
    BY <2>1, <2>5 DEF Spawn
  <2>6. ASSUME NEW g \in Handlers, HandlerStep(g), ~Mark(g)
        PROVE  rebuilding /\ \A h \in Handlers : pc[h] \in Claimed => pc'[h] \in Claimed
    BY <2>1, <2>6 DEF HandlerStep, Drop, Accept, GenRead, GenDone, GenFail, Emit,
                      ClearErr, ClearOk, Notify
  <2>7. ASSUME NEW t \in Threads, BuildStep(t)
        PROVE  rebuilding /\ \A h \in Handlers : pc[h] \in Claimed => pc'[h] \in Claimed
    BY <2>1, <2>7 DEF BuildStep, Enter, StopChild, BuildRead, BuildDone, BuildFail,
                      StartChild, StartFail, Leave
  <2>8. CASE MainStep
    <3>1. rebuilding /\ \A h \in Handlers : pc[h] \in Claimed => pc'[h] \in Claimed
      BY <2>1, <2>8 DEF MainStep, Kill, Signal, SignalChild, Exit
    <3> QED
      BY <2>3, <3>1
  <2>9. ASSUME NEW p \in Pids, ChildExit(p)
        PROVE  rebuilding /\ \A h \in Handlers : pc[h] \in Claimed => pc'[h] \in Claimed
    BY <2>9 DEF ChildExit, sync
  <2>10. ASSUME NEW r \in Requests, RequestStep(r)
         PROVE  rebuilding /\ \A h \in Handlers : pc[h] \in Claimed => pc'[h] \in Claimed
    BY <2>10 DEF RequestStep, Arrive, ReadChild, Forward, Refused, Answer, ReqGoto, sync
  <2>11. CASE UNCHANGED vars
    BY <2>3, <2>11 DEF vars
  <2> QED
    BY <2>2, <2>3, <2>4, <2>5, <2>6, <2>7, <2>8, <2>9, <2>10, <2>11 DEF Next
<1> QED
  BY <1>1, <1>2, TypeCorrect, PTL DEF Spec

-----------------------------------------------------------------------------
(* The child process                                                       *)

LEMMA LateInductive == TypeOK /\ LockInv /\ LateInv /\ [Next]_vars => LateInv'
<1> SUFFICES ASSUME TypeOK, LockInv, LateInv, [Next]_vars PROVE LateInv'
  OBVIOUS
<1> USE ThreadsAssumption DEF LateInv, Goto, Threads, Building
<1>0. pc \in [Threads -> HandlerPc \cup MainPc]
  BY DEF TypeOK
<1>1. ASSUME NEW f \in Sources, Edit(f) PROVE LateInv'
  BY <1>1 DEF Edit, sync, child
<1>2. ASSUME NEW h \in Handlers, NEW f \in Files, Spawn(h, f) PROVE LateInv'
  BY <1>0, <1>2 DEF Spawn, child
<1>3. ASSUME NEW h \in Handlers, HandlerStep(h) PROVE LateInv'
  BY <1>0, <1>3 DEF HandlerStep, Drop, Accept, Mark, GenRead, GenDone, GenFail, Emit,
                    ClearErr, ClearOk, Notify, child
<1>4. ASSUME NEW t \in Threads, BuildStep(t) PROVE LateInv'
  <2>1. CASE Enter(t)
    BY <1>0, <2>1 DEF Enter, Up
  <2>2. CASE StopChild(t) \/ BuildRead(t) \/ BuildDone(t) \/ BuildFail(t) \/ StartFail(t)
    BY <1>0, <2>2 DEF StopChild, BuildRead, BuildDone, BuildFail, StartFail, child
  <2>3. ASSUME NEW p \in Pids, StartChild(t, p) PROVE LateInv'
    BY <1>0, <2>3 DEF StartChild
  <2>4. CASE Leave(t)
    BY <1>0, <2>4 DEF Leave, child
  <2> QED
    BY <1>4, <2>1, <2>2, <2>3, <2>4 DEF BuildStep
<1>5. CASE MainStep
  <2>1. CASE Kill \/ Signal \/ Exit
    BY <1>0, <2>1 DEF Kill, Signal, Exit, child
  <2>2. CASE SignalChild
    BY <1>0, <2>2 DEF SignalChild, LockInv
  <2> QED
    BY <1>5, <2>1, <2>2 DEF MainStep
<1>6. ASSUME NEW p \in Pids, ChildExit(p) PROVE LateInv'
  BY <1>6 DEF ChildExit, sync
<1>7. ASSUME NEW r \in Requests, RequestStep(r) PROVE LateInv'
  BY <1>7 DEF RequestStep, Arrive, ReadChild, Forward, Refused, Answer, ReqGoto, sync, child
<1>8. CASE UNCHANGED vars
  BY <1>8 DEF vars
<1> QED
  BY <1>1, <1>2, <1>3, <1>4, <1>5, <1>6, <1>7, <1>8 DEF Next

LEMMA ChildInductive ==
  TypeOK /\ LockInv /\ LateInv /\ ChildInv /\ [Next]_vars => ChildInv'
<1> SUFFICES ASSUME TypeOK, LockInv, LateInv, ChildInv, [Next]_vars PROVE ChildInv'
  OBVIOUS
<1> USE ThreadsAssumption
    DEF ChildInv, SingleChild, ChildRunsBinary, NoOrphanUnlessLate, Goto, Threads
<1>0. pc \in [Threads -> HandlerPc \cup MainPc]
  BY DEF TypeOK
<1>1. ASSUME NEW f \in Sources, Edit(f) PROVE ChildInv'
  BY <1>1 DEF Edit, sync, child
<1>2. ASSUME NEW h \in Handlers, NEW f \in Files, Spawn(h, f) PROVE ChildInv'
  BY <1>0, <1>2 DEF Spawn, disk, child
<1>3. ASSUME NEW h \in Handlers, HandlerStep(h) PROVE ChildInv'
  BY <1>0, <1>3 DEF HandlerStep, Drop, Accept, Mark, GenRead, GenDone, GenFail, Emit,
                    ClearErr, ClearOk, Notify, disk, child
<1>4. ASSUME NEW t \in Threads, BuildStep(t) PROVE ChildInv'
  <2>1. ASSUME NEW u \in Threads, pc[t] \in Building, pc[u] \in Building, Up PROVE u = t
    BY <2>1 DEF LockInv, Up
  <2>2. CASE Enter(t)
    BY <1>0, <2>2 DEF Enter, disk, child
  <2>3. CASE StopChild(t)
    BY <1>0, <2>3 DEF StopChild, disk
  <2>4. CASE BuildRead(t)
    BY <1>0, <2>4 DEF BuildRead, child
  <2>5. CASE BuildDone(t)
    BY <1>0, <2>5 DEF BuildDone, child
  <2>6. CASE BuildFail(t)
    BY <1>0, <2>6 DEF BuildFail, child
  <2>7. ASSUME NEW p \in Pids, StartChild(t, p) PROVE ChildInv'
    <3>1. alive = {} /\ alive' = {p} /\ childCmd' = p
      BY <2>7 DEF StartChild
    <3>2. \A u \in Threads : pc'[u] \notin {"compile", "link", "launch"}
      BY <1>0, <2>1, <2>7 DEF StartChild, Building
    <3>3. image'[p] = binary'
      BY <2>7 DEF StartChild, disk, TypeOK
    <3>4. pc'[Main] \in {"draining", "exited"} => late'
      BY <1>0, <2>7 DEF StartChild, LateInv, Building
    <3> QED
      BY <3>1, <3>2, <3>3, <3>4
  <2>8. CASE StartFail(t)
    BY <1>0, <2>8 DEF StartFail, disk
  <2>9. CASE Leave(t)
    BY <1>0, <2>9 DEF Leave, disk, child
  <2> QED
    BY <1>4, <2>2, <2>3, <2>4, <2>5, <2>6, <2>7, <2>8, <2>9 DEF BuildStep
<1>5. CASE MainStep
  <2>1. CASE Kill
    BY <1>0, <2>1 DEF Kill, disk, child
  <2>2. CASE Signal
    BY <1>0, <2>2 DEF Signal, disk, child
  <2>3. CASE SignalChild
    BY <1>0, <2>3 DEF SignalChild, disk
  <2>4. CASE Exit
    BY <1>0, <2>4 DEF Exit, disk, child
  <2> QED
    BY <1>5, <2>1, <2>2, <2>3, <2>4 DEF MainStep
<1>6. ASSUME NEW p \in Pids, ChildExit(p) PROVE ChildInv'
  BY <1>6 DEF ChildExit, disk, sync
<1>7. ASSUME NEW r \in Requests, RequestStep(r) PROVE ChildInv'
  BY <1>7 DEF RequestStep, Arrive, ReadChild, Forward, Refused, Answer, ReqGoto, disk, sync, child
<1>8. CASE UNCHANGED vars
  BY <1>8 DEF vars
<1> QED
  BY <1>1, <1>2, <1>3, <1>4, <1>5, <1>6, <1>7, <1>8 DEF Next

LEMMA ChildInvariant == Spec => []ChildInv
<1>1. Init => ChildInv
  BY ThreadsAssumption
  DEF Init, ChildInv, SingleChild, ChildRunsBinary, NoOrphanUnlessLate, Threads
<1>2. Init => LateInv
  BY DEF Init, LateInv, Threads
<1> QED
  BY <1>1, <1>2, ChildInductive, LateInductive, TypeCorrect, Mutex, PTL DEF Spec

\* Two children never run at once: a live child is the one childCmd points
\* to, so the next build and Shutdown reach it (server.go:110-117, 302).
THEOREM OneChild == Spec => []SingleChild
<1>1. ChildInv => SingleChild
  BY DEF ChildInv
<1> QED
  BY <1>1, ChildInvariant, PTL

\* server.exe is not replaced under a running child (server.go:110-128).
THEOREM RunsBinary == Spec => []ChildRunsBinary
<1>1. ChildInv => ChildRunsBinary
  BY DEF ChildInv
<1> QED
  BY <1>1, ChildInvariant, PTL

\* Only a handler still queued for childMu when Shutdown signals the child
\* can leave one behind that was never signalled (server.go:301-305).
THEOREM OrphanOnlyIfLate == Spec => []NoOrphanUnlessLate
<1>1. ChildInv => NoOrphanUnlessLate
  BY DEF ChildInv
<1> QED
  BY <1>1, ChildInvariant, PTL

-----------------------------------------------------------------------------
(* Freshness of Go code                                                    *)

LEMMA FreshInductive ==
  TypeOK /\ LockInv /\ FreshInv /\ [Next]_vars => FreshInv'
<1> SUFFICES ASSUME TypeOK, LockInv, FreshInv, [Next]_vars PROVE FreshInv'
  OBVIOUS
<1> USE FilesAssumption, ThreadsAssumption DEF FreshInv, Reported, Goto
<1>0. /\ pc \in [Threads -> HandlerPc \cup MainPc]
      /\ snap \in [Threads -> Builds] /\ binary \in Builds
      /\ src \in [Sources -> 0..MaxVersion]
      /\ file \in [Handlers -> Files \cup {NoFile}] /\ want \in [Handlers -> 0..MaxVersion]
      /\ Handlers \subseteq Threads /\ GoFiles \subseteq Sources /\ GoFiles \subseteq Files
      /\ \A f \in GoFiles : f \notin TemplFiles /\ f # NoFile
      /\ \A f \in Sources : src[f] \in Nat /\ binary[f] \in Nat
      /\ \A f \in Sources, t \in Threads : snap[t][f] \in Nat
      /\ \A h \in Handlers : want[h] \in Nat
  <2>1. GoFiles \subseteq Sources /\ GoFiles \subseteq Files /\ Handlers \subseteq Threads
    BY DEF Sources, Files, Threads
  <2> QED
    BY <2>1, BoundAssumption DEF TypeOK, Builds
<1>1. ASSUME NEW e \in Sources, Edit(e) PROVE FreshInv'
  <2>1. \A f \in Sources : src'[f] \in Nat /\ src[f] <= src'[f]
    BY <1>0, <1>1 DEF Edit
  <2>2. UNCHANGED <<binary, snap, pc, file, want>>
    BY <1>1 DEF Edit, sync
  <2>3. \A f \in GoFiles : binary[f] <= src'[f]
    BY <1>0, <2>1
  <2>4. \A t \in Threads, f \in GoFiles :
          pc[t] = "link" => binary[f] <= snap[t][f] /\ snap[t][f] <= src'[f]
    <3> SUFFICES ASSUME NEW t \in Threads, NEW f \in GoFiles, pc[t] = "link"
                 PROVE  binary[f] <= snap[t][f] /\ snap[t][f] <= src'[f]
      OBVIOUS
    <3>1. binary[f] <= snap[t][f] /\ snap[t][f] <= src[f]
      OBVIOUS
    <3> QED
      BY <1>0, <2>1, <3>1
  <2>5. \A h \in Handlers, f \in GoFiles : file[h] = f => want[h] <= src'[f]
    BY <1>0, <2>1
  <2> QED
    BY <2>2, <2>3, <2>4, <2>5
<1>2. ASSUME NEW g \in Handlers, NEW f \in Files, Spawn(g, f) PROVE FreshInv'
  BY <1>0, <1>2 DEF Spawn, disk
<1>3. ASSUME NEW g \in Handlers, HandlerStep(g) PROVE FreshInv'
  <2>1. CASE Drop(g)     BY <1>0, <2>1 DEF Drop, Return, disk
  <2>2. CASE Accept(g)   BY <1>0, <2>2 DEF Accept, disk
  <2>3. CASE Mark(g)     BY <1>0, <2>3 DEF Mark, disk
  <2>4. CASE GenRead(g)  BY <1>0, <2>4 DEF GenRead
  <2>5. CASE GenDone(g)  BY <1>0, <2>5 DEF GenDone, Emit
  <2>6. ASSUME NEW F \in SUBSET TemplFiles, GenFail(g, F) PROVE FreshInv'
    BY <1>0, <2>6 DEF GenFail, Emit
  <2>7. CASE ClearErr(g) BY <1>0, <2>7 DEF ClearErr, Return, disk
  <2>8. CASE ClearOk(g)  BY <1>0, <2>8 DEF ClearOk, disk
  <2>9. CASE Notify(g)   BY <1>0, <2>9 DEF Notify, Return, disk
  <2> QED
    BY <1>3, <2>1, <2>2, <2>3, <2>4, <2>5, <2>6, <2>7, <2>8, <2>9 DEF HandlerStep
<1>4. ASSUME NEW t \in Threads, BuildStep(t) PROVE FreshInv'
  <2>1. ASSUME NEW u \in Threads, pc[t] \in Building, pc[u] \in Building, Up PROVE u = t
    BY <2>1 DEF LockInv, Up, Threads
  <2>2. CASE Enter(t)     BY <1>0, <2>2 DEF Enter, disk
  <2>3. CASE StopChild(t) BY <1>0, <2>3 DEF StopChild, disk
  <2>4. CASE BuildRead(t)
    <3>1. \A f \in GoFiles : snap'[t][f] = src[f]
      BY <1>0, <2>4 DEF BuildRead
    <3>2. \A u \in Threads : u # t => snap'[u] = snap[u] /\ pc'[u] = pc[u]
      BY <1>0, <2>4 DEF BuildRead
    <3>3. pc'[t] = "link" /\ UNCHANGED <<src, binary, file, want>>
      BY <1>0, <2>4 DEF BuildRead
    <3> QED
      BY <1>0, <3>1, <3>2, <3>3
  <2>5. CASE BuildDone(t)
    <3>1. \A u \in Threads : pc'[u] # "link"
      BY <1>0, <2>1, <2>5 DEF BuildDone, Building
    <3>2. \A f \in GoFiles : binary'[f] = snap[t][f] /\ snap[t][f] <= src[f]
                             /\ binary[f] <= snap[t][f]
      BY <1>0, <2>5 DEF BuildDone
    <3>3. \A u \in Threads : u # t => pc'[u] = pc[u]
      BY <1>0, <2>5 DEF BuildDone
    <3>4. pc[t] = "link" /\ pc'[t] = "launch" /\ UNCHANGED <<src, file, want>>
      BY <1>0, <2>5 DEF BuildDone
    <3> QED
      BY <1>0, <3>1, <3>2, <3>3, <3>4
  <2>6. CASE BuildFail(t) BY <1>0, <2>6 DEF BuildFail
  <2>7. ASSUME NEW p \in Pids, StartChild(t, p) PROVE FreshInv'
    BY <1>0, <2>7 DEF StartChild, disk
  <2>8. CASE StartFail(t) BY <1>0, <2>8 DEF StartFail, disk
  <2>9. CASE Leave(t)     BY <1>0, <2>9 DEF Leave, disk
  <2> QED
    BY <1>4, <2>2, <2>3, <2>4, <2>5, <2>6, <2>7, <2>8, <2>9 DEF BuildStep
<1>5. CASE MainStep
  BY <1>0, <1>5 DEF MainStep, Kill, Signal, SignalChild, Exit, disk, Threads
<1>6. ASSUME NEW p \in Pids, ChildExit(p) PROVE FreshInv'
  BY <1>6 DEF ChildExit, disk, sync
<1>7. ASSUME NEW r \in Requests, RequestStep(r) PROVE FreshInv'
  BY <1>7 DEF RequestStep, Arrive, ReadChild, Forward, Refused, Answer, ReqGoto, disk, sync
<1>8. CASE UNCHANGED vars
  BY <1>8 DEF vars
<1> QED
  BY <1>1, <1>2, <1>3, <1>4, <1>5, <1>6, <1>7, <1>8 DEF Next

LEMMA FreshInvariant == Spec => []FreshInv
<1>1. Init => FreshInv
  BY ThreadsAssumption, FilesAssumption
  DEF Init, FreshInv, Reported, Nothing, Threads, Sources, Files
<1> QED
  BY <1>1, FreshInductive, TypeCorrect, Mutex, PTL DEF Spec

\* A handler that announces a reload has the Go change it was called for in
\* the binary, whichever handler built last (server.go:263-276).
THEOREM ReloadsAreFresh == Spec => []GoReloadFresh
<1>1. TypeOK /\ FreshInv => GoReloadFresh
  <2> SUFFICES ASSUME TypeOK, FreshInv, NEW h \in Handlers, Reported(h), file[h] \in GoFiles
               PROVE  binary[file[h]] >= want[h]
    BY DEF GoReloadFresh
  <2>1. want[h] <= binary[file[h]]
    BY DEF FreshInv
  <2>2. want[h] \in Nat /\ binary[file[h]] \in Nat
    BY BoundAssumption DEF TypeOK, Builds, Sources
  <2> QED
    BY <2>1, <2>2
<1> QED
  BY <1>1, TypeCorrect, FreshInvariant, PTL

-----------------------------------------------------------------------------
(* The refinement                                                          *)

LEMMA PreviewStep ==
  TypeOK /\ ChildInv /\ FreshInv /\ [Next]_vars => [P!Next]_(P!view)
<1> SUFFICES ASSUME TypeOK, ChildInv, FreshInv, [Next]_vars
             PROVE  P!Next \/ UNCHANGED P!view
  OBVIOUS
<1> USE DEF P!Next, P!view, P!Halt
<1>1. ASSUME NEW e \in Sources, Edit(e) PROVE UNCHANGED P!view
  BY <1>1 DEF Edit, child
<1>2. ASSUME NEW g \in Handlers, NEW f \in Files, Spawn(g, f) PROVE UNCHANGED P!view
  BY <1>2 DEF Spawn, disk, child
<1>3. ASSUME NEW g \in Handlers, HandlerStep(g) PROVE UNCHANGED P!view
  BY <1>3 DEF HandlerStep, Drop, Accept, Mark, GenRead, GenDone, GenFail, Emit,
              ClearErr, ClearOk, Notify, disk, child
<1>4. ASSUME NEW t \in Threads, BuildStep(t) PROVE P!Next \/ UNCHANGED P!view
  <2>1. CASE Enter(t)     BY <2>1 DEF Enter, disk, child
  <2>2. CASE StopChild(t)
    <3>1. alive' = {} /\ binary' = binary
      BY <2>2 DEF StopChild, disk, ChildInv, SingleChild
    <3> QED
      BY <3>1
  <2>3. CASE BuildRead(t) BY <2>3 DEF BuildRead, child
  <2>4. CASE BuildDone(t)
    <3>1. alive = {} /\ alive' = {}
      BY <2>4 DEF BuildDone, child, ChildInv, Goto
    <3>2. \A f \in GoFiles : binary'[f] \in Nat /\ binary'[f] >= binary[f]
      BY <2>4, BoundAssumption
      DEF BuildDone, Goto, FreshInv, TypeOK, Builds, Sources
    <3> QED
      BY <3>1, <3>2 DEF P!Install
  <2>5. CASE BuildFail(t) BY <2>5 DEF BuildFail, child
  <2>6. ASSUME NEW p \in Pids, StartChild(t, p) PROVE P!Next
    <3>1. alive = {} /\ alive' = {p} /\ binary' = binary
      BY <2>6 DEF StartChild, disk, ChildInv, Goto
    <3> QED
      BY <3>1 DEF P!Launch
  <2>7. CASE StartFail(t) BY <2>7 DEF StartFail, disk
  <2>8. CASE Leave(t)     BY <2>8 DEF Leave, disk, child
  <2> QED
    BY <1>4, <2>1, <2>2, <2>3, <2>4, <2>5, <2>6, <2>7, <2>8 DEF BuildStep
<1>5. CASE MainStep
  BY <1>5 DEF MainStep, Kill, Signal, SignalChild, Exit, disk, child
<1>6. ASSUME NEW p \in Pids, ChildExit(p) PROVE P!Next
  <2>1. alive' = {} /\ binary' = binary
    BY <1>6 DEF ChildExit, disk, ChildInv, SingleChild, TypeOK
  <2> QED
    BY <2>1
<1>7. ASSUME NEW r \in Requests, RequestStep(r) PROVE UNCHANGED P!view
  BY <1>7 DEF RequestStep, Arrive, ReadChild, Forward, Refused, Answer, ReqGoto, disk, child
<1>8. CASE UNCHANGED vars
  BY <1>8 DEF vars
<1> QED
  BY <1>1, <1>2, <1>3, <1>4, <1>5, <1>6, <1>7, <1>8 DEF Next

\* At most one child serves, the program is replaced only while none runs
\* and never by older Go code (server.go:106-139).
THEOREM Refinement == Spec => ImplementsPreview
<1>1. Init => P!Init
  BY DEF Init, P!Init, Nothing, Sources
<1>2. TypeOK /\ ChildInv /\ FreshInv /\ [Next]_vars => [P!Next]_(P!view)
  BY PreviewStep
<1> QED
  BY <1>1, <1>2, TypeCorrect, ChildInvariant, FreshInvariant, PTL
  DEF Spec, ImplementsPreview, P!Spec
-----------------------------------------------------------------------------
(* The edit-and-reload loop                                                *)

\* The watcher and the supervisor keep to their specifications when they run
\* together: each step of the loop is a step of one, of both, or of neither.
THEOREM PartsInside == LoopSpec => Spec /\ W!WatcherSpec
<1>1. LoopInit => Init /\ W!WatcherInit
  BY DEF LoopInit
<1>2. [LoopNext]_all => [Next]_vars /\ [W!WatcherNext]_W!wvars
  <2> SUFFICES ASSUME [LoopNext]_all PROVE [Next]_vars /\ [W!WatcherNext]_W!wvars
    OBVIOUS
  <2>1. ASSUME NEW f \in Sources, SaveFile(f)
        PROVE  Next /\ W!WatcherNext
    BY <2>1 DEF SaveFile, Next, W!WatcherNext, W!Kinds, W!Interesting
  <2>2. ASSUME NEW h \in Handlers, NEW f \in Sources, Reports(h, f)
        PROVE  Next /\ W!WatcherNext
    BY <2>2 DEF Reports, Next, W!WatcherNext, Files
  <2>3. CASE WatchStarts
    BY <2>3 DEF WatchStarts, W!WatcherNext
  <2>4. CASE WatcherAlone
    BY <2>4 DEF WatcherAlone, W!WatcherNext
  <2>5. CASE SignalAndClose
    BY <2>5 DEF SignalAndClose, Next, MainStep, W!WatcherNext
  <2>6. CASE ServerAlone
    <3>1. Next
      BY <2>6 DEF ServerAlone, Next, MainStep
    <3>2. UNCHANGED W!wvars
      <4>1. ASSUME NEW h \in Handlers, HandlerStep(h) PROVE src' = src
        BY <4>1 DEF HandlerStep, Drop, Accept, Mark, GenRead, GenDone, GenFail, Emit, ClearErr,
                    ClearOk, Notify, disk
      <4>2. ASSUME NEW t \in Threads, BuildStep(t) PROVE src' = src
        BY <4>2 DEF BuildStep, Enter, StopChild, BuildRead, BuildDone, BuildFail, StartChild,
                    StartFail, Leave, disk
      <4>3. Kill \/ SignalChild \/ Exit => src' = src
        BY DEF Kill, SignalChild, Exit, disk
      <4>4. ASSUME NEW p \in Pids, ChildExit(p) PROVE src' = src
        BY <4>4 DEF ChildExit, disk
      <4> QED
        BY <2>6, <4>1, <4>2, <4>3, <4>4 DEF ServerAlone, watch, W!wvars, W!history
    <3> QED BY <3>1, <3>2
  <2>7. CASE UNCHANGED all
    BY <2>7 DEF all, watch, vars, W!wvars, W!history
  <2> QED
    BY <2>1, <2>2, <2>3, <2>4, <2>5, <2>6, <2>7 DEF LoopNext
<1> QED BY <1>1, <1>2, PTL DEF LoopSpec, Spec, W!WatcherSpec

\* So what is shown of the supervisor alone holds in the loop, too: lock, flag,
\* child and program are consistent, no reload of a Go change is announced
\* before it is built, and Preview is implemented (server.go:106-139, 210-276).
THEOREM LoopIsSafe ==
  LoopSpec => /\ [](LockInv /\ FlagHeld /\ SingleChild /\ ChildRunsBinary)
              /\ [](NoOrphanUnlessLate /\ GoReloadFresh)
              /\ ImplementsPreview
BY PartsInside, Mutex, FlagIsHeld, OneChild, RunsBinary, OrphanOnlyIfLate,
   ReloadsAreFresh, Refinement, PTL
=============================================================================
