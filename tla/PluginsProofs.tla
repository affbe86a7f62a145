---------------------------- MODULE PluginsProofs ----------------------------
(* What holds of the registry and the loader for every set of plugins and  *)
(* whatever names they give themselves.                                    *)
EXTENDS Plugins, TLAPS

LEMMA CloseKeepsTypes ==
  ASSUME TypeOK, NEW F \in SUBSET Files, NEW how \in {"closed", "ended"}, CloseOf(F, how)
  PROVE  /\ life' \in [Files -> {"new", "open", "failed", "closed", "ended"}]
         /\ misused' \subseteq {"new", "failed", "closed", "ended"}
<1>1. \A f \in F : life[f] \in {"new", "open", "failed", "closed", "ended"}
  BY DEF TypeOK
<1>2. {life[f] : f \in F} \ {"open"} \subseteq {"new", "failed", "closed", "ended"}
  BY <1>1
<1>3. life' \in [Files -> {"new", "open", "failed", "closed", "ended"}]
  BY DEF CloseOf, TypeOK
<1> QED
  BY <1>2, <1>3 DEF CloseOf, TypeOK

\* Every variable of the registry, the loader and the hook callers keeps its
\* type (registry.go:10-15, loader.go:15-21).
THEOREM TypeCorrect == Spec => []TypeOK
<1> USE NamesAssumption, NoFileAssumption, ConfigsAssumption
<1>1. Init => TypeOK
  <2> SUFFICES ASSUME Init PROVE TypeOK
    OBVIOUS
  <2>1. enabled \in Seq(Files)
    <3>1. CASE enabled = <<>>
      BY <3>1
    <3>2. CASE enabled \in Configs
      BY <3>2
    <3> QED
      BY <3>1, <3>2 DEF Init
  <2> QED
    BY <2>1 DEF Init, TypeOK, Idle
<1>2. TypeOK /\ [Next]_vars => TypeOK'
  <2> SUFFICES ASSUME TypeOK, [Next]_vars PROVE TypeOK'
    OBVIOUS
  <2> USE DEF TypeOK, Idle, hooks, dev, Refuse
  <2>1. ASSUME NEW f \in Files, LoadStep(f) PROVE TypeOK'
    <3> USE DEF Goto, Return
    <3>1. CASE LoadBegin(f)    BY <3>1 DEF LoadBegin
    <3>0. CASE LoadAgain(f)    BY <3>0 DEF LoadAgain
    <3>2. CASE OpenFail(f)     BY <3>2 DEF OpenFail
    <3>3. CASE InitDone(f)     BY <3>3 DEF InitDone
    <3>4. CASE InitFail(f)     BY <3>4 DEF InitFail
    <3>5. CASE Register(f)     BY <3>5 DEF Register
    <3>6. CASE RegisterFail(f) BY <3>6 DEF RegisterFail
    <3>7. CASE Undo(f)         BY <3>7, CloseKeepsTypes DEF Undo
    <3>8. CASE Loaded(f)       BY <3>8 DEF Loaded
    <3> QED
      BY <2>1, <3>0, <3>1, <3>2, <3>3, <3>4, <3>5, <3>6, <3>7, <3>8 DEF LoadStep
  <2>2. ASSUME NEW f \in Files, Unload(f) PROVE TypeOK'
    <3>1. {plugins[f]} \in SUBSET Files
      BY <2>2 DEF Unload
    <3> QED
      BY <2>2, <3>1, CloseKeepsTypes DEF Unload, NoteUnload
  <2>3. ASSUME NEW u \in Users, GetHooks(u) PROVE TypeOK'
    BY <2>3 DEF GetHooks, Registered
  <2>4. ASSUME NEW u \in Users, NEW f \in Files, CallHook(u, f) PROVE TypeOK'
    BY <2>4 DEF CallHook
  <2>5. CASE CloseAll
    <3>1. {plugins[n] : n \in Names} \ {NoFile} \in SUBSET Files
      OBVIOUS
    <3> QED
      BY <2>5, <3>1, CloseKeepsTypes DEF CloseAll
  <2>6. CASE Serve
    BY <2>6 DEF Serve
  <2>7. CASE ServeFail
    BY <2>7 DEF ServeFail
  <2>8. CASE UNCHANGED vars
    BY <2>8 DEF vars
  <2> QED
    BY <2>1, <2>2, <2>3, <2>4, <2>5, <2>6, <2>7, <2>8 DEF Next
<1> QED
  BY <1>1, <1>2, PTL DEF Spec

-----------------------------------------------------------------------------
LEMMA OwnIsFixed == [Next]_vars => own' = own
  BY DEF Next, vars, LoadStep, LoadBegin, LoadAgain, OpenFail, InitDone, InitFail, Register,
         RegisterFail, Undo, Loaded, Unload, GetHooks, CallHook, CloseAll,
         Serve, ServeFail

LEMMA Inductive == TypeOK /\ Proper /\ Inv /\ [Next]_vars => Inv'
<1> SUFFICES ASSUME TypeOK, Proper, Inv, [Next]_vars PROVE Inv'
  OBVIOUS
<1> USE NamesAssumption, NoFileAssumption DEF TypeOK, Inv, Registered, Idle
<1>1. ASSUME NEW f \in Files, LoadStep(f) PROVE Inv'
  <2> USE DEF Goto, Return, hooks, dev, Refuse, Asked
  <2>1. CASE LoadBegin(f)    BY <2>1 DEF LoadBegin
  <2>0. CASE LoadAgain(f)    BY <2>0 DEF LoadAgain
  <2>2. CASE OpenFail(f)     BY <2>2 DEF OpenFail
  <2>3. CASE InitDone(f)     BY <2>3 DEF InitDone
  <2>4. CASE InitFail(f)     BY <2>4 DEF InitFail
  <2>5. CASE Register(f)     BY <2>5 DEF Register, Accepts
  <2>6. CASE RegisterFail(f) BY <2>6 DEF RegisterFail
  <2>7. CASE Undo(f)         BY <2>7 DEF Undo, CloseOf
  <2>8. CASE Loaded(f)
    <3>1. /\ call = <<"config", f>> /\ call' = Idle /\ loaded' = loaded \cup {f}
          /\ at' = IF program = "loading" THEN at + 1 ELSE at
          /\ UNCHANGED <<own, plugins, life, todo, unloaded, ended, after, misused, program, enabled>>
      BY <2>8 DEF Loaded
    <3>2. f \in Registered /\ Registered' = Registered
      BY <3>1
    <3>3. at' <= Len(enabled') /\ program # "exited" /\ program # "serving"
      BY <3>1
    <3>4. ASSUME program' # "library" PROVE loaded' = {enabled'[i] : i \in 1 .. at'}
      <4>1. program = "loading" /\ loaded = {enabled[i] : i \in 1 .. at} /\ f = enabled[at + 1]
        BY <3>1, <3>3, <3>4
      <4>2. at' = at + 1 /\ at \in Nat /\ 1 .. at' = (1 .. at) \cup {at + 1}
        BY <3>1, <4>1
      <4> QED
        BY <3>1, <4>1, <4>2
    <3> HIDE DEF Registered
    <3> QED
      BY <3>1, <3>2, <3>3, <3>4
  <2> QED
    BY <1>1, <2>0, <2>1, <2>2, <2>3, <2>4, <2>5, <2>6, <2>7, <2>8 DEF LoadStep
<1>2. ASSUME NEW f \in Files, Unload(f) PROVE Inv'
  <2>1. plugins[f] = f /\ f \in Registered
    BY <1>2 DEF Unload, Proper
  <2> QED
    BY <1>2, <2>1 DEF Unload, CloseOf, NoteUnload, dev
<1>3. ASSUME NEW u \in Users, GetHooks(u) PROVE Inv'
  BY <1>3 DEF GetHooks, Running, dev
<1>4. ASSUME NEW u \in Users, NEW f \in Files, CallHook(u, f) PROVE Inv'
  BY <1>4 DEF CallHook, Running, dev
<1>5. CASE CloseAll
  BY <1>5 DEF CloseAll, CloseOf, Running, hooks, dev
<1>6. CASE Serve
  BY <1>6 DEF Serve, hooks
<1>7. CASE ServeFail
  BY <1>7 DEF ServeFail, hooks
<1>8. CASE UNCHANGED vars
  BY <1>8 DEF vars, hooks, dev
<1> QED
  BY <1>1, <1>2, <1>3, <1>4, <1>5, <1>6, <1>7, <1>8 DEF Next

LEMMA Invariant == Spec => []ProperInv
<1>1. Init => ProperInv
  BY NamesAssumption, NoFileAssumption DEF Init, ProperInv, Inv, Registered, Idle
<1>2. TypeOK /\ ProperInv /\ [Next]_vars => ProperInv'
  <2>1. [Next]_vars => (Proper' <=> Proper)
    BY OwnIsFixed DEF Proper
  <2> QED
    BY <2>1, Inductive DEF ProperInv
<1> QED
  BY <1>1, <1>2, TypeCorrect, PTL DEF Spec

\* The loader never loses an open plugin, whichever loads fail (loader.go:77-84).
THEOREM NoLeak == Spec => []NothingLeaks
<1>1. ProperInv => NothingLeaks
  BY DEF ProperInv, Inv, NothingLeaks
<1> QED
  BY <1>1, Invariant, PTL

\* Hooks called from a snapshot reach open plugins, but for one unloaded in
\* between and those CloseAll has closed (registry.go:43-60, 172-234).
THEOREM HooksOpen == Spec => []HooksReachOpen
<1>1. ProperInv => HooksReachOpen
  BY DEF ProperInv, Inv, Registered, HooksReachOpen
<1> QED
  BY <1>1, Invariant, PTL

\* What the loader counts as loaded is registered (loader.go:81-87, 101-105).
THEOREM LoadedRegistered == Spec => []LoadedIsRegistered
<1>1. ProperInv => LoadedIsRegistered
  BY DEF ProperInv, Inv, LoadedIsRegistered
<1> QED
  BY <1>1, Invariant, PTL

\* Only open plugins are closed, or in a library those that loader.Close has
\* closed before (loader.go:82, 93-108, 145, registry.go:52, 225).
THEOREM NotClosedTwice == Spec => []ClosedOnce
<1>1. ProperInv => ClosedOnce
  BY DEF ProperInv, Inv, ClosedOnce
<1> QED
  BY <1>1, Invariant, PTL

\* `zt dev' serves only with every enabled plugin open and registered
\* (loader.go:32-44, main.go:51-64).
THEOREM Serves == Spec => []ServesEnabled
<1>1. TypeOK /\ ProperInv => ServesEnabled
  BY DEF TypeOK, ProperInv, Inv, ServesEnabled
<1> QED
  BY <1>1, Invariant, TypeCorrect, PTL

\* loader.Close leaves open only what is being registered or is registered
\* later, the orderly end of `zt dev' nothing, its exit exactly the plugins
\* that were loaded before it (main.go:59-66, loader.go:39, 77-84, 145).
THEOREM LeavesOpen == Spec => []LeftOpen
<1>1. TypeOK /\ ProperInv => LeftOpen
  BY DEF TypeOK, ProperInv, Inv, LeftOpen, Idle
<1> QED
  BY <1>1, Invariant, TypeCorrect, PTL
=============================================================================
