------------------------------- MODULE Plugins -------------------------------
(***************************************************************************)
(* The plugin registry and loader of pkg/plugin.  A plugin is known by two *)
(* names: the one of its file, which the configuration lists and the       *)
(* loader works with, and the one its Name() returns, under which the      *)
(* registry keeps it.  The Go runtime loads a file once, so a file that is *)
(* loaded again yields the same instance, and an instance is denoted by    *)
(* its file.                                                               *)
(*                                                                         *)
(* LoadPlugin and UnloadPlugin exclude each other (l.mu), but neither      *)
(* loader.Close, which takes r.mu only, nor the readers of the registry,   *)
(* which lock r.mu only while they read: a goroutine that runs hooks takes *)
(* a snapshot of the plugins and calls them afterwards.  Loading is cut    *)
(* where r.mu is released and where the plugin runs.                       *)
(*                                                                         *)
(* The loader is used by a program of its user's, which may call it in any *)
(* order - Close while a plugin is loaded, twice, or before other calls -  *)
(* or by `zt dev', which loads the configured plugins first and calls      *)
(* Close once.  Plugins are taken to bear a second Close; where one panics *)
(* at it, as the rate limiter does, that is the end of the program.        *)
(***************************************************************************)
EXTENDS Naturals, Sequences

CONSTANTS
  Files,     \* plugin files, hence instances
  Names,     \* what Name() may return: files' names and others
  NoName,    \* the empty name
  NoFile,    \* no instance
  Users,     \* goroutines that run hooks
  Priority,  \* Priority[f]: what Priority() of f returns
  Configs    \* what plugins.enabled may be

ASSUME NamesAssumption == Files \subseteq Names /\ NoName \notin Names
ASSUME NoFileAssumption == NoFile \notin Files
ASSUME PriorityAssumption == Priority \in [Files -> Nat]
ASSUME ConfigsAssumption == \A names \in Configs : names \in Seq(Files)

VARIABLES
  own,       \* own[f]: what Name() of f returns, fixed
  plugins,   \* the registry's map, NoFile where it has no entry
  configs,   \* the names the registry has a configuration for
  loaded,    \* the keys of the loader's map
  call,      \* LoadPlugin under way: where it is and the file
  life,      \* life[f]: how far instance f is
  todo,      \* todo[u]: the hooks u has still to call
  unloaded,  \* history: the plugins unloaded since u's snapshot
  ended,     \* loader.Close has been called
  after,     \* history: the instances registered since its latest call
  misused,   \* history: what instances were, other than open, when closed
  program,   \* "library", or how far `zt dev' is
  enabled,   \* the plugins that it is to load
  at         \* how many of them LoadFromConfig has loaded

hooks == <<todo, unloaded>>
dev   == <<program, enabled, at>>
vars  == <<own, plugins, configs, loaded, call, life, hooks, ended, after, misused, dev>>

Idle == <<"idle", NoFile>>

TypeOK ==
  /\ own \in [Files -> Names \cup {NoName}]
  /\ plugins \in [Names -> Files \cup {NoFile}]
  /\ configs \subseteq Files
  /\ loaded \subseteq Files
  /\ call \in {Idle} \cup ({"open", "register", "undo", "config"} \X Files)
  /\ life \in [Files -> {"new", "open", "failed", "closed", "ended"}]
  /\ todo \in [Users -> SUBSET Files]
  /\ unloaded \in [Users -> SUBSET Files]
  /\ ended \in BOOLEAN
  /\ after \subseteq Files
  /\ misused \subseteq {"new", "failed", "closed", "ended"}
  /\ program \in {"library", "loading", "serving", "exited"}
  /\ enabled \in Seq(Files)
  /\ at \in Nat

Init ==
  /\ own \in [Files -> Names \cup {NoName}]
  /\ plugins = [n \in Names |-> NoFile]
  /\ configs = {}
  /\ loaded = {}
  /\ call = Idle
  /\ life = [f \in Files |-> "new"]
  /\ todo = [u \in Users |-> {}]
  /\ unloaded = [u \in Users |-> {}]
  /\ ended = FALSE
  /\ after = {}
  /\ misused = {}
  /\ \/ program = "library" /\ enabled = <<>>
     \/ program = "loading" /\ enabled \in Configs
  /\ at = 0

Registered == {f \in Files : own[f] # NoName /\ plugins[own[f]] = f}

\* Close of the instances in F, which are then "closed", or "ended" when it is
\* CloseAll that closes them and the registry keeps them.
CloseOf(F, how) ==
  /\ life' = [f \in Files |-> IF f \in F THEN how ELSE life[f]]
  /\ misused' = misused \cup ({life[f] : f \in F} \ {"open"})

-----------------------------------------------------------------------------
(* LoadPlugin, which holds l.mu throughout                                 *)

Goto(f, from, to) == call = <<from, f>> /\ call' = <<to, f>>
Return(f, from)   == call = <<from, f>> /\ call' = Idle

RefuseSkips ==   \* wrong: LoadFromConfig goes on with the next plugin
  /\ at' = IF program = "loading" THEN at + 1 ELSE at
  /\ UNCHANGED <<program, enabled>>

\* LoadPlugin returns an error: LoadFromConfig passes it on, and `zt dev'
\* exits, without loader.Close.
Refuse ==
  /\ program' = IF program = "loading" THEN "exited" ELSE program
  /\ UNCHANGED <<enabled, at>>

\* LoadFromConfig is about to load f, or somebody else is.
Asked(f) ==
  /\ call = Idle
  /\ \/ program = "library"
     \/ program = "loading" /\ at < Len(enabled) /\ f = enabled[at + 1]

LoadBegin(f) ==
  /\ Asked(f)
  /\ f \notin loaded
  /\ call' = <<"open", f>>
  /\ UNCHANGED <<own, plugins, configs, loaded, life, hooks, ended, after, misused, dev>>

\* The plugin is loaded already: enabled twice, say.
LoadAgain(f) ==
  /\ Asked(f)
  /\ f \in loaded
  /\ Refuse
  /\ UNCHANGED <<own, plugins, configs, loaded, call, life, hooks, ended, after, misused>>

\* The file is missing, no plugin, or of another type.
OpenFail(f) ==
  /\ Return(f, "open")
  /\ Refuse
  /\ UNCHANGED <<own, plugins, configs, loaded, life, hooks, ended, after, misused>>

InitDone(f) ==
  /\ Goto(f, "open", "register")
  /\ life' = [life EXCEPT ![f] = "open"]
  /\ UNCHANGED <<own, plugins, configs, loaded, hooks, ended, after, misused, dev>>

InitFail(f) ==
  /\ Return(f, "open")
  /\ life' = [life EXCEPT ![f] = "failed"]
  /\ Refuse
  /\ UNCHANGED <<own, plugins, configs, loaded, hooks, ended, after, misused>>

Accepts(f) == own[f] # NoName /\ plugins[own[f]] = NoFile

Register(f) ==
  /\ Accepts(f)
  /\ Goto(f, "register", "config")
  /\ plugins' = [plugins EXCEPT ![own[f]] = f]
  /\ after' = after \cup {f}
  /\ UNCHANGED <<own, configs, loaded, life, hooks, ended, misused, dev>>

RegisterIgnored(f) ==   \* wrong: the refusal is ignored
  /\ ~Accepts(f)
  /\ Goto(f, "register", "config")
  /\ UNCHANGED <<own, plugins, configs, loaded, life, hooks, ended, after, misused, dev>>

\* The name is empty, or taken by another plugin.
RegisterFail(f) ==
  /\ ~Accepts(f)
  /\ Goto(f, "register", "undo")
  /\ UNCHANGED <<own, plugins, configs, loaded, life, hooks, ended, after, misused, dev>>

UndoKeepsOpen(f) ==   \* wrong: the instance is not closed
  /\ Return(f, "undo")
  /\ Refuse
  /\ UNCHANGED <<own, plugins, configs, loaded, life, hooks, ended, after, misused>>

UndoClosesOther(f) ==   \* wrong: closes the plugin that has the name
  /\ Return(f, "undo")
  /\ CloseOf(IF own[f] = NoName THEN {f} ELSE {plugins[own[f]]}, "closed")
  /\ Refuse
  /\ UNCHANGED <<own, plugins, configs, loaded, hooks, ended, after>>

Undo(f) ==
  /\ Return(f, "undo")
  /\ CloseOf({f}, "closed")
  /\ Refuse
  /\ UNCHANGED <<own, plugins, configs, loaded, hooks, ended, after>>

LoadedByName(f) ==   \* wrong: the configuration is kept by the other name
  /\ Return(f, "config")
  /\ configs' = configs \cup {own[f]}
  /\ loaded' = loaded \cup {f}
  /\ at' = IF program = "loading" THEN at + 1 ELSE at
  /\ UNCHANGED <<own, plugins, life, hooks, ended, after, misused, program, enabled>>

\* SetConfig, by the name of the file, and the loader's own entry.
Loaded(f) ==
  /\ Return(f, "config")
  /\ configs' = configs \cup {f}
  /\ loaded' = loaded \cup {f}
  /\ at' = IF program = "loading" THEN at + 1 ELSE at
  /\ UNCHANGED <<own, plugins, life, hooks, ended, after, misused, program, enabled>>

-----------------------------------------------------------------------------
(* UnloadPlugin                                                            *)

NoteUnload(p) ==
  /\ unloaded' = [u \in Users |-> unloaded[u] \cup ({p} \cap Files)]
  /\ UNCHANGED todo

UnloadAlways(f) ==   \* wrong: forgets the plugin when Unregister fails, too
  /\ program = "library" /\ call = Idle /\ f \in loaded
  /\ CloseOf({plugins[f]} \ {NoFile}, "closed")
  /\ plugins' = [plugins EXCEPT ![f] = NoFile]
  /\ configs' = configs \ {f}
  /\ loaded' = loaded \ {f}
  /\ NoteUnload(plugins[f])
  /\ UNCHANGED <<own, call, ended, after, dev>>

\* Unregister closes whatever the registry keeps under the file's name; it
\* fails, and nothing changes, when that is nothing.
Unload(f) ==
  /\ program = "library" /\ call = Idle /\ f \in loaded
  /\ plugins[f] # NoFile
  /\ CloseOf({plugins[f]}, "closed")
  /\ plugins' = [plugins EXCEPT ![f] = NoFile]
  /\ configs' = configs \ {f}
  /\ loaded' = loaded \ {f}
  /\ NoteUnload(plugins[f])
  /\ UNCHANGED <<own, call, ended, after, dev>>

-----------------------------------------------------------------------------
(* Running hooks, and the end                                              *)

\* LoadFromConfig is done and RunDev begins.
Serve ==
  /\ program = "loading" /\ call = Idle
  /\ at = Len(enabled)
  /\ program' = "serving"
  /\ UNCHANGED <<own, plugins, configs, loaded, call, life, hooks, ended, after, misused, enabled, at>>

\* RunDev fails: os.Exit runs no deferred call.
ServeFail ==
  /\ program = "serving" /\ ~ended
  /\ program' = "exited"
  /\ UNCHANGED <<own, plugins, configs, loaded, call, life, hooks, ended, after, misused, enabled, at>>

Running == program \in {"library", "serving"}

\* GetHooks: the plugins are only read under the lock ...
GetHooks(u) ==
  /\ Running
  /\ todo[u] = {}
  /\ todo' = [todo EXCEPT ![u] = Registered]
  /\ unloaded' = [unloaded EXCEPT ![u] = {}]
  /\ UNCHANGED <<own, plugins, configs, loaded, call, life, ended, after, misused, dev>>

\* ... and called later, in the order of their priorities.
CallHook(u, f) ==
  /\ Running
  /\ f \in todo[u]
  /\ \A g \in todo[u] : Priority[f] <= Priority[g]
  /\ todo' = [todo EXCEPT ![u] = @ \ {f}]
  /\ UNCHANGED <<own, plugins, configs, loaded, call, life, unloaded, ended, after, misused, dev>>

\* loader.Close, deferred by `zt dev': CloseAll closes and removes nothing.
CloseAll ==
  /\ program = "library" \/ (program = "serving" /\ ~ended)
  /\ CloseOf({plugins[n] : n \in Names} \ {NoFile}, "ended")
  /\ ended' = TRUE
  /\ after' = {}
  /\ UNCHANGED <<own, plugins, configs, loaded, call, hooks, dev>>

-----------------------------------------------------------------------------
LoadStep(f) ==
  \/ LoadBegin(f) \/ LoadAgain(f) \/ OpenFail(f) \/ InitDone(f) \/ InitFail(f)
  \/ Register(f) \/ RegisterFail(f) \/ Undo(f) \/ Loaded(f)

Next ==
  \/ \E f \in Files : LoadStep(f) \/ Unload(f)
  \/ \E u \in Users : GetHooks(u) \/ \E f \in Files : CallHook(u, f)
  \/ Serve \/ ServeFail \/ CloseAll

Spec == Init /\ [][Next]_vars

-----------------------------------------------------------------------------
\* No plugin calls itself by the name of another one's file.
Proper == \A f \in Files : own[f] \in Files => own[f] = f

\* Whichever loads fail at which point, and whatever names plugins give
\* themselves but those of others' files, the loader never loses an open
\* plugin: it is in the registry, where CloseAll finds it, or LoadPlugin has
\* yet to register or close it (loader.go:77-84).
NothingLeaks ==
  Proper => \A f \in Files :
    life[f] = "open" => f \in Registered \/ call \in {<<"register", f>>, <<"undo", f>>}

\* Hooks are called after GetHooks has let go of the lock: they nevertheless
\* reach plugins that are open, except one unloaded in between and those
\* CloseAll has closed; a load that fails meanwhile closes none of them
\* (registry.go:43-60, 172-234, loader.go:82).
HooksReachOpen ==
  Proper =>
    \A u \in Users : \A f \in todo[u] \ unloaded[u] : life[f] \in {"open", "ended"}

\* The loader and the registry agree: a plugin the loader counts as loaded
\* is registered, so it can be unloaded or is closed at the end
\* (loader.go:81-87, 101-105).
LoadedIsRegistered == Proper => loaded \subseteq Registered

\* Only an open plugin is closed: never one whose Init failed or that was
\* unloaded, and twice none but one loader.Close has closed, which another
\* Close or UnloadPlugin still finds in the registry.  `zt dev' closes none
\* twice (loader.go:82, 93-108, 145, registry.go:52, 225).
ClosedOnce ==
  Proper => misused \subseteq (IF program = "library" THEN {"ended"} ELSE {})

\* `zt dev' serves only when every plugin the configuration enables is open,
\* in the registry, and known to the loader (loader.go:32-44, main.go:51-64).
ServesEnabled ==
  Proper /\ program = "serving" /\ ~ended =>
    \A i \in DOMAIN enabled :
      enabled[i] \in loaded \cap Registered /\ life[enabled[i]] = "open"

\* loader.Close leaves a plugin open only when a LoadPlugin it does not wait
\* for registers it, or fails to and closes it, afterwards: the orderly end
\* of `zt dev' leaves none.  Its exit, because a plugin could not be loaded
\* or RunDev failed, leaves exactly those open that LoadFromConfig has
\* loaded, and closes none (main.go:59-66, loader.go:39, 77-84, 145).
LeftOpen ==
  Proper =>
    /\ ended => \A f \in Files :
         life[f] = "open" => /\ f \in after \/ call \in {<<"register", f>>, <<"undo", f>>}
                             /\ program = "library"
    /\ program = "exited" =>
         {f \in Files : life[f] = "open"} = {enabled[i] : i \in 1 .. at}

-----------------------------------------------------------------------------
(* The inductive strengthening, for the proofs of PluginsProofs            *)

\* The registry keeps a plugin under its own name, and open until CloseAll;
\* and the plugin of a load under way is open and not loaded.
Inv ==
  /\ \A n \in Names : plugins[n] # NoFile => own[plugins[n]] = n
  /\ loaded \subseteq Registered
  /\ \A f \in Files :
       /\ f \in Registered => life[f] \in {"open", "ended"}
       /\ life[f] = "ended" => ended /\ f \in Registered
       /\ call \in {<<"open", f>>, <<"register", f>>, <<"undo", f>>} => f \notin Registered
       /\ call \in {<<"register", f>>, <<"undo", f>>} => life[f] = "open"
       /\ call = <<"config", f>> => f \in Registered
       /\ life[f] = "open" => f \in Registered \/ call \in {<<"register", f>>, <<"undo", f>>}
       /\ life[f] = "open" /\ ended /\ f \in Registered => f \in after
       /\ f \in Registered => f \in loaded \/ call = <<"config", f>>
  /\ \A u \in Users : todo[u] \ unloaded[u] \subseteq Registered
  /\ misused \subseteq (IF program = "library" THEN {"ended"} ELSE {})
  /\ ended /\ program # "library" =>
       program = "serving" /\ \A f \in Files : life[f] # "open"
  /\ at <= Len(enabled)
  /\ program # "library" => loaded = {enabled[i] : i \in 1 .. at}
  /\ program = "loading" /\ call # Idle => at < Len(enabled) /\ call[2] = enabled[at + 1]
  /\ program = "serving" => at = Len(enabled)
  /\ program \in {"serving", "exited"} => call = Idle
ProperInv == Proper => Inv
=============================================================================
