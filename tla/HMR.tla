--------------------------------- MODULE HMR ---------------------------------
(***************************************************************************)
(* The hot-reload hub of internal/dev/hmr.go and the pages that connect to *)
(* it with the script of internal/dev/inject.go.                           *)
(*                                                                         *)
(* Each connection is served by a goroutine of its own (Handler): register,*)
(* greet, read until the connection breaks, unregister twice.  Every       *)
(* finished rebuild runs Broadcast in the goroutine of its handler, under  *)
(* the read lock of mu, so two broadcasts may run at once.  A critical     *)
(* section under the write lock is one action, enabled when no broadcast   *)
(* holds the read lock.                                                    *)
(*                                                                         *)
(* What the code leaves undefined is modelled by its outcomes: a WebSocket *)
(* connection takes one writer at a time, and the second one to arrive     *)
(* panics; a map deleted from while another goroutine iterates over it may *)
(* abort the process.  A panic of a connection's goroutine is recovered by *)
(* the router's Recoverer, one of a broadcast ends the process.            *)
(***************************************************************************)
EXTENDS Naturals

CONSTANTS
  Pages,         \* pages open in browsers
  Broadcasters,  \* handlers that finished a rebuild
  MaxConnects,   \* bound: connections a page opens
  MaxVersion     \* bound: versions of the application

ASSUME HMRBounds == MaxConnects \in Nat /\ MaxVersion \in Nat \ {0}

Conns == Pages \X (1..MaxConnects)   \* a page's first, second, ... connection

VARIABLES
  latest,    \* version the child serves
  shown,     \* shown[p]: version page p shows, 0 before it is loaded
  link,      \* link[p]: number of p's connection, 0 while it has none
  opened,    \* opened[p]: how many connections p has opened
  up,        \* connections that work
  inbox,     \* connections with a reload message under way to the page
  clients,   \* the map
  cpc,       \* cpc[c]: where the goroutine of connection c is
  bpc,       \* bpc[b]: where broadcaster b is
  todo,      \* todo[b]: the clients its loop has not come to
  crashed    \* the process is gone

browser == <<latest, shown, link, opened, up, inbox>>
hub     == <<clients, cpc, bpc, todo>>
vars    == <<browser, hub, crashed>>

ConnPc  == {"none", "register", "greet", "greeting", "read", "unreg1", "unreg2", "done"}
Serving == {"greet", "greeting", "read"}
Idle    == <<"idle", 0>>
\* A broadcaster that writes carries the connection it writes to.
WriteTo(c) == <<"write", c>>
CastPc  == {Idle, <<"lock", 0>>, <<"next", 0>>} \cup {WriteTo(c) : c \in Conns}

TypeOK ==
  /\ latest \in 1..MaxVersion
  /\ shown \in [Pages -> 0..MaxVersion]
  /\ link \in [Pages -> 0..MaxConnects]
  /\ opened \in [Pages -> 0..MaxConnects]
  /\ up \subseteq Conns
  /\ inbox \subseteq Conns
  /\ clients \subseteq Conns
  /\ cpc \in [Conns -> ConnPc]
  /\ bpc \in [Broadcasters -> CastPc]
  /\ todo \in [Broadcasters -> SUBSET Conns]
  /\ \A b \in Broadcasters : bpc[b] \in {Idle, <<"lock", 0>>} => todo[b] = {}
  /\ crashed \in BOOLEAN

Init ==
  /\ latest = 1
  /\ shown = [p \in Pages |-> 0]
  /\ link = [p \in Pages |-> 0]
  /\ opened = [p \in Pages |-> 0]
  /\ up = {}
  /\ inbox = {}
  /\ clients = {}
  /\ cpc = [c \in Conns |-> "none"]
  /\ bpc = [b \in Broadcasters |-> Idle]
  /\ todo = [b \in Broadcasters |-> {}]
  /\ crashed = FALSE

\* The broadcasters that hold the read lock.
Readers == {b \in Broadcasters : bpc[b] \notin {Idle, <<"lock", 0>>}}
\* Whether some goroutine is inside WriteMessage on c.
Written(c) == cpc[c] = "greeting" \/ \E b \in Broadcasters : bpc[b] = WriteTo(c)

ConnGoto(c, from, to) == ~crashed /\ cpc[c] = from /\ cpc' = [cpc EXCEPT ![c] = to]
CastGoto(b, from, to) == ~crashed /\ bpc[b] = from /\ bpc' = [bpc EXCEPT ![b] = to]

-----------------------------------------------------------------------------
(* The browser (the script of inject.go)                                   *)

\* Page p gives up its connection and, while it may, opens the next one,
\* which the server upgrades.
Reopen(p) ==
  LET old == {<<p, link[p]>>}
      n   == opened[p] + 1
  IN  IF opened[p] < MaxConnects
        THEN /\ opened' = [opened EXCEPT ![p] = n]
             /\ link' = [link EXCEPT ![p] = n]
             /\ up' = (up \ old) \cup {<<p, n>>}
             /\ inbox' = inbox \ old
             /\ cpc' = [cpc EXCEPT ![<<p, n>>] = "register"]
        ELSE /\ link' = [link EXCEPT ![p] = 0]
             /\ up' = up \ old
             /\ inbox' = inbox \ old
             /\ UNCHANGED <<opened, cpc>>

\* The user opens the page: it shows what the child serves, then connects.
Open(p) ==
  /\ ~crashed /\ shown[p] = 0
  /\ shown' = [shown EXCEPT ![p] = latest]
  /\ Reopen(p)
  /\ UNCHANGED <<latest, clients, bpc, todo, crashed>>

\* onmessage of a reload: location.reload().
Reload(p) ==
  /\ ~crashed /\ <<p, link[p]>> \in inbox
  /\ shown' = [shown EXCEPT ![p] = latest]
  /\ Reopen(p)
  /\ UNCHANGED <<latest, clients, bpc, todo, crashed>>

\* onclose: connect again after a delay; the page itself stays as it is.
Reconnect(p) ==
  /\ ~crashed /\ link[p] # 0 /\ <<p, link[p]>> \notin up \cup inbox
  /\ opened[p] < MaxConnects
  /\ Reopen(p)
  /\ UNCHANGED <<latest, shown, clients, bpc, todo, crashed>>

\* A connection breaks, with what was under way on it: the network, or the
\* read deadline of 60 s, which no pong extends as the server sends no ping.
Break(c) ==
  /\ c \in up
  /\ up' = up \ {c}
  /\ inbox' = inbox \ {c}
  /\ UNCHANGED <<latest, shown, link, opened, hub, crashed>>

-----------------------------------------------------------------------------
(* A connection's goroutine                                                *)

Register(c) ==
  /\ Readers = {}
  /\ ConnGoto(c, "register", "greet")
  /\ clients' = clients \cup {c}
  /\ UNCHANGED <<browser, bpc, todo, crashed>>

\* send writes without the lock; the recovered panic unregisters once.
Greet(c) ==
  /\ ConnGoto(c, "greet", IF Written(c) THEN "unreg2" ELSE "greeting")
  /\ UNCHANGED <<browser, clients, bpc, todo, crashed>>

Greeted(c) ==
  /\ ConnGoto(c, "greeting", "read")
  /\ UNCHANGED <<browser, clients, bpc, todo, crashed>>

ReadError(c) ==
  /\ c \notin up
  /\ ConnGoto(c, "read", "unreg1")
  /\ UNCHANGED <<browser, clients, bpc, todo, crashed>>

UnregisterOpen(c) ==   \* wrong: forgets only clients it closes itself
  /\ Readers = {}
  /\ ConnGoto(c, "unreg1", "unreg2") \/ ConnGoto(c, "unreg2", "done")
  /\ clients' = IF c \in up THEN clients \ {c} ELSE clients
  /\ up' = up \ {c}
  /\ UNCHANGED <<latest, shown, link, opened, inbox, bpc, todo, crashed>>

\* The deferred call of readPump, then the one of Handler.
Unregister(c) ==
  /\ Readers = {}
  /\ ConnGoto(c, "unreg1", "unreg2") \/ ConnGoto(c, "unreg2", "done")
  /\ clients' = clients \ {c}
  /\ up' = up \ {c}
  /\ UNCHANGED <<latest, shown, link, opened, inbox, bpc, todo, crashed>>

-----------------------------------------------------------------------------
(* Broadcast                                                               *)

\* A handler has started the new child and calls Reload.
Rebuilt(b) ==
  /\ latest < MaxVersion
  /\ CastGoto(b, Idle, <<"lock", 0>>)
  /\ latest' = latest + 1
  /\ UNCHANGED <<shown, link, opened, up, inbox, clients, cpc, todo, crashed>>

CastStart(b) ==
  /\ CastGoto(b, <<"lock", 0>>, IF clients = {} THEN Idle ELSE <<"next", 0>>)
  /\ todo' = [todo EXCEPT ![b] = clients]
  /\ UNCHANGED <<browser, clients, cpc, crashed>>

CastWrite(b, c) ==
  /\ c \in todo[b] \cap clients
  /\ CastGoto(b, <<"next", 0>>, WriteTo(c))
  /\ crashed' = Written(c)
  /\ todo' = [todo EXCEPT ![b] = @ \ {c}]
  /\ UNCHANGED <<browser, clients, cpc>>

CastWritten(b, c) ==
  /\ c \in up
  /\ CastGoto(b, WriteTo(c), <<"next", 0>>)
  /\ inbox' = inbox \cup {c}
  /\ UNCHANGED <<latest, shown, link, opened, up, clients, cpc, todo, crashed>>

CastErrorReturns(b, c) ==   \* wrong: the first error ends the loop
  /\ c \notin up
  /\ CastGoto(b, WriteTo(c), Idle)
  /\ clients' = clients \ {c}
  /\ crashed' \in {FALSE, Readers # {b}}
  /\ UNCHANGED <<browser, cpc, todo>>

\* A write error: Close, and delete under the read lock.
CastError(b, c) ==
  /\ c \notin up
  /\ CastGoto(b, WriteTo(c), <<"next", 0>>)
  /\ clients' = clients \ {c}
  /\ crashed' \in {FALSE, Readers # {b}}
  /\ UNCHANGED <<browser, cpc, todo>>

CastEnd(b) ==
  /\ todo[b] \cap clients = {}
  /\ CastGoto(b, <<"next", 0>>, Idle)
  /\ todo' = [todo EXCEPT ![b] = {}]
  /\ UNCHANGED <<browser, clients, cpc, crashed>>

\* Shutdown closes every client and forgets them.
CloseAll ==
  /\ ~crashed /\ Readers = {}
  /\ up' = up \ clients
  /\ clients' = {}
  /\ UNCHANGED <<latest, shown, link, opened, inbox, cpc, bpc, todo, crashed>>

-----------------------------------------------------------------------------
PageStep(p) == Open(p) \/ Reload(p) \/ Reconnect(p)
ConnStep(c) ==
  Register(c) \/ Greet(c) \/ Greeted(c) \/ ReadError(c) \/ Unregister(c)
CastStep(b) ==
  \/ CastStart(b) \/ CastEnd(b)
  \/ \E c \in Conns : CastWrite(b, c) \/ CastWritten(b, c) \/ CastError(b, c)

Next ==
  \/ \E p \in Pages : PageStep(p)
  \/ \E c \in Conns : Break(c) \/ ConnStep(c)
  \/ \E b \in Broadcasters : Rebuilt(b) \/ CastStep(b)
  \/ CloseAll

Spec == Init /\ [][Next]_vars

\* Goroutines run on, a write ends, pages act on messages and reconnect.
\* A writer waiting for mu is preferred to later readers (sync.RWMutex).
FairSpec ==
  /\ Spec
  /\ \A p \in Pages : WF_vars(Reload(p)) /\ WF_vars(Reconnect(p))
  /\ \A c \in Conns : WF_vars(ConnStep(c)) /\ SF_vars(Register(c) \/ Unregister(c))
  /\ \A b \in Broadcasters : WF_vars(CastStep(b))

-----------------------------------------------------------------------------
\* The map agrees with the connections: one that works and is being served
\* is in it, whatever a broadcast deletes meanwhile; one whose goroutine has
\* returned is not, so it is never written to again (hmr.go:55-68, 115-121).
ClientsMatch ==
  \A c \in Conns :
    /\ cpc[c] \in Serving /\ c \in up => c \in clients
    /\ cpc[c] \in {"none", "register", "done"} => c \notin clients

\* A broadcast that finds a working connection in the map reloads its page
\* unless the connection breaks, even when writes to other clients fail
\* (hmr.go:115-121).
RegisteredIsReloaded ==
  \A b \in Broadcasters, c \in Conns :
    (bpc[b] = <<"lock", 0>> /\ c \in clients \cap up) ~> (c \in inbox \/ c \notin up \/ crashed)

\* Every open page shows the application that was rebuilt last
\* (README.md:17 "Instant browser refresh during development").
PagesFresh ==
  \A p \in Pages :
    (shown[p] # 0 /\ shown[p] # latest) ~> (shown[p] = latest \/ crashed)
=============================================================================
