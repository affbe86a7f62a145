------------------------------ MODULE AppServer ------------------------------
(***************************************************************************)
(* The application server of internal/app/server/server.go with the three  *)
(* plugins of plugins/.  SetupMiddlewares stacks the middlewares of the    *)
(* plugins by their priorities - the rate limiter (50, module RateLimit),  *)
(* basicauth (100), headers (200), and innermost pluginResponseHook - and  *)
(* then calls the router hooks; SetupRoutes adds the routes.  A router     *)
(* hook gets a routerAdapter and makes as many calls of it as it likes.    *)
(* A request passes the stack from the outside in, is answered by the      *)
(* first that writes, and passes the response hook on its way out.         *)
(*                                                                         *)
(* A response's headers are sent when its status is: what is changed in    *)
(* the header map later stays there.  Of a handler the model has what it   *)
(* does to the headers - it sets some and deletes some - whether it writes *)
(* and whether it panics.                                                  *)
(***************************************************************************)
EXTENDS RateLimit, FiniteSets

CONSTANTS
  Requests,   \* requests under way
  Removed,    \* the fields the headers plugin removes,
  Overridden, \* ... sets in any case,
  Added,      \* ... and sets when they are not set
  Hooks,      \* plugins with a router hook
  NoHook,     \* the router hook being called when none is
  Priority    \* Priority[p]: what Priority() of p returns

ASSUME RequestsAssumption == IsFiniteSet(Requests)
ASSUME HooksAssumption == Priority \in [Hooks -> Nat] /\ NoHook \notin Hooks
ASSUME FieldsAssumption ==
  /\ Removed \cap (Overridden \cup Added) = {}
  /\ Overridden \cap Added = {}

Fields == Removed \cup Overridden \cup Added

VARIABLES
  stage,     \* "hooks", "panicked" or "serving"
  called,    \* history: called[p], the calls p's router hook has made, "Use"
             \* and "route", until SetupRoutes
  todo,      \* the router hooks not yet called
  hook,      \* the one being called, or NoHook
  routed,    \* the mux has a route
  registered,\* the headers plugin is registered
  at,        \* at[r]: where request r is
  client,    \* client[r]: its address
  header,    \* header[r]: who set each field of the response, "" if nobody
             \* did, "deleted" if the handler took it out again
  sent,      \* sent[r]: by whom the response was sent, with which headers
  checked    \* history: checked[c], how many requests of c basicauth saw

setup    == <<stage, called, todo, hook, routed>>
exchange == <<at, client, header, sent>>
server   == <<setup, registered, exchange, checked>>
all      == <<vars, server>>

HeaderMaps == [Fields -> {"", "plugin", "handler", "deleted"}]
Responses  ==
  [by : {"", "limiter", "auth", "handler", "recoverer", "server"}, header : HeaderMaps]

Unset  == [f \in Fields |-> ""]
Unsent == [by |-> "", header |-> Unset]
Points == {"idle", "limit", "auth", "headers", "handler", "respond", "flush", "over"}

ServerTypeOK ==
  /\ stage \in {"hooks", "panicked", "serving"}
  /\ called \in [Hooks -> SUBSET {"Use", "route"}]
  /\ todo \subseteq Hooks
  /\ hook \in Hooks \cup {NoHook}
  /\ routed \in BOOLEAN
  /\ registered \in BOOLEAN
  /\ at \in [Requests -> Points]
  /\ client \in [Requests -> Clients]
  /\ header \in [Requests -> HeaderMaps]
  /\ sent \in [Requests -> Responses]
  /\ checked \in [Clients -> Nat]

ServerInit ==
  /\ Init
  /\ stage = "hooks"
  /\ called = [p \in Hooks |-> {}]
  /\ todo = Hooks
  /\ hook = NoHook
  /\ routed = FALSE
  /\ registered = TRUE
  /\ at = [r \in Requests |-> "idle"]
  /\ client \in [Requests -> Clients]
  /\ header = [r \in Requests |-> Unset]
  /\ sent = [r \in Requests |-> Unsent]
  /\ checked = [c \in Clients |-> 0]

-----------------------------------------------------------------------------
(* Setting up                                                              *)

AnyOrder(p) == p \in todo   \* wrong: router hooks are not sorted

\* callRouterHooks: the hooks of the lowest priority left, ties in any order.
NextHook(p) == p \in todo /\ \A q \in todo : Priority[p] <= Priority[q]

EnterHook(p) ==
  /\ stage = "hooks" /\ hook = NoHook /\ NextHook(p)
  /\ hook' = p
  /\ todo' = todo \ {p}
  /\ UNCHANGED <<vars, stage, called, routed, registered, exchange, checked>>

\* The hook calls the method `what' of its routerAdapter.
Calling(what) ==
  /\ stage = "hooks" /\ hook # NoHook
  /\ called' = [called EXCEPT ![hook] = @ \cup {what}]
  /\ UNCHANGED <<vars, todo, hook, registered, exchange, checked>>

\* Get, Post, Put, Delete or Mount, of a pattern that chi accepts.
HookRoute == Calling("route") /\ routed' = TRUE /\ UNCHANGED stage

\* Use: chi panics when a route was added.
HookUse ==
  /\ Calling("Use")
  /\ stage' = IF routed THEN "panicked" ELSE "hooks"
  /\ UNCHANGED routed

\* It returns; an error is only logged.
LeaveHook ==
  /\ stage = "hooks" /\ hook # NoHook
  /\ hook' = NoHook
  /\ UNCHANGED <<vars, stage, called, todo, routed, registered, exchange, checked>>

SetupRoutes ==
  /\ stage = "hooks" /\ todo = {} /\ hook = NoHook
  /\ stage' = "serving" /\ routed' = TRUE
  /\ called' = [p \in Hooks |-> {}]
  /\ UNCHANGED <<vars, todo, hook, registered, exchange, checked>>

\* UnloadPlugin("headers"): its middleware stays in the stack.
Unload ==
  /\ registered
  /\ registered' = FALSE
  /\ UNCHANGED <<vars, setup, exchange, checked>>

-----------------------------------------------------------------------------
(* A request                                                               *)

Goto(r, from, to) == at[r] = from /\ at' = [at EXCEPT ![r] = to]

Send(r, by, h) == sent' = [sent EXCEPT ![r] = [by |-> by, header |-> h]]

ArriveAuthFirst(r, c) ==   \* wrong: basicauth outside the limiter
  /\ stage = "serving"
  /\ Goto(r, "idle", "auth")
  /\ client' = [client EXCEPT ![r] = c]
  /\ UNCHANGED <<vars, setup, registered, header, sent, checked>>

Arrive(r, c) ==
  /\ stage = "serving"
  /\ Goto(r, "idle", "limit")
  /\ client' = [client EXCEPT ![r] = c]
  /\ UNCHANGED <<vars, setup, registered, header, sent, checked>>

\* The limiter lets it through ...
Admit(r) ==
  /\ Goto(r, "limit", "auth")
  /\ AllowFirst(client[r]) \/ AllowMore(client[r])
  /\ UNCHANGED <<setup, registered, client, header, sent, checked>>

\* ... or answers 429.
Limited(r) ==
  /\ Goto(r, "limit", "over")
  /\ Deny(client[r])
  /\ Send(r, "limiter", header[r])
  /\ UNCHANGED <<setup, registered, client, header, checked>>

See(r) == checked' = [checked EXCEPT ![client[r]] = @ + 1]

\* The path is not protected, or the credentials are right.
AuthPass(r) ==
  /\ Goto(r, "auth", "headers")
  /\ See(r)
  /\ UNCHANGED <<vars, setup, registered, client, header, sent>>

\* 401
AuthFail(r) ==
  /\ Goto(r, "auth", "over")
  /\ See(r)
  /\ Send(r, "auth", header[r])
  /\ UNCHANGED <<vars, setup, registered, client, header>>

\* What both parts of the headers plugin do to a header map.
Overriding(h) ==
  [f \in Fields |-> CASE f \in Removed -> "" [] f \in Overridden -> "plugin" [] OTHER -> h[f]]

\* What its middleware makes of one: it adds what is missing, too.
Adding(h) ==
  [f \in Fields |-> IF f \in Added /\ h[f] = "" THEN "plugin" ELSE Overriding(h)[f]]

SetHeaders(r) ==
  /\ Goto(r, "headers", "handler")
  /\ header' = [header EXCEPT ![r] = Adding(@)]
  /\ UNCHANGED <<vars, setup, registered, client, sent, checked>>

\* The header map when the handler has set the fields in S and deleted those
\* in D: w.Header().Del, or http.Error, which deletes some by itself.
Handled(h, S, D) ==
  [f \in Fields |-> CASE f \in S -> "handler"
                      [] f \in D \ S /\ h[f] # "" -> "deleted"
                      [] OTHER -> h[f]]

\* The handler does so and writes, or does not write at all.
Handle(r, S, D) ==
  /\ Goto(r, "handler", "respond")
  /\ header' = [header EXCEPT ![r] = Handled(@, S, D)]
  /\ Send(r, "handler", Handled(header[r], S, D)) \/ UNCHANGED sent
  /\ UNCHANGED <<vars, setup, registered, client, checked>>

\* It panics: Recoverer answers 500 unless something was sent; the response
\* hooks are passed over.
Panic(r, S, D) ==
  /\ Goto(r, "handler", "over")
  /\ header' = [header EXCEPT ![r] = Handled(@, S, D)]
  /\ \E by \in {"handler", "recoverer"} : Send(r, by, Handled(header[r], S, D))
  /\ UNCHANGED <<vars, setup, registered, client, checked>>

OnResponseNot(r) ==   \* wrong: the response hook has no effect
  /\ Goto(r, "respond", "flush")
  /\ UNCHANGED <<vars, setup, registered, client, header, sent, checked>>

OnResponseFresh(r) ==   \* wrong: a new header map instead of the response's
  /\ Goto(r, "respond", "flush")
  /\ header' = [header EXCEPT ![r] = IF registered THEN [f \in Overridden |-> "plugin"] ELSE @]
  /\ UNCHANGED <<vars, setup, registered, client, sent, checked>>

\* pluginResponseHook asks the registry anew.
OnResponse(r) ==
  /\ Goto(r, "respond", "flush")
  /\ header' = [header EXCEPT ![r] = IF registered THEN Overriding(@) ELSE @]
  /\ UNCHANGED <<vars, setup, registered, client, sent, checked>>

\* Nothing was written: 200, or 504 by Timeout.
Flush(r) ==
  /\ Goto(r, "flush", "over")
  /\ IF sent[r] = Unsent THEN Send(r, "server", header[r]) ELSE UNCHANGED sent
  /\ UNCHANGED <<vars, setup, registered, client, header, checked>>

\* Another request takes the place of one that is over.
Recycle(r) ==
  /\ Goto(r, "over", "idle")
  /\ header' = [header EXCEPT ![r] = Unset]
  /\ sent' = [sent EXCEPT ![r] = Unsent]
  /\ UNCHANGED <<vars, setup, registered, client, checked>>

RequestStep(r) ==
  \/ \E c \in Clients : Arrive(r, c)
  \/ Admit(r) \/ Limited(r) \/ AuthPass(r) \/ AuthFail(r) \/ SetHeaders(r)
  \/ (\E S, D \in SUBSET Fields : Handle(r, S, D) \/ Panic(r, S, D))
  \/ OnResponse(r) \/ Flush(r) \/ Recycle(r)

LimiterAlone == (Tick \/ StartLoop \/ Close \/ Cleanup \/ EndLoop) /\ UNCHANGED server

SetupStep ==
  (\E p \in Hooks : EnterHook(p)) \/ HookRoute \/ HookUse \/ LeaveHook \/ SetupRoutes

ServerNext ==
  \/ SetupStep \/ Unload
  \/ \E r \in Requests : RequestStep(r)
  \/ LimiterAlone

ServerSpec == ServerInit /\ [][ServerNext]_all
-----------------------------------------------------------------------------
\* p's hook has added a route, q's a middleware.
Precedes(p, q) == "route" \in called[p] /\ "Use" \in called[q]

\* Setting up panics in a hook that adds a middleware after a route: its own,
\* or that of another hook of its priority or a lower.  While it does not,
\* of two hooks the one that adds middlewares is not of the higher priority:
\* what hooks of different priorities do to each other does not depend on
\* the order of registration (server.go:106-113, 202-224).
SetupDecided ==
  /\ stage = "panicked" =>
       \E p \in Hooks : Precedes(p, hook) /\ Priority[p] <= Priority[hook]
  /\ stage = "hooks" =>
       \A p, q \in Hooks : p # q /\ Precedes(p, q) => Priority[p] >= Priority[q]

\* Credentials are looked at only in requests the limiter has counted, so
\* BurstBound also bounds how many a client can try (ratelimit.go:61,
\* basicauth.go:56, server.go:49-54).
ChecksAreCounted ==
  \A c \in Clients :
    checked[c] + Cardinality({r \in Requests : at[r] = "auth" /\ client[r] = c})
      <= Len(granted[c])

Reach(r) ==
  sent[r].by \in {"handler", "recoverer", "server"} =>
    /\ \A f \in Overridden \cup Added : sent[r].header[f] # ""
    /\ \A f \in Removed \cup Overridden :
         sent[r].header[f] \in {"handler", "deleted"} => sent[r].by # "server" \/ ~registered

\* Every response that passed the headers plugin has the fields it adds and
\* overrides and none it removes, but for what the handler itself set or
\* deleted.  Of that, the response hook corrects what is removed or
\* overridden when the handler sends nothing and does not panic; an added
\* field the handler deleted stays away (headers.go:71-83, 90-98).
HeadersReach == \A r \in Requests : Reach(r)
=============================================================================
