--------------------------- MODULE AppServerProofs ---------------------------
(* The rate limiter implements FixedWindow and bounds bursts, for every    *)
(* limit, window and set of clients; and what holds of the application     *)
(* server it is part of, for every set of router hooks, requests and       *)
(* header fields.                                                          *)
EXTENDS AppServer, FiniteSetTheorems, TLAPS

-----------------------------------------------------------------------------
(* The limiter alone                                                       *)

\* An entry counts at least one request, and never more than the limit.
Counted ==
  \A c \in known : count[c] \in 1..Limit

LEMMA TypeInductive == TypeOK /\ [Next]_vars => TypeOK'
<1> SUFFICES ASSUME TypeOK, [Next]_vars PROVE TypeOK'
  OBVIOUS
<1> USE LimitAssumption, WindowAssumption, TimeAssumption DEF TypeOK
<1>1. CASE Tick
  BY <1>1 DEF Tick
<1>2. ASSUME NEW c \in Clients, Grant(c)
      PROVE  /\ verdict' \in {<<>>} \cup (Clients \X BOOLEAN)
             /\ granted' \in [Clients -> Seq(0..MaxTime)]
  <2>1. Append(granted[c], now) \in Seq(0..MaxTime)
    OBVIOUS
  <2> QED
    BY <1>2, <2>1 DEF Grant
<1>3. ASSUME NEW c \in Clients, AllowFirst(c) PROVE TypeOK'
  <2>1. now + Window \in 0..(MaxTime + Window)
    OBVIOUS
  <2>2. known' \subseteq Clients /\ count' \in [Clients -> 0..Limit]
        /\ resetAt' \in [Clients -> 0..(MaxTime + Window)]
    BY <1>3, <2>1 DEF AllowFirst
  <2>3. UNCHANGED <<now, loop, stopped>> /\ Grant(c)
    BY <1>3 DEF AllowFirst
  <2> QED
    BY <1>2, <2>2, <2>3
<1>4. ASSUME NEW c \in Clients, AllowMore(c) PROVE TypeOK'
  <2>1. count' \in [Clients -> 0..Limit]
    BY <1>4 DEF AllowMore
  <2>2. UNCHANGED <<now, known, resetAt, loop, stopped>> /\ Grant(c)
    BY <1>4 DEF AllowMore
  <2> QED
    BY <1>2, <2>1, <2>2
<1>5. ASSUME NEW c \in Clients, Deny(c) PROVE TypeOK'
  BY <1>5 DEF Deny
<1>6. CASE StartLoop \/ Close \/ EndLoop
  BY <1>6 DEF StartLoop, Close, EndLoop
<1>7. CASE Cleanup
  BY <1>7 DEF Cleanup, CleanupWith
<1>8. CASE UNCHANGED vars
  BY <1>8 DEF vars
<1> QED
  BY <1>1, <1>3, <1>4, <1>5, <1>6, <1>7, <1>8 DEF Next

LEMMA CountedInductive == TypeOK /\ Counted /\ [Next]_vars => Counted'
<1> SUFFICES ASSUME TypeOK, Counted, [Next]_vars PROVE Counted'
  OBVIOUS
<1> USE LimitAssumption DEF TypeOK, Counted
<1>1. CASE Tick \/ StartLoop \/ Close \/ EndLoop
  BY <1>1 DEF Tick, StartLoop, Close, EndLoop
<1>2. ASSUME NEW c \in Clients, AllowFirst(c) PROVE Counted'
  BY <1>2 DEF AllowFirst
<1>3. ASSUME NEW c \in Clients, AllowMore(c) PROVE Counted'
  BY <1>3 DEF AllowMore
<1>4. ASSUME NEW c \in Clients, Deny(c) PROVE Counted'
  BY <1>4 DEF Deny
<1>5. CASE Cleanup
  BY <1>5 DEF Cleanup, CleanupWith
<1>6. CASE UNCHANGED vars
  BY <1>6 DEF vars
<1> QED
  BY <1>1, <1>2, <1>3, <1>4, <1>5, <1>6 DEF Next

LEMMA RateLimitInvariant == Spec => [](TypeOK /\ Counted)
<1>1. Init => TypeOK /\ Counted
  <2> SUFFICES ASSUME Init PROVE TypeOK /\ Counted
    OBVIOUS
  <2>1. now \in 0..MaxTime /\ count \in [Clients -> 0..Limit]
        /\ resetAt \in [Clients -> 0..(MaxTime + Window)]
    BY LimitAssumption, WindowAssumption, TimeAssumption DEF Init
  <2>2. granted \in [Clients -> Seq(0..MaxTime)]
    BY DEF Init
  <2> QED
    BY <2>1, <2>2 DEF Init, TypeOK, Counted
<1> QED
  BY <1>1, TypeInductive, CountedInductive, PTL DEF Spec

\* Counts stay within the limit, the entries' ends within a window of the
\* present (ratelimit.go:92-106).
THEOREM LimiterTypes == Spec => []TypeOK
  BY RateLimitInvariant, PTL

LEMMA WindowStep == TypeOK /\ Counted /\ [Next]_vars => [Q!Next]_(Q!quota)
<1> SUFFICES ASSUME TypeOK, Counted, [Next]_vars
             PROVE  Q!Next \/ UNCHANGED Q!quota
  OBVIOUS
<1> USE LimitAssumption, WindowAssumption, TimeAssumption
    DEF TypeOK, Counted, Live, Over, Q!Next, Q!quota
<1>1. CASE Tick
  BY <1>1 DEF Tick, Q!Advance
<1>2. ASSUME NEW c \in Clients, AllowFirst(c) PROVE Q!OpenWindow(c)
  <2> DEFINE Used(a) == IF Live(a) THEN count[a] ELSE 0
             Ends(a) == IF Live(a) THEN resetAt[a] ELSE 0
  <2>1. ~Live(c) /\ Live(c)' /\ count'[c] = 1 /\ resetAt'[c] = now + Window
    BY <1>2 DEF AllowFirst
  <2>2. \A a \in Clients \ {c} : Used(a)' = Used(a) /\ Ends(a)' = Ends(a)
    BY <1>2 DEF AllowFirst
  <2>3. [a \in Clients |-> Used(a)]' = [[a \in Clients |-> Used(a)] EXCEPT ![c] = 1]
    BY <2>1, <2>2
  <2>4. [a \in Clients |-> Ends(a)]'
          = [[a \in Clients |-> Ends(a)] EXCEPT ![c] = now + Window]
    BY <2>1, <2>2
  <2>5. verdict' = <<c, TRUE>> /\ UNCHANGED now
    BY <1>2 DEF AllowFirst, Grant
  <2> QED
    BY <2>1, <2>3, <2>4, <2>5 DEF Q!OpenWindow
<1>3. ASSUME NEW c \in Clients, AllowMore(c) PROVE Q!LetThrough(c)
  <2> DEFINE Used(a) == IF Live(a) THEN count[a] ELSE 0
             Ends(a) == IF Live(a) THEN resetAt[a] ELSE 0
  <2>1. Live(c) /\ Live(c)' /\ count'[c] = count[c] + 1 /\ count[c] \in 1..(Limit - 1)
    BY <1>3 DEF AllowMore
  <2>2. \A a \in Clients \ {c} : Used(a)' = Used(a)
    BY <1>3 DEF AllowMore
  <2>3. [a \in Clients |-> Used(a)]' = [[a \in Clients |-> Used(a)] EXCEPT ![c] = @ + 1]
    BY <2>1, <2>2
  <2>4. UNCHANGED [a \in Clients |-> Ends(a)]
    BY <1>3 DEF AllowMore
  <2>5. verdict' = <<c, TRUE>> /\ UNCHANGED now
    BY <1>3 DEF AllowMore, Grant
  <2> QED
    BY <2>1, <2>3, <2>4, <2>5 DEF Q!LetThrough
<1>4. ASSUME NEW c \in Clients, Deny(c) PROVE Q!Refuse(c)
  BY <1>4 DEF Deny, Q!Refuse
<1>5. CASE Cleanup
  BY <1>5 DEF Cleanup, CleanupWith
<1>6. CASE StartLoop \/ Close \/ EndLoop
  BY <1>6 DEF StartLoop, Close, EndLoop
<1>7. CASE UNCHANGED vars
  BY <1>7 DEF vars
<1> QED
  BY <1>1, <1>2, <1>3, <1>4, <1>5, <1>6, <1>7 DEF Next

\* The sweep cannot be noticed: clients are answered as if entries were
\* never deleted (ratelimit.go:92-106, 116-123).
THEOREM WindowRefinement == Spec => ImplementsFixedWindow
<1>1. Init => Q!Init
  BY DEF Init, Q!Init, Live
<1>2. TypeOK /\ Counted /\ [Next]_vars => [Q!Next]_(Q!quota)
  BY WindowStep
<1> QED
  BY <1>1, <1>2, RateLimitInvariant, PTL DEF Spec, ImplementsFixedWindow, Q!Spec
-----------------------------------------------------------------------------
(* Bursts                                                                  *)

\* An entry's window has the last count[c] requests let through, those before
\* it are from an earlier window, and those a limit earlier from one before
\* that.  When the entry is gone, that window is over.
Bursts(c) ==
  /\ c \in known =>
       /\ resetAt[c] <= now + Window
       /\ \A i \in DOMAIN granted[c] :
            /\ granted[c][i] <= resetAt[c]
            /\ i + count[c] <= Len(granted[c]) => granted[c][i] + Window < resetAt[c]
            /\ i + count[c] + Limit <= Len(granted[c]) =>
                 granted[c][i] + 2 * Window < resetAt[c]
  /\ c \notin known =>
       \A i \in DOMAIN granted[c] :
         /\ granted[c][i] < now
         /\ i + Limit <= Len(granted[c]) => granted[c][i] + Window < now

Apart(c) ==
  \A i \in DOMAIN granted[c] :
    i + 2 * Limit \in DOMAIN granted[c] =>
      granted[c][i + 2 * Limit] > granted[c][i] + Window

LEMMA ItemOf ==
  ASSUME NEW S, NEW s \in Seq(S), NEW i \in 1..Len(s)
  PROVE  s[i] \in S
OBVIOUS

\* With no window open, what was let through a limit of requests ago is more
\* than a window old, and everything else is past.
LEMMA ClosedWindow ==
  ASSUME TypeOK, NEW c \in Clients, Bursts(c), c \notin known \/ Over(c),
         NEW i \in DOMAIN granted[c]
  PROVE  /\ granted[c][i] < now
         /\ i + Limit <= Len(granted[c]) => granted[c][i] + Window < now
<1> DEFINE g == granted[c]
<1>1. g \in Seq(0..MaxTime) /\ i \in 1..Len(g) /\ Len(g) \in Nat /\ g[i] \in Nat
  <2>1. g \in Seq(0..MaxTime)
    BY DEF TypeOK
  <2>2. i \in 1..Len(g) /\ Len(g) \in Nat
    BY <2>1
  <2>3. g[i] \in 0..MaxTime
    BY ONLY <2>1, <2>2, ItemOf
  <2> QED
    BY <2>1, <2>2, <2>3
<1>2. count[c] \in Nat /\ count[c] <= Limit /\ resetAt[c] \in Nat /\ now \in Nat
  BY LimitAssumption, WindowAssumption, TimeAssumption DEF TypeOK
<1>3. CASE c \notin known
  BY <1>3 DEF Bursts
<1>4. CASE c \in known /\ Over(c)
  <2>1. g[i] <= resetAt[c] /\ (i + count[c] <= Len(g) => g[i] + Window < resetAt[c])
    BY <1>4 DEF Bursts
  <2>2. resetAt[c] < now
    BY <1>2, <1>4 DEF Over
  <2> HIDE DEF g
  <2>3. Limit \in Nat /\ Window \in Nat
    BY LimitAssumption, WindowAssumption
  <2>4. g[i] < now /\ (i + Limit <= Len(g) => g[i] + Window < now)
    BY ONLY <1>1, <1>2, <2>1, <2>2, <2>3, SMT
  <2> QED
    BY <2>4 DEF g
<1> QED
  BY <1>3, <1>4

\* What being let through appends to a sequence of times.
LEMMA Appended ==
  ASSUME TypeOK, NEW c \in Clients, Grant(c)
  PROVE  /\ granted[c] \in Seq(0..MaxTime)
         /\ Len(granted[c]) \in Nat
         /\ DOMAIN granted[c] = 1..Len(granted[c])
         /\ Len(granted'[c]) = Len(granted[c]) + 1
         /\ DOMAIN granted'[c] = 1..(Len(granted[c]) + 1)
         /\ granted'[c][Len(granted[c]) + 1] = now
         /\ \A i \in 1..Len(granted[c]) :
              granted'[c][i] = granted[c][i] /\ granted[c][i] \in Nat
<1>1. granted'[c] = Append(granted[c], now)
  BY DEF Grant, TypeOK
<1>2. granted[c] \in Seq(0..MaxTime) /\ now \in 0..MaxTime
  BY DEF TypeOK
<1>3. \A i \in 1..Len(granted[c]) : granted[c][i] \in Nat
  <2> SUFFICES ASSUME NEW i \in 1..Len(granted[c]) PROVE granted[c][i] \in Nat
    OBVIOUS
  <2>1. granted[c][i] \in 0..MaxTime
    BY ONLY <1>2, ItemOf, i \in 1..Len(granted[c])
  <2> QED
    BY <2>1
<1> QED
  BY <1>1, <1>2, <1>3

LEMMA FirstBurst ==
  ASSUME TypeOK, NEW c \in Clients, Bursts(c), Apart(c), AllowFirst(c)
  PROVE  Bursts(c)' /\ Apart(c)'
<1> DEFINE n == Len(granted[c])
           g == granted[c]
           h == granted'[c]
<1>1. /\ n \in Nat /\ Len(h) = n + 1 /\ h[n + 1] = now
      /\ DOMAIN g = 1..n /\ DOMAIN h = 1..(n + 1)
      /\ \A i \in 1..n : h[i] = g[i] /\ g[i] \in Nat
  BY Appended DEF AllowFirst
<1>2. \A i \in 1..n : g[i] < now /\ (i + Limit <= n => g[i] + Window < now)
  BY <1>1, ClosedWindow DEF AllowFirst
<1>3. c \in known' /\ count'[c] = 1 /\ resetAt'[c] = now + Window /\ now' = now
  BY DEF AllowFirst, TypeOK
<1>4. now \in Nat /\ Limit \in Nat \ {0} /\ Window \in Nat \ {0}
  BY LimitAssumption, WindowAssumption, TimeAssumption DEF TypeOK
<1>5. \A i \in 1..n : i + 2 * Limit \in 1..n => g[i + 2 * Limit] > g[i] + Window
  BY <1>1 DEF Apart
<1> HIDE DEF n, g, h
<1>6. \A i \in 1..(n + 1) :
        /\ h[i] <= now + Window
        /\ i + 1 <= n + 1 => h[i] + Window < now + Window
        /\ i + 1 + Limit <= n + 1 => h[i] + 2 * Window < now + Window
  BY ONLY <1>1, <1>2, <1>4, SMT
<1>7. \A i \in 1..(n + 1) :
        i + 2 * Limit \in 1..(n + 1) => h[i + 2 * Limit] > h[i] + Window
  BY ONLY <1>1, <1>2, <1>4, <1>5, SMT
<1>8. Bursts(c)'
  BY <1>1, <1>3, <1>4, <1>6 DEF Bursts, n, g, h
<1>9. Apart(c)'
  BY <1>1, <1>7 DEF Apart, n, g, h
<1> QED
  BY <1>8, <1>9

LEMMA MoreBurst ==
  ASSUME TypeOK, NEW c \in Clients, Bursts(c), Apart(c), AllowMore(c)
  PROVE  Bursts(c)' /\ Apart(c)'
<1> DEFINE n == Len(granted[c])
           g == granted[c]
           h == granted'[c]
           k == count[c]
           e == resetAt[c]
<1>1. /\ n \in Nat /\ Len(h) = n + 1 /\ h[n + 1] = now
      /\ DOMAIN g = 1..n /\ DOMAIN h = 1..(n + 1)
      /\ \A i \in 1..n : h[i] = g[i] /\ g[i] \in Nat
  BY Appended DEF AllowMore
<1>2. /\ e <= now + Window
      /\ \A i \in 1..n : /\ g[i] <= e
                         /\ i + k <= n => g[i] + Window < e
                         /\ i + k + Limit <= n => g[i] + 2 * Window < e
  BY <1>1 DEF Bursts, AllowMore
<1>3. c \in known' /\ count'[c] = k + 1 /\ resetAt'[c] = e /\ now' = now
  BY DEF AllowMore, TypeOK
<1>4. /\ now \in Nat /\ Limit \in Nat \ {0} /\ Window \in Nat \ {0} /\ e \in Nat
      /\ k \in Nat /\ k < Limit /\ now <= e
  BY LimitAssumption, WindowAssumption, TimeAssumption DEF TypeOK, AllowMore, Over
<1>5. \A i \in 1..n : i + 2 * Limit \in 1..n => g[i + 2 * Limit] > g[i] + Window
  BY <1>1 DEF Apart
<1> HIDE DEF n, g, h, k, e
<1>6. \A i \in 1..(n + 1) :
        /\ h[i] <= e
        /\ i + (k + 1) <= n + 1 => h[i] + Window < e
        /\ i + (k + 1) + Limit <= n + 1 => h[i] + 2 * Window < e
  BY ONLY <1>1, <1>2, <1>4, SMT
<1>7. \A i \in 1..(n + 1) :
        i + 2 * Limit \in 1..(n + 1) => h[i + 2 * Limit] > h[i] + Window
  BY ONLY <1>1, <1>2, <1>4, <1>5, SMT
<1>8. Bursts(c)'
  BY <1>1, <1>2, <1>3, <1>6 DEF Bursts, n, g, h
<1>9. Apart(c)'
  BY <1>1, <1>7 DEF Apart, n, g, h
<1> QED
  BY <1>8, <1>9

LEMMA BurstStep ==
  ASSUME TypeOK, \A c \in Clients : Bursts(c) /\ Apart(c), [Next]_vars
  PROVE  \A c \in Clients : Bursts(c)' /\ Apart(c)'
<1> SUFFICES ASSUME NEW c \in Clients PROVE Bursts(c)' /\ Apart(c)'
  OBVIOUS
<1>0. Bursts(c) /\ Apart(c)
  OBVIOUS
<1>1. ASSUME c \in known <=> c \in known', count'[c] = count[c], resetAt'[c] = resetAt[c],
             granted'[c] = granted[c], now' >= now
      PROVE  Bursts(c)' /\ Apart(c)'
  <2>1. Apart(c)'
    BY <1>0, <1>1 DEF Apart
  <2>2. /\ now \in Nat /\ now' \in Nat /\ Window \in Nat /\ resetAt[c] \in Nat
        /\ \A i \in DOMAIN granted[c] : granted[c][i] \in Nat
    <3>1. granted[c] \in Seq(0..MaxTime)
      BY DEF TypeOK
    <3> QED
      BY <3>1, TypeInductive, WindowAssumption, TimeAssumption DEF TypeOK
  <2>3. resetAt[c] <= now + Window => resetAt[c] <= now' + Window
    BY <1>1, <2>2
  <2>4. \A i \in DOMAIN granted[c] :
          /\ granted[c][i] < now => granted[c][i] < now'
          /\ granted[c][i] + Window < now => granted[c][i] + Window < now'
    BY <1>1, <2>2
  <2>5. CASE c \in known
    <3>1. Bursts(c)'
      BY <1>0, <1>1, <2>3, <2>5 DEF Bursts
    <3> QED
      BY <2>1, <3>1
  <2>6. CASE c \notin known
    <3>1. Bursts(c)'
      BY <1>0, <1>1, <2>4, <2>6 DEF Bursts
    <3> QED
      BY <2>1, <3>1
  <2> QED
    BY <2>5, <2>6
<1>2. CASE Tick \/ StartLoop \/ Close \/ EndLoop \/ UNCHANGED vars
  BY <1>1, <1>2, TimeAssumption DEF Tick, StartLoop, Close, EndLoop, vars, TypeOK
<1>3. CASE Cleanup
  <2>1. CASE c \in known /\ Over(c)
    <3>1. c \notin known' /\ granted' = granted /\ now' = now
      BY <1>3, <2>1 DEF Cleanup, CleanupWith
    <3>2. Bursts(c)'
      BY <1>0, <2>1, <3>1, ClosedWindow DEF Bursts
    <3> QED
      BY <1>0, <3>1, <3>2 DEF Apart
  <2>2. CASE c \in known /\ ~Over(c)
    BY <1>1, <1>3, <2>2, TimeAssumption DEF Cleanup, CleanupWith, TypeOK
  <2>3. CASE c \notin known
    BY <1>0, <1>3, <2>3 DEF Cleanup, CleanupWith, Bursts, Apart
  <2> QED
    BY <2>1, <2>2, <2>3
<1>4. ASSUME NEW d \in Clients \ {c}, AllowFirst(d) \/ AllowMore(d)
      PROVE  Bursts(c)' /\ Apart(c)'
  <2>1. c \in known <=> c \in known'
    BY <1>4 DEF AllowFirst, AllowMore
  <2>2. count'[c] = count[c] /\ resetAt'[c] = resetAt[c]
    BY <1>4 DEF AllowFirst, AllowMore, TypeOK
  <2>3. Grant(d) /\ now' = now
    BY <1>4 DEF AllowFirst, AllowMore
  <2>4. granted'[c] = granted[c] /\ now' >= now
    BY <2>3, TimeAssumption DEF Grant, TypeOK
  <2> QED
    BY <1>1, <2>1, <2>2, <2>4
<1>5. ASSUME NEW d \in Clients, Deny(d) PROVE Bursts(c)' /\ Apart(c)'
  BY <1>1, <1>5, TimeAssumption DEF Deny, TypeOK
<1>6. CASE AllowFirst(c) \/ AllowMore(c)
  BY <1>0, <1>6, FirstBurst, MoreBurst
<1> QED
  BY <1>2, <1>3, <1>4, <1>5, <1>6 DEF Next

\* No client gets more than twice the limit through in any interval as long
\* as a window, however sweeps interleave (ratelimit.go:92-106, 116-123).
THEOREM TwoWindows == Spec => []BurstBound
<1> DEFINE Inv == \A c \in Clients : Bursts(c) /\ Apart(c)
<1>1. Init => Inv
  <2> SUFFICES ASSUME Init, NEW c \in Clients PROVE Bursts(c) /\ Apart(c)
    OBVIOUS
  <2>1. c \notin known /\ granted[c] = <<>>
    BY DEF Init
  <2>2. DOMAIN granted[c] = {}
    BY <2>1
  <2> QED
    BY <2>1, <2>2 DEF Bursts, Apart
<1>2. TypeOK /\ Inv /\ [Next]_vars => Inv'
  BY BurstStep
<1>3. Inv => BurstBound
  BY DEF Apart, BurstBound
<1> QED
  BY <1>1, <1>2, <1>3, RateLimitInvariant, PTL DEF Spec

-----------------------------------------------------------------------------
(* The application server                                                  *)

\* What plugins and handlers do to a header map yields one.
LEMMA HeaderMapsClosed ==
  /\ Unset \in HeaderMaps
  /\ \A h \in HeaderMaps : Overriding(h) \in HeaderMaps /\ Adding(h) \in HeaderMaps
  /\ \A h \in HeaderMaps, S, D \in SUBSET Fields : Handled(h, S, D) \in HeaderMaps
<1>1. Unset \in HeaderMaps
  BY DEF Unset, HeaderMaps
<1>2. ASSUME NEW h \in HeaderMaps PROVE Overriding(h) \in HeaderMaps
  BY DEF Overriding, HeaderMaps
<1>3. ASSUME NEW h \in HeaderMaps PROVE Adding(h) \in HeaderMaps
  BY <1>2 DEF Adding, HeaderMaps
<1>4. ASSUME NEW h \in HeaderMaps, NEW S \in SUBSET Fields, NEW D \in SUBSET Fields
      PROVE  Handled(h, S, D) \in HeaderMaps
  BY DEF Handled, HeaderMaps
<1> QED
  BY <1>1, <1>2, <1>3, <1>4

LEMMA SentIsResponse ==
  /\ Unsent \in Responses
  /\ \A by \in {"limiter", "auth", "handler", "recoverer", "server"}, h \in HeaderMaps :
       [by |-> by, header |-> h] \in Responses
  BY HeaderMapsClosed DEF Unsent, Responses

LEMMA SendKeepsType ==
  ASSUME NEW r \in Requests, sent \in [Requests -> Responses], NEW h \in HeaderMaps,
         NEW by \in {"limiter", "auth", "handler", "recoverer", "server"},
         Send(r, by, h)
  PROVE  sent' \in [Requests -> Responses]
BY SentIsResponse DEF Send

LEMMA SeeKeepsType ==
  ASSUME NEW r \in Requests, client \in [Requests -> Clients],
         checked \in [Clients -> Nat], See(r)
  PROVE  checked' \in [Clients -> Nat]
<1>1. PICK c \in Clients : c = client[r]
  OBVIOUS
<1>2. checked' = [checked EXCEPT ![c] = checked[c] + 1]
  BY <1>1 DEF See
<1> QED
  BY <1>2

\* Every variable of the server keeps its type, by the states a request can
\* be in (server.go:37-141).
THEOREM ServerTypes == ServerSpec => []ServerTypeOK
<1>1. ServerInit => ServerTypeOK
  <2> SUFFICES ASSUME ServerInit PROVE ServerTypeOK
    OBVIOUS
  <2>1. header \in [Requests -> HeaderMaps] /\ sent \in [Requests -> Responses]
    BY HeaderMapsClosed, SentIsResponse DEF ServerInit
  <2> QED
    BY <2>1 DEF ServerInit, ServerTypeOK, Points
<1>2. ServerTypeOK /\ [ServerNext]_all => ServerTypeOK'
  <2> SUFFICES ASSUME ServerTypeOK, [ServerNext]_all PROVE ServerTypeOK'
    OBVIOUS
  <2> USE DEF ServerTypeOK, server, setup, exchange, Points
  <2>1. CASE SetupStep
    <3>1. ASSUME NEW p \in Hooks, EnterHook(p) PROVE ServerTypeOK'
      BY <3>1 DEF EnterHook
    <3>2. CASE HookRoute
      BY <3>2 DEF HookRoute, Calling
    <3>3. CASE HookUse
      BY <3>3 DEF HookUse, Calling
    <3>4. CASE LeaveHook
      BY <3>4 DEF LeaveHook
    <3>5. CASE SetupRoutes
      BY <3>5 DEF SetupRoutes
    <3> QED
      BY <2>1, <3>1, <3>2, <3>3, <3>4, <3>5 DEF SetupStep
  <2>3. CASE Unload
    BY <2>3 DEF Unload
  <2>4. ASSUME NEW r \in Requests, RequestStep(r) PROVE ServerTypeOK'
    <3> USE DEF Goto
    <3>0. See(r) => checked' \in [Clients -> Nat]
      BY SeeKeepsType
    <3>1. ASSUME NEW c \in Clients, Arrive(r, c)
          PROVE  ServerTypeOK'
      BY <3>1 DEF Arrive
    <3>2. CASE Admit(r)
      BY <3>2 DEF Admit
    <3>3. CASE Limited(r)
      BY <3>3, SendKeepsType DEF Limited
    <3>4. CASE AuthPass(r)
      BY <3>0, <3>4 DEF AuthPass
    <3>5. CASE AuthFail(r)
      <4>1. sent' \in [Requests -> Responses]
        BY <3>5, SendKeepsType DEF AuthFail
      <4> QED
        BY <3>0, <3>5, <4>1 DEF AuthFail
    <3>6. CASE SetHeaders(r)
      BY <3>6, HeaderMapsClosed DEF SetHeaders
    <3>7. ASSUME NEW S \in SUBSET Fields, NEW D \in SUBSET Fields, Handle(r, S, D)
          PROVE  ServerTypeOK'
      <4>1. Handled(header[r], S, D) \in HeaderMaps
        BY HeaderMapsClosed
      <4>2. sent' \in [Requests -> Responses]
        BY <3>7, <4>1, SendKeepsType DEF Handle
      <4>3. header' \in [Requests -> HeaderMaps]
        BY <3>7, <4>1 DEF Handle
      <4> QED
        BY <3>7, <4>2, <4>3 DEF Handle
    <3>8. ASSUME NEW S \in SUBSET Fields, NEW D \in SUBSET Fields, Panic(r, S, D)
          PROVE  ServerTypeOK'
      <4>1. Handled(header[r], S, D) \in HeaderMaps
        BY HeaderMapsClosed
      <4>2. sent' \in [Requests -> Responses]
        BY <3>8, <4>1, SendKeepsType DEF Panic
      <4>3. header' \in [Requests -> HeaderMaps]
        BY <3>8, <4>1 DEF Panic
      <4> QED
        BY <3>8, <4>2, <4>3 DEF Panic
    <3>9. CASE OnResponse(r)
      BY <3>9, HeaderMapsClosed DEF OnResponse
    <3>10. CASE Flush(r)
      BY <3>10, SendKeepsType DEF Flush
    <3>11. CASE Recycle(r)
      BY <3>11, HeaderMapsClosed, SentIsResponse DEF Recycle
    <3> QED
      BY <2>4, <3>1, <3>2, <3>3, <3>4, <3>5, <3>6, <3>7, <3>8, <3>9, <3>10, <3>11
         DEF RequestStep
  <2>5. CASE LimiterAlone
    BY <2>5 DEF LimiterAlone
  <2>6. CASE UNCHANGED all
    BY <2>6 DEF all
  <2> QED
    BY <2>1, <2>3, <2>4, <2>5, <2>6 DEF ServerNext
<1> QED
  BY <1>1, <1>2, PTL DEF ServerSpec

-----------------------------------------------------------------------------
(* The limiter inside the server is the limiter                            *)

LEMMA LimiterStep == ServerTypeOK /\ [ServerNext]_all => [Next]_vars
<1> SUFFICES ASSUME ServerTypeOK, ServerNext PROVE Next \/ UNCHANGED vars
  BY DEF all
<1>1. ASSUME NEW r \in Requests, RequestStep(r) PROVE Next \/ UNCHANGED vars
  <2>1. client[r] \in Clients
    BY DEF ServerTypeOK
  <2>2. CASE Admit(r)
    BY <2>1, <2>2 DEF Admit, Next
  <2>3. CASE Limited(r)
    BY <2>1, <2>3 DEF Limited, Next
  <2> QED
    BY <1>1, <2>2, <2>3 DEF RequestStep, Arrive, AuthPass, AuthFail, SetHeaders,
       Handle, Panic, OnResponse, Flush, Recycle
<1> QED
  BY <1>1 DEF ServerNext, SetupStep, EnterHook, HookRoute, HookUse, Calling, LeaveHook,
              SetupRoutes, Unload, LimiterAlone, Next

\* Requests that pass the stack drive the limiter as its specification says,
\* and it keeps its quota (server.go:49-54, ratelimit.go:63-84).
THEOREM LimiterInside == ServerSpec => Spec /\ ImplementsFixedWindow
<1>1. ServerInit => Init
  BY DEF ServerInit
<1> QED
  BY <1>1, LimiterStep, ServerTypes, WindowRefinement, PTL DEF ServerSpec, Spec

-----------------------------------------------------------------------------
(* Router hooks                                                            *)

\* While hooks are called: those still to come have called nothing and come
\* after the others and the present one by priority, which is the last of
\* those; and the mux has a route just when one of them has added it.
SetupInv ==
  /\ stage = "hooks" =>
       /\ \A p \in todo : called[p] = {}
       /\ routed <=> \E p \in Hooks : "route" \in called[p]
       /\ \A p \in Hooks \ todo, q \in todo : Priority[p] <= Priority[q]
       /\ hook \notin todo
       /\ hook # NoHook => \A p \in Hooks \ todo : Priority[p] <= Priority[hook]
  /\ SetupDecided

LEMMA SetupInductive == ServerTypeOK /\ SetupInv /\ [ServerNext]_all => SetupInv'
<1> SUFFICES ASSUME ServerTypeOK, SetupInv, [ServerNext]_all PROVE SetupInv'
  OBVIOUS
<1> USE HooksAssumption DEF ServerTypeOK, SetupInv, SetupDecided, Precedes
<1>1. ASSUME NEW p \in Hooks, EnterHook(p) PROVE SetupInv'
  <2>1. stage = "hooks" /\ p \in todo /\ \A q \in todo : Priority[p] <= Priority[q]
    BY <1>1 DEF EnterHook, NextHook
  <2>2. hook' = p /\ todo' = todo \ {p} /\ UNCHANGED <<stage, called, routed>>
    BY <1>1 DEF EnterHook
  <2>3. \A q \in Hooks \ todo' : Priority[q] <= Priority[p]
    BY <2>1, <2>2
  <2> QED
    BY <2>1, <2>2, <2>3
<1>6. ASSUME NEW what \in {"Use", "route"}, Calling(what)
      PROVE  /\ stage = "hooks" /\ hook \in Hooks \ todo
             /\ called' = [called EXCEPT ![hook] = called[hook] \cup {what}]
             /\ UNCHANGED <<todo, hook>>
  BY <1>6 DEF Calling
<1>7. CASE HookRoute
  <2>1. /\ stage = "hooks" /\ hook \in Hooks \ todo /\ UNCHANGED <<stage, todo, hook>>
        /\ called' = [called EXCEPT ![hook] = called[hook] \cup {"route"}] /\ routed'
    BY <1>6, <1>7 DEF HookRoute
  <2>2. "route" \in called'[hook] /\ \A p \in todo : called'[p] = {}
    BY <2>1
  <2>3. ASSUME NEW p \in Hooks, NEW q \in Hooks, p # q, Precedes(p, q)'
        PROVE  Priority[p] >= Priority[q]
    <3>1. CASE p = hook
      <4>1. "Use" \in called[q] /\ q \notin todo
        BY <2>1, <2>3, <3>1
      <4>2. Priority[q] <= Priority[p]
        BY <2>1, <3>1, <4>1
      <4> QED
        BY <4>2
    <3>2. CASE p # hook
      <4>1. Precedes(p, q)
        BY <2>1, <2>3, <3>2
      <4> QED
        BY <2>1, <2>3, <4>1
    <3> QED
      BY <3>1, <3>2
  <2> QED
    BY <2>1, <2>2, <2>3
<1>9. CASE HookUse
  <2>1. /\ stage = "hooks" /\ hook \in Hooks \ todo /\ UNCHANGED <<todo, hook, routed>>
        /\ called' = [called EXCEPT ![hook] = called[hook] \cup {"Use"}]
        /\ stage' = IF routed THEN "panicked" ELSE "hooks"
    BY <1>6, <1>9 DEF HookUse
  <2>2. \A p \in Hooks : "route" \in called'[p] <=> "route" \in called[p]
    BY <2>1
  <2>3. CASE routed
    <3>1. PICK p \in Hooks : "route" \in called[p]
      BY <2>1, <2>3
    <3>2. p \notin todo
      BY <2>1, <3>1
    <3>3. Precedes(p, hook)' /\ Priority[p] <= Priority[hook']
      BY <2>1, <2>2, <3>1, <3>2
    <3> QED
      BY <2>1, <2>3, <3>1, <3>3
  <2>4. CASE ~routed
    <3>1. \A p \in Hooks : "route" \notin called'[p]
      BY <2>1, <2>2, <2>4
    <3>2. \A p \in todo : called'[p] = {}
      BY <2>1
    <3> QED
      BY <2>1, <2>4, <3>1, <3>2
  <2> QED
    BY <2>3, <2>4
<1>8. CASE LeaveHook
  BY <1>8 DEF LeaveHook
<1>2. CASE SetupRoutes
  BY <1>2 DEF SetupRoutes
<1>3. CASE UNCHANGED setup
  BY <1>3 DEF setup
<1>4. ASSUME NEW r \in Requests, RequestStep(r) PROVE UNCHANGED setup
  BY <1>4 DEF RequestStep, Arrive, Admit, Limited, AuthPass, AuthFail, SetHeaders,
     Handle, Panic, OnResponse, Flush, Recycle
<1>5. Unload \/ LimiterAlone \/ UNCHANGED all => UNCHANGED setup
  BY DEF Unload, LimiterAlone, all, server
<1> QED
  BY <1>1, <1>2, <1>3, <1>4, <1>5, <1>7, <1>8, <1>9 DEF ServerNext, SetupStep

\* Whatever calls the router hooks make, setting up panics in one that adds
\* a middleware after a route of its own, or of one of its priority or a
\* lower; otherwise priorities keep routes behind the middlewares of the
\* hooks that come first (server.go:106-113, 202-224).
THEOREM SetupIsDecided == ServerSpec => []SetupDecided
<1>1. ServerInit => SetupInv
  BY HooksAssumption DEF ServerInit, SetupInv, SetupDecided, Precedes
<1>2. SetupInv => SetupDecided
  BY DEF SetupInv
<1> QED
  BY <1>1, <1>2, SetupInductive, ServerTypes, PTL DEF ServerSpec
-----------------------------------------------------------------------------
(* Headers                                                                 *)

\* Where a request is tells what its header map has and whether it is sent.
HeadersInv(r) ==
  /\ at[r] \in {"idle", "limit", "auth", "headers"} => header[r] = Unset /\ sent[r] = Unsent
  /\ at[r] = "handler" => sent[r] = Unsent
  /\ at[r] \in {"handler", "respond", "flush"} =>
       \A f \in Overridden \cup Added : header[r][f] # ""
  /\ at[r] \in {"respond", "flush"} => sent[r] = Unsent \/ sent[r].by = "handler"
  /\ at[r] = "flush" /\ registered =>
       \A f \in Removed \cup Overridden : header[r][f] \notin {"handler", "deleted"}

HeadersAll == HeadersReach /\ \A r \in Requests : HeadersInv(r)

LEMMA OverridingFields ==
  ASSUME NEW h \in HeaderMaps
  PROVE  /\ \A f \in Overridden \cup Added : h[f] # "" => Overriding(h)[f] # ""
         /\ \A f \in Removed \cup Overridden : Overriding(h)[f] \notin {"handler", "deleted"}
         /\ \A f \in Overridden \cup Added : Adding(h)[f] # ""
BY FieldsAssumption DEF HeaderMaps, Overriding, Adding, Fields

LEMMA HandledFields ==
  ASSUME NEW h \in HeaderMaps, NEW S \in SUBSET Fields, NEW D \in SUBSET Fields,
         \A f \in Overridden \cup Added : h[f] # ""
  PROVE  \A f \in Overridden \cup Added : Handled(h, S, D)[f] # ""
BY DEF HeaderMaps, Handled, Fields

LEMMA ResponseFields ==
  ASSUME NEW s, NEW by, NEW h, s = [by |-> by, header |-> h]
  PROVE  s.by = by /\ s.header = h
OBVIOUS

LEMMA RequestKeepsHeaders ==
  ASSUME ServerTypeOK, HeadersAll, NEW r \in Requests, RequestStep(r)
  PROVE  HeadersAll'
<1> DEFINE Others == \A q \in Requests \ {r} :
             at'[q] = at[q] /\ header'[q] = header[q] /\ sent'[q] = sent[q]
           Mine(h, s, a) == at'[r] = a /\ header'[r] = h /\ sent'[r] = s
<1> USE DEF ServerTypeOK, Goto, Send, Points
<1>1. header[r] \in HeaderMaps /\ UNCHANGED registered
  BY DEF RequestStep, Arrive, Admit, Limited, AuthPass, AuthFail, SetHeaders, Handle,
     Panic, OnResponse, Flush, Recycle
<1>2. ASSUME Others, HeadersInv(r)', Reach(r)' PROVE HeadersAll'
  <2>1. ASSUME NEW q \in Requests \ {r} PROVE HeadersInv(q)' /\ Reach(q)'
    <3>1. HeadersInv(q) /\ Reach(q)
      BY DEF HeadersAll, HeadersReach
    <3>2. at'[q] = at[q] /\ header'[q] = header[q] /\ sent'[q] = sent[q]
      BY <1>2
    <3> QED
      BY <1>1, <3>1, <3>2 DEF HeadersInv, Reach
  <2> QED
    BY <1>2, <2>1 DEF HeadersAll, HeadersReach
<1>0. HeadersInv(r) /\ Reach(r)
  BY DEF HeadersAll, HeadersReach
<1>14. Unsent.by = ""
  BY DEF Unsent
<1>15. sent'[r] = sent[r] => Reach(r)'
  BY <1>0, <1>1 DEF Reach
<1>16. sent'[r].by \in {"", "limiter", "auth"} => Reach(r)'
  BY DEF Reach
<1>3. ASSUME NEW c \in Clients, Arrive(r, c)
      PROVE  HeadersAll'
  <2>1. Others /\ at[r] = "idle"
    BY <1>3 DEF Arrive
  <2>2. Mine(header[r], sent[r], "limit")
    BY <1>3 DEF Arrive
  <2>3. HeadersInv(r)'
    BY <1>0, <1>1, <2>1, <2>2, <1>14 DEF HeadersInv
  <2>4. Reach(r)'
    BY <2>2, <1>15
  <2> QED
    BY <1>2, <2>1, <2>3, <2>4
<1>4. CASE Admit(r)
  <2>1. Others /\ at[r] = "limit"
    BY <1>4 DEF Admit
  <2>2. Mine(header[r], sent[r], "auth")
    BY <1>4 DEF Admit
  <2>3. HeadersInv(r)'
    BY <1>0, <1>1, <2>1, <2>2, <1>14 DEF HeadersInv
  <2>4. Reach(r)'
    BY <2>2, <1>15
  <2> QED
    BY <1>2, <2>1, <2>3, <2>4
<1>5. CASE Limited(r)
  <2>1. Others /\ at[r] = "limit"
    BY <1>5 DEF Limited
  <2>2. Mine(header[r], [by |-> "limiter", header |-> header[r]], "over")
    BY <1>5 DEF Limited
  <2>3. HeadersInv(r)'
    BY <1>0, <1>1, <2>1, <2>2, <1>14 DEF HeadersInv
  <2>5. sent'[r].by = "limiter"
    BY ONLY <2>2, ResponseFields
  <2>4. Reach(r)'
    BY <2>5, <1>16
  <2> QED
    BY <1>2, <2>1, <2>3, <2>4
<1>6. CASE AuthPass(r)
  <2>1. Others /\ at[r] = "auth"
    BY <1>6 DEF AuthPass
  <2>2. Mine(header[r], sent[r], "headers")
    BY <1>6 DEF AuthPass
  <2>3. HeadersInv(r)'
    BY <1>0, <1>1, <2>1, <2>2, <1>14 DEF HeadersInv
  <2>4. Reach(r)'
    BY <2>2, <1>15
  <2> QED
    BY <1>2, <2>1, <2>3, <2>4
<1>7. CASE AuthFail(r)
  <2>1. Others /\ at[r] = "auth"
    BY <1>7 DEF AuthFail
  <2>2. Mine(header[r], [by |-> "auth", header |-> header[r]], "over")
    BY <1>7 DEF AuthFail
  <2>3. HeadersInv(r)'
    BY <1>0, <1>1, <2>1, <2>2, <1>14 DEF HeadersInv
  <2>5. sent'[r].by = "auth"
    BY ONLY <2>2, ResponseFields
  <2>4. Reach(r)'
    BY <2>5, <1>16
  <2> QED
    BY <1>2, <2>1, <2>3, <2>4
<1>8. CASE SetHeaders(r)
  <2>1. Others /\ at[r] = "headers"
    BY <1>8 DEF SetHeaders
  <2>2. Mine(Adding(header[r]), sent[r], "handler")
    BY <1>8 DEF SetHeaders
  <2>3. HeadersInv(r)'
    BY <1>0, <1>1, <2>1, <2>2, OverridingFields, <1>14 DEF HeadersInv
  <2>4. Reach(r)'
    BY <2>2, <1>15
  <2> QED
    BY <1>2, <2>1, <2>3, <2>4
<1>9. ASSUME NEW S \in SUBSET Fields, NEW D \in SUBSET Fields, Handle(r, S, D) PROVE HeadersAll'
  <2>1. Others /\ at[r] = "handler"
    BY <1>9 DEF Handle
  <2>2. at'[r] = "respond" /\ header'[r] = Handled(header[r], S, D)
    BY <1>9 DEF Handle
  <2>9. \A f \in Overridden \cup Added : header[r][f] # ""
    BY <1>0, <2>1 DEF HeadersInv
  <2>4. \A f \in Overridden \cup Added : header'[r][f] # ""
    BY ONLY <1>1, <2>2, <2>9, HandledFields, S \in SUBSET Fields, D \in SUBSET Fields
  <2>8. sent[r] = Unsent
    BY <1>0, <2>1 DEF HeadersInv
  <2>5. CASE Send(r, "handler", Handled(header[r], S, D))
    <3>1. sent'[r] = [by |-> "handler", header |-> header'[r]]
      BY <2>2, <2>5
    <3>2. sent'[r].by = "handler" /\ sent'[r].header = header'[r]
      BY ONLY <3>1, ResponseFields
    <3>3. HeadersInv(r)' /\ Reach(r)'
      BY <2>2, <2>4, <3>2 DEF HeadersInv, Reach
    <3> QED
      BY <1>2, <2>1, <3>3
  <2>6. CASE UNCHANGED sent
    <3>1. HeadersInv(r)' /\ Reach(r)'
      BY <1>15, <2>2, <2>4, <2>6, <2>8 DEF HeadersInv
    <3> QED
      BY <1>2, <2>1, <3>1
  <2> QED
    BY <1>9, <2>5, <2>6 DEF Handle
<1>10. ASSUME NEW S \in SUBSET Fields, NEW D \in SUBSET Fields, Panic(r, S, D) PROVE HeadersAll'
  <2>1. Others /\ at[r] = "handler"
    BY <1>10 DEF Panic
  <2>2. at'[r] = "over" /\ header'[r] = Handled(header[r], S, D)
    BY <1>10 DEF Panic
  <2>3. \E by \in {"handler", "recoverer"} : sent'[r] = [by |-> by, header |-> header'[r]]
    BY <2>2, <1>10 DEF Panic
  <2>9. \A f \in Overridden \cup Added : header[r][f] # ""
    BY <1>0, <2>1 DEF HeadersInv
  <2>4. \A f \in Overridden \cup Added : header'[r][f] # ""
    BY ONLY <1>1, <2>2, <2>9, HandledFields, S \in SUBSET Fields, D \in SUBSET Fields
  <2>7. sent'[r].by \in {"handler", "recoverer"} /\ sent'[r].header = header'[r]
    BY ONLY <2>3, ResponseFields
  <2>5. HeadersInv(r)'
    BY <2>2 DEF HeadersInv
  <2>6. Reach(r)'
    BY <2>4, <2>7 DEF Reach
  <2> QED
    BY <1>2, <2>1, <2>5, <2>6
<1>11. CASE OnResponse(r)
  <2>1. Others /\ at[r] = "respond"
    BY <1>11 DEF OnResponse
  <2>2. Mine(IF registered THEN Overriding(header[r]) ELSE header[r], sent[r], "flush")
    BY <1>11 DEF OnResponse
  <2>5. /\ \A f \in Overridden \cup Added : header'[r][f] # ""
        /\ registered =>
             \A f \in Removed \cup Overridden : header'[r][f] \notin {"handler", "deleted"}
    BY <1>0, <1>1, <2>1, <2>2, OverridingFields DEF HeadersInv
  <2>3. HeadersInv(r)'
    BY <1>0, <1>1, <2>1, <2>2, <2>5 DEF HeadersInv
  <2>4. Reach(r)'
    BY <2>2, <1>15
  <2> QED
    BY <1>2, <2>1, <2>3, <2>4
<1>12. CASE Flush(r)
  <2>1. Others /\ at[r] = "flush"
    BY <1>12 DEF Flush
  <2>2. at'[r] = "over" /\ header'[r] = header[r]
    BY <1>12 DEF Flush
  <2>3. HeadersInv(r)'
    BY <2>2 DEF HeadersInv
  <2>4. CASE sent[r] = Unsent
    <3>1. sent'[r] = [by |-> "server", header |-> header[r]]
      BY <1>12, <2>4 DEF Flush
    <3>3. sent'[r].by = "server" /\ sent'[r].header = header[r]
      BY ONLY <3>1, ResponseFields
    <3>2. Reach(r)'
      BY <1>0, <1>1, <2>1, <3>3 DEF HeadersInv, Reach
    <3> QED
      BY <1>2, <2>1, <2>3, <3>2
  <2>5. CASE sent[r] # Unsent
    <3>1. sent'[r] = sent[r]
      BY <1>12, <2>5 DEF Flush
    <3> QED
      BY <1>2, <1>15, <2>1, <2>3, <3>1
  <2> QED
    BY <2>4, <2>5
<1>13. CASE Recycle(r)
  <2>1. Others /\ at[r] = "over"
    BY <1>13 DEF Recycle
  <2>2. Mine(Unset, Unsent, "idle")
    BY <1>13 DEF Recycle
  <2>3. HeadersInv(r)'
    BY <1>0, <1>1, <2>1, <2>2, <1>14 DEF HeadersInv
  <2>5. sent'[r].by = ""
    BY <2>2, <1>14
  <2>4. Reach(r)'
    BY <2>5, <1>16
  <2> QED
    BY <1>2, <2>1, <2>3, <2>4
<1> QED
  BY <1>3, <1>4, <1>5, <1>6, <1>7, <1>8, <1>9, <1>10, <1>11, <1>12, <1>13 DEF RequestStep

\* The headers plugin reaches every response that passed it, but for the
\* fields its handler sets or deletes, which the response hook corrects when
\* the handler neither sends nor panics, those added excepted
\* (headers.go:71-83, 90-98).
THEOREM HeadersReached == ServerSpec => []HeadersReach
<1>1. ServerInit => HeadersAll
  <2> SUFFICES ASSUME ServerInit, NEW r \in Requests PROVE HeadersInv(r) /\ Reach(r)
    BY DEF HeadersAll, HeadersReach
  <2>1. at[r] = "idle" /\ header[r] = Unset /\ sent[r] = Unsent /\ Unsent.by = ""
    BY DEF ServerInit, Unsent
  <2> QED
    BY <2>1 DEF HeadersInv, Reach
<1>2. ServerTypeOK /\ HeadersAll /\ [ServerNext]_all => HeadersAll'
  <2> SUFFICES ASSUME ServerTypeOK, HeadersAll, [ServerNext]_all PROVE HeadersAll'
    OBVIOUS
  <2>1. ASSUME UNCHANGED exchange, registered' => registered PROVE HeadersAll'
    BY <2>1 DEF exchange, HeadersAll, HeadersReach, HeadersInv, Reach
  <2>2. SetupStep \/ LimiterAlone \/ UNCHANGED all => UNCHANGED <<exchange, registered>>
    BY DEF SetupStep, EnterHook, HookRoute, HookUse, Calling, LeaveHook, SetupRoutes,
           LimiterAlone, all, server
  <2>4. Unload => UNCHANGED exchange /\ registered
    BY DEF Unload
  <2> QED
    BY <2>1, <2>2, <2>4, RequestKeepsHeaders DEF ServerNext
<1>3. HeadersAll => HeadersReach
  BY DEF HeadersAll
<1> QED
  BY <1>1, <1>2, <1>3, ServerTypes, PTL DEF ServerSpec
-----------------------------------------------------------------------------
(* Credentials                                                             *)

\* The requests of c that the limiter let through and basicauth has not seen.
Waiting(c) == {r \in Requests : at[r] = "auth" /\ client[r] = c}

\* The limiter's history stays when a request is not let through.
LEMMA HistoryStays ==
  Tick \/ StartLoop \/ Close \/ Cleanup \/ EndLoop \/ (\E c \in Clients : Deny(c))
    => UNCHANGED granted
BY DEF Tick, StartLoop, Close, Cleanup, CleanupWith, EndLoop, Deny

LEMMA CountsAreNumbers ==
  ASSUME ServerTypeOK, TypeOK, NEW c \in Clients
  PROVE  /\ IsFiniteSet(Waiting(c)) /\ Cardinality(Waiting(c)) \in Nat
         /\ Len(granted[c]) \in Nat /\ checked[c] \in Nat
<1>1. Waiting(c) \in SUBSET Requests
  BY DEF Waiting
<1>2. IsFiniteSet(Waiting(c))
  BY <1>1, RequestsAssumption, FS_Subset
<1>3. Cardinality(Waiting(c)) \in Nat
  BY ONLY <1>2, FS_CardinalityType
<1>4. granted[c] \in Seq(0..MaxTime)
  BY DEF TypeOK
<1>5. Len(granted[c]) \in Nat
  BY ONLY <1>4
<1>6. checked[c] \in Nat
  BY DEF ServerTypeOK
<1> QED
  BY <1>2, <1>3, <1>5, <1>6

LEMMA ChecksStep ==
  ASSUME ServerTypeOK, TypeOK, ChecksAreCounted, ServerNext
  PROVE  ChecksAreCounted'
<1> SUFFICES ASSUME NEW c \in Clients
             PROVE  checked'[c] + Cardinality(Waiting(c)') <= Len(granted'[c])
  BY DEF ChecksAreCounted, Waiting
<1>0. checked[c] + Cardinality(Waiting(c)) <= Len(granted[c])
  BY DEF ChecksAreCounted, Waiting
<1>1. /\ IsFiniteSet(Waiting(c)) /\ Cardinality(Waiting(c)) \in Nat
      /\ Len(granted[c]) \in Nat /\ checked[c] \in Nat
  BY CountsAreNumbers
<1>2. ASSUME Waiting(c)' = Waiting(c), UNCHANGED checked, UNCHANGED granted
      PROVE  checked'[c] + Cardinality(Waiting(c)') <= Len(granted'[c])
  BY <1>0, <1>2
<1>3. SetupStep => Waiting(c)' = Waiting(c) /\ UNCHANGED <<checked, granted>>
  BY DEF SetupStep, EnterHook, HookRoute, HookUse, Calling, LeaveHook, SetupRoutes, vars,
         exchange, Waiting
<1>4. Unload => Waiting(c)' = Waiting(c) /\ UNCHANGED <<checked, granted>>
  BY DEF Unload, vars, exchange, Waiting
<1>5. LimiterAlone => Waiting(c)' = Waiting(c) /\ UNCHANGED <<checked, granted>>
  BY HistoryStays DEF LimiterAlone, server, exchange, Waiting
<1>6. ASSUME NEW r \in Requests, RequestStep(r)
      PROVE  checked'[c] + Cardinality(Waiting(c)') <= Len(granted'[c])
  <2> USE DEF ServerTypeOK, Goto
  <2>1. ASSUME NEW d \in Clients, Arrive(r, d)
        PROVE  Waiting(c)' = Waiting(c) /\ UNCHANGED <<checked, granted>>
    BY <2>1 DEF Arrive, Waiting, vars
  <2>2. CASE Admit(r)
    <3>1. at[r] = "limit" /\ at' = [at EXCEPT ![r] = "auth"] /\ UNCHANGED <<client, checked>>
      BY <2>2 DEF Admit
    <3>2. client[r] \in Clients /\ Grant(client[r])
      BY <2>2 DEF Admit, AllowFirst, AllowMore
    <3>3. CASE client[r] = c
      <4>1. Waiting(c)' = Waiting(c) \cup {r} /\ r \notin Waiting(c)
        BY <3>1, <3>3 DEF Waiting
      <4>2. Cardinality(Waiting(c)') = Cardinality(Waiting(c)) + 1
        BY <1>1, <4>1, FS_AddElement
      <4>3. Len(granted'[c]) = Len(granted[c]) + 1
        BY <3>2, <3>3, Appended
      <4>4. checked'[c] = checked[c]
        BY <3>1
      <4> QED
        BY ONLY <1>0, <1>1, <4>2, <4>3, <4>4, SMT
    <3>4. CASE client[r] # c
      <4>1. Waiting(c)' = Waiting(c)
        BY <3>1, <3>4 DEF Waiting
      <4>2. granted'[c] = granted[c]
        BY <3>2, <3>4 DEF Grant, TypeOK
      <4> QED
        BY <1>0, <3>1, <4>1, <4>2
    <3> QED
      BY <3>3, <3>4
  <2>3. CASE AuthPass(r) \/ AuthFail(r)
    <3>1. /\ at[r] = "auth" /\ \E to \in {"headers", "over"} : at' = [at EXCEPT ![r] = to]
          /\ UNCHANGED <<client, granted>> /\ See(r)
      BY <2>3 DEF AuthPass, AuthFail, vars
    <3>2. client[r] \in Clients
      OBVIOUS
    <3>3. CASE client[r] = c
      <4>1. Waiting(c)' = Waiting(c) \ {r} /\ r \in Waiting(c)
        BY <3>1, <3>3 DEF Waiting
      <4>2. Cardinality(Waiting(c)') = Cardinality(Waiting(c)) - 1
        BY <1>1, <4>1, FS_RemoveElement
      <4>3. checked'[c] = checked[c] + 1
        BY <3>1, <3>3 DEF See
      <4>4. granted'[c] = granted[c]
        BY <3>1
      <4> QED
        BY ONLY <1>0, <1>1, <4>2, <4>3, <4>4, SMT
    <3>4. CASE client[r] # c
      <4>1. Waiting(c)' = Waiting(c)
        BY <3>1, <3>4 DEF Waiting
      <4>2. checked'[c] = checked[c]
        BY <3>1, <3>4 DEF See
      <4> QED
        BY <1>0, <3>1, <4>1, <4>2
    <3> QED
      BY <3>3, <3>4
  <2>4. ASSUME at[r] # "auth", at'[r] # "auth", \A q \in Requests \ {r} : at'[q] = at[q],
               UNCHANGED <<client, checked, granted>>
        PROVE  Waiting(c)' = Waiting(c)
    BY <2>4 DEF Waiting
  <2>5. CASE Limited(r)
    <3>1. UNCHANGED granted
      BY <2>5, HistoryStays DEF Limited
    <3> QED
      BY <1>2, <2>4, <2>5, <3>1 DEF Limited
  <2>6. CASE SetHeaders(r) \/ OnResponse(r) \/ Flush(r) \/ Recycle(r)
    BY <1>2, <2>4, <2>6 DEF SetHeaders, OnResponse, Flush, Recycle, vars
  <2>7. ASSUME NEW S \in SUBSET Fields, NEW D \in SUBSET Fields, Handle(r, S, D) \/ Panic(r, S, D)
        PROVE  checked'[c] + Cardinality(Waiting(c)') <= Len(granted'[c])
    BY <1>2, <2>4, <2>7 DEF Handle, Panic, vars
  <2> QED
    BY <1>2, <1>6, <2>1, <2>2, <2>3, <2>5, <2>6, <2>7 DEF RequestStep
<1> QED
  BY <1>2, <1>3, <1>4, <1>5, <1>6 DEF ServerNext

\* Credentials are looked at only in requests the limiter has counted
\* (ratelimit.go:61, basicauth.go:56, server.go:49-54).
THEOREM Counting == ServerSpec => []ChecksAreCounted
<1>1. ServerInit => ChecksAreCounted
  <2> SUFFICES ASSUME ServerInit, NEW c \in Clients
               PROVE  checked[c] + Cardinality(Waiting(c)) <= Len(granted[c])
    BY DEF ChecksAreCounted, Waiting
  <2>1. Waiting(c) = {} /\ checked[c] = 0 /\ granted[c] = <<>>
    BY DEF ServerInit, Init, Waiting
  <2> QED
    BY <2>1, FS_EmptySet
<1>2. ServerTypeOK /\ TypeOK /\ ChecksAreCounted /\ [ServerNext]_all => ChecksAreCounted'
  <2>1. UNCHANGED all /\ ChecksAreCounted => ChecksAreCounted'
    BY DEF all, vars, server, exchange, ChecksAreCounted
  <2> QED
    BY <2>1, ChecksStep
<1> QED
  BY <1>1, <1>2, ServerTypes, LimiterInside, LimiterTypes, PTL DEF ServerSpec

\* Inside the server, too, no client gets more than twice the limit through
\* in a window (server.go:49-54, ratelimit.go:92-106).
THEOREM ServerBurst == ServerSpec => []BurstBound
BY LimiterInside, TwoWindows, PTL
=============================================================================
