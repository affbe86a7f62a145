------------------------------ MODULE HMRProofs ------------------------------
(***************************************************************************)
(* Proofs about HMR, for any number of pages, connections and broadcasts:  *)
(* its types, and that the map agrees with the connections.                *)
(***************************************************************************)
EXTENDS HMR, TLAPS

Locked == <<"lock", 0>>
Looping == <<"next", 0>>

LEMMA Counters == 
  ASSUME NEW n \in 0..MaxConnects, n < MaxConnects
  PROVE  n + 1 \in 1..MaxConnects
BY HMRBounds

LEMMA ReopenKeepsType ==
  ASSUME TypeOK, NEW p \in Pages, Reopen(p)
  PROVE  /\ opened' \in [Pages -> 0..MaxConnects]
         /\ link' \in [Pages -> 0..MaxConnects]
         /\ up' \subseteq Conns
         /\ inbox' \subseteq Conns
         /\ cpc' \in [Conns -> ConnPc]
<1> USE HMRBounds
<1>1. CASE opened[p] < MaxConnects
  <2>1. opened[p] + 1 \in 1..MaxConnects /\ <<p, opened[p] + 1>> \in Conns
    BY <1>1 DEF TypeOK, Conns
  <2>2. /\ opened' = [opened EXCEPT ![p] = opened[p] + 1]
        /\ link' = [link EXCEPT ![p] = opened[p] + 1]
        /\ up' = (up \ {<<p, link[p]>>}) \cup {<<p, opened[p] + 1>>}
        /\ inbox' = inbox \ {<<p, link[p]>>}
        /\ cpc' = [cpc EXCEPT ![<<p, opened[p] + 1>>] = "register"]
    BY <1>1 DEF Reopen
  <2>3. opened[p] + 1 \in 0..MaxConnects
    BY <2>1
  <2>4. "register" \in ConnPc
    BY DEF ConnPc
  <2>5. opened' \in [Pages -> 0..MaxConnects] /\ link' \in [Pages -> 0..MaxConnects]
    BY <2>2, <2>3 DEF TypeOK
  <2>6. cpc' \in [Conns -> ConnPc]
    BY <2>2, <2>4 DEF TypeOK
  <2> QED
    BY <2>1, <2>2, <2>5, <2>6 DEF TypeOK
<1>2. CASE ~(opened[p] < MaxConnects)
  BY <1>2 DEF Reopen, TypeOK
<1> QED
  BY <1>1, <1>2

LEMMA TypeStep == TypeOK /\ [Next]_vars => TypeOK'
<1> SUFFICES ASSUME TypeOK, [Next]_vars PROVE TypeOK'
  OBVIOUS
<1> USE HMRBounds DEF browser, hub
<1>1. ASSUME NEW p \in Pages, PageStep(p) PROVE TypeOK'
  <2>1. Reopen(p) /\ UNCHANGED <<latest, clients, bpc, todo, crashed>>
    BY <1>1 DEF PageStep, Open, Reload, Reconnect
  <2>2. shown' \in [Pages -> 0..MaxVersion]
    BY <1>1 DEF PageStep, Open, Reload, Reconnect, TypeOK
  <2> QED
    BY <2>1, <2>2, ReopenKeepsType DEF TypeOK
<1>2. ASSUME NEW c \in Conns, Break(c) PROVE TypeOK'
  BY <1>2 DEF Break, TypeOK
<1>3. ASSUME NEW c \in Conns, ConnStep(c) PROVE TypeOK'
  <2>1. cpc' \in [Conns -> ConnPc]
    BY <1>3 DEF ConnStep, Register, Greet, Greeted, ReadError, Unregister, ConnGoto, ConnPc, TypeOK
  <2>2. /\ clients' \subseteq Conns
        /\ up' \subseteq Conns
        /\ UNCHANGED <<latest, shown, link, opened, inbox, bpc, todo, crashed>>
    BY <1>3 DEF ConnStep, Register, Greet, Greeted, ReadError, Unregister, TypeOK
  <2> QED
    BY <2>1, <2>2 DEF TypeOK
<1>4. ASSUME NEW b \in Broadcasters, NEW to \in CastPc, bpc' = [bpc EXCEPT ![b] = to],
             NEW t \in SUBSET Conns, todo' = [todo EXCEPT ![b] = t],
             to \in {Idle, Locked} => t = {}
      PROVE  /\ bpc' \in [Broadcasters -> CastPc]
             /\ todo' \in [Broadcasters -> SUBSET Conns]
             /\ \A a \in Broadcasters : bpc'[a] \in {Idle, Locked} => todo'[a] = {}
  BY <1>4 DEF TypeOK, Locked
<1>5. Idle \in CastPc /\ Locked \in CastPc /\ Looping \in CastPc
  BY DEF CastPc, Locked, Looping
<1>6. \A c \in Conns : WriteTo(c) \in CastPc /\ WriteTo(c) \notin {Idle, Locked}
  BY DEF CastPc, WriteTo, Idle, Locked
<1>7. Looping \notin {Idle, Locked}
  BY DEF Looping, Idle, Locked
<1>8. ASSUME NEW b \in Broadcasters PROVE todo = [todo EXCEPT ![b] = todo[b]]
  BY DEF TypeOK
<1>9. \A b \in Broadcasters : bpc[b] \in {Idle, Locked} => todo[b] = {}
  BY DEF TypeOK, Locked
<1>10. ASSUME NEW b \in Broadcasters, Rebuilt(b) PROVE TypeOK'
  <2>1. latest' \in 1..MaxVersion
    BY <1>10 DEF Rebuilt, TypeOK
  <2>2. bpc' = [bpc EXCEPT ![b] = Locked] /\ todo' = [todo EXCEPT ![b] = {}]
    BY <1>8, <1>9, <1>10 DEF Rebuilt, CastGoto, Locked
  <2> QED
    BY <1>4, <1>5, <1>10, <2>1, <2>2 DEF Rebuilt, TypeOK, Locked
<1>11. ASSUME NEW b \in Broadcasters, CastStart(b) PROVE TypeOK'
  <2>1. /\ bpc' = [bpc EXCEPT ![b] = IF clients = {} THEN Idle ELSE Looping]
        /\ todo' = [todo EXCEPT ![b] = clients]
    BY <1>11 DEF CastStart, CastGoto, Looping
  <2> QED
    BY <1>4, <1>5, <1>7, <1>11, <2>1 DEF CastStart, TypeOK, Locked
<1>12. ASSUME NEW b \in Broadcasters, CastEnd(b) PROVE TypeOK'
  BY <1>4, <1>5, <1>12 DEF CastEnd, CastGoto, TypeOK, Locked
<1>13. ASSUME NEW b \in Broadcasters, NEW c \in Conns, CastWrite(b, c) PROVE TypeOK'
  <2>1. /\ bpc' = [bpc EXCEPT ![b] = WriteTo(c)]
        /\ todo' = [todo EXCEPT ![b] = todo[b] \ {c}]
        /\ todo[b] \ {c} \in SUBSET Conns
    BY <1>13 DEF CastWrite, CastGoto, TypeOK
  <2>2. crashed' \in BOOLEAN
    BY <1>13 DEF CastWrite, Written
  <2> QED
    BY <1>4, <1>6, <1>13, <2>1, <2>2 DEF CastWrite, TypeOK, Locked
<1>14. ASSUME NEW b \in Broadcasters, NEW c \in Conns, CastWritten(b, c) \/ CastError(b, c)
       PROVE  TypeOK'
  <2>1. /\ bpc' = [bpc EXCEPT ![b] = Looping]
        /\ todo' = [todo EXCEPT ![b] = todo[b]]
        /\ todo[b] \in SUBSET Conns
    BY <1>8, <1>14 DEF CastWritten, CastError, CastGoto, Looping, TypeOK
  <2>2. /\ crashed' \in BOOLEAN
        /\ inbox' \subseteq Conns
        /\ clients' \subseteq Conns
        /\ UNCHANGED <<latest, shown, link, opened, up, cpc>>
    BY <1>14 DEF CastWritten, CastError, TypeOK
  <2> QED
    BY <1>4, <1>5, <1>7, <2>1, <2>2 DEF TypeOK, Locked
<1>15. CASE CloseAll
  BY <1>15 DEF CloseAll, TypeOK
<1>16. CASE UNCHANGED vars
  BY <1>16 DEF vars, TypeOK
<1> QED
  BY <1>1, <1>2, <1>3, <1>10, <1>11, <1>12, <1>13, <1>14, <1>15, <1>16 DEF Next, CastStep

\* Every variable of the hub and of the pages keeps its type; a broadcast
\* that does not hold the lock has no client left to write to.
THEOREM TypeCorrect == Spec => []TypeOK
<1>1. Init => TypeOK
  <2> SUFFICES ASSUME Init PROVE TypeOK
    OBVIOUS
  <2>1. cpc \in [Conns -> ConnPc] /\ bpc \in [Broadcasters -> CastPc]
    BY DEF Init, ConnPc, CastPc
  <2>2. /\ latest \in 1..MaxVersion
        /\ shown \in [Pages -> 0..MaxVersion]
        /\ link \in [Pages -> 0..MaxConnects]
        /\ opened \in [Pages -> 0..MaxConnects]
    BY HMRBounds DEF Init
  <2>3. /\ todo \in [Broadcasters -> SUBSET Conns]
        /\ \A b \in Broadcasters : todo[b] = {}
    BY DEF Init
  <2> QED
    BY <2>1, <2>2, <2>3 DEF Init, TypeOK
<1> QED
  BY <1>1, TypeStep, PTL DEF Spec
-----------------------------------------------------------------------------
\* A connection nobody has opened yet has no goroutine.
Fresh == \A c \in Conns : c[2] > opened[c[1]] => cpc[c] = "none"

LEMMA ReopenKeepsClients ==
  ASSUME TypeOK, ClientsMatch, Fresh, NEW p \in Pages, Reopen(p), UNCHANGED clients
  PROVE  ClientsMatch' /\ Fresh'
<1>1. CASE opened[p] < MaxConnects
  <2> DEFINE new == <<p, opened[p] + 1>>
  <2>1. new \in Conns /\ new[1] = p /\ new[2] = opened[p] + 1 /\ opened[p] \in Nat
    BY <1>1, HMRBounds DEF TypeOK, Conns
  <2>2. /\ opened' = [opened EXCEPT ![p] = opened[p] + 1]
        /\ up' \subseteq up \cup {new}
        /\ cpc' = [cpc EXCEPT ![new] = "register"]
    BY <1>1 DEF Reopen
  <2>3. new \notin clients
    BY <2>1 DEF ClientsMatch, Fresh
  <2>4. ClientsMatch'
    BY <2>1, <2>2, <2>3 DEF ClientsMatch, TypeOK, Serving
  <2>5. ASSUME NEW c \in Conns, c[2] > opened'[c[1]] PROVE cpc'[c] = "none"
    <3>1. c[1] \in Pages /\ c[2] \in Nat /\ opened[c[1]] \in Nat
      BY HMRBounds DEF Conns, TypeOK
    <3>2. c # new /\ c[2] > opened[c[1]]
      BY <2>1, <2>2, <2>5, <3>1 DEF TypeOK
    <3> QED
      BY <2>1, <2>2, <3>2 DEF Fresh, TypeOK
  <2> QED
    BY <2>4, <2>5 DEF Fresh
<1>2. CASE ~(opened[p] < MaxConnects)
  BY <1>2 DEF Reopen, ClientsMatch, Fresh
<1> QED
  BY <1>1, <1>2

LEMMA ClientsStep == TypeOK /\ ClientsMatch /\ Fresh /\ [Next]_vars => ClientsMatch' /\ Fresh'
<1> SUFFICES ASSUME TypeOK, ClientsMatch, Fresh, [Next]_vars PROVE ClientsMatch' /\ Fresh'
  OBVIOUS
<1> USE DEF browser, hub
<1>1. ASSUME NEW p \in Pages, PageStep(p) PROVE ClientsMatch' /\ Fresh'
  BY <1>1, ReopenKeepsClients DEF PageStep, Open, Reload, Reconnect
<1>2. ASSUME NEW c \in Conns, Break(c) PROVE ClientsMatch' /\ Fresh'
  BY <1>2 DEF Break, ClientsMatch, Fresh
<1>3. ASSUME NEW c \in Conns, ConnStep(c) PROVE ClientsMatch' /\ Fresh'
  <2>1. opened' = opened /\ cpc[c] # "none" /\ \A d \in Conns \ {c} : cpc'[d] = cpc[d]
    BY <1>3 DEF ConnStep, Register, Greet, Greeted, ReadError, Unregister, ConnGoto, TypeOK
  <2>2. Fresh'
    BY <2>1 DEF Fresh
  <2>3. CASE Register(c)
    BY <2>1, <2>2, <2>3 DEF Register, ConnGoto, ClientsMatch, TypeOK, Serving
  <2>4. CASE Greet(c) \/ Greeted(c) \/ ReadError(c)
    BY <2>1, <2>2, <2>4 DEF Greet, Greeted, ReadError, ConnGoto, ClientsMatch, TypeOK, Serving
  <2>5. CASE Unregister(c)
    BY <2>1, <2>2, <2>5 DEF Unregister, ConnGoto, ClientsMatch, TypeOK, Serving
  <2> QED
    BY <1>3, <2>2, <2>3, <2>4, <2>5 DEF ConnStep
<1>4. ASSUME NEW b \in Broadcasters, Rebuilt(b) \/ CastStep(b) PROVE ClientsMatch' /\ Fresh'
  <2>1. UNCHANGED <<opened, up, cpc>>
    BY <1>4 DEF Rebuilt, CastStep, CastStart, CastEnd, CastWrite, CastWritten, CastError
  <2>2. \/ UNCHANGED clients
        \/ \E c \in Conns : c \notin up /\ clients' = clients \ {c}
    BY <1>4 DEF Rebuilt, CastStep, CastStart, CastEnd, CastWrite, CastWritten, CastError
  <2> QED
    BY <2>1, <2>2 DEF ClientsMatch, Fresh
<1>5. CASE CloseAll
  BY <1>5 DEF CloseAll, ClientsMatch, Fresh
<1>6. CASE UNCHANGED vars
  BY <1>6 DEF vars, ClientsMatch, Fresh
<1> QED
  BY <1>1, <1>2, <1>3, <1>4, <1>5, <1>6 DEF Next

\* A working connection that is served is in the map, and none that has
\* ended, whatever broadcasts delete meanwhile (hmr.go:55-68, 115-121).
THEOREM MapMatches == Spec => []ClientsMatch
<1>1. Init => ClientsMatch /\ Fresh
  BY DEF Init, ClientsMatch, Fresh, Serving
<1> QED
  BY <1>1, ClientsStep, TypeCorrect, PTL DEF Spec
=============================================================================
