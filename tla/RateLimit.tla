----------------------------- MODULE RateLimit -----------------------------
(***************************************************************************)
(* The rate limiter of plugins/ratelimit/ratelimit.go: a map from client   *)
(* addresses to the count and the end of their current window, used by the *)
(* goroutines that serve requests and swept by the goroutine Init starts.  *)
(* Both take the time after they have locked mu, so one decision and one   *)
(* sweep are an action each.                                               *)
(***************************************************************************)
EXTENDS Naturals, Sequences

CONSTANTS
  Clients,   \* client addresses
  Limit,     \* p.limit
  Window,    \* p.window
  MaxTime    \* bound: the clock stops here

ASSUME LimitAssumption == Limit \in Nat \ {0}
ASSUME WindowAssumption == Window \in Nat \ {0}
ASSUME TimeAssumption == MaxTime \in Nat

VARIABLES
  now,       \* the time
  known,     \* the keys of p.requests
  count,     \* count[c] of the entry of c, 0 if there is none
  resetAt,   \* resetAt[c] of the entry of c, 0 if there is none
  loop,      \* cleanupLoop: "new", "running" or "ended"
  stopped,   \* stopChan is closed
  verdict,   \* what allow returned last
  granted    \* history: granted[c], when c was let through

vars == <<now, known, count, resetAt, loop, stopped, verdict, granted>>

TypeOK ==
  /\ now \in 0..MaxTime
  /\ known \subseteq Clients
  /\ count \in [Clients -> 0..Limit]
  /\ resetAt \in [Clients -> 0..(MaxTime + Window)]
  /\ loop \in {"new", "running", "ended"}
  /\ stopped \in BOOLEAN
  /\ verdict \in {<<>>} \cup (Clients \X BOOLEAN)
  /\ granted \in [Clients -> Seq(0..MaxTime)]

Init ==
  /\ now = 0
  /\ known = {}
  /\ count = [c \in Clients |-> 0]
  /\ resetAt = [c \in Clients |-> 0]
  /\ loop = "new"
  /\ stopped = FALSE
  /\ verdict = <<>>
  /\ granted = [c \in Clients |-> <<>>]

\* now.After(info.resetAt)
Over(c) == now > resetAt[c]

Tick ==
  /\ now < MaxTime
  /\ now' = now + 1
  /\ UNCHANGED <<known, count, resetAt, loop, stopped, verdict, granted>>

Grant(c) ==
  /\ verdict' = <<c, TRUE>>
  /\ granted' = [granted EXCEPT ![c] = Append(@, now)]

\* allow: no entry, or one whose window is over.
AllowFirst(c) ==
  /\ c \notin known \/ Over(c)
  /\ known' = known \cup {c}
  /\ count' = [count EXCEPT ![c] = 1]
  /\ resetAt' = [resetAt EXCEPT ![c] = now + Window]
  /\ Grant(c)
  /\ UNCHANGED <<now, loop, stopped>>

AllowMoreCopy(c) ==   \* wrong: a copy of the entry is counted up
  /\ c \in known /\ ~Over(c)
  /\ count[c] < Limit
  /\ Grant(c)
  /\ UNCHANGED <<now, known, count, resetAt, loop, stopped>>

AllowMore(c) ==
  /\ c \in known /\ ~Over(c)
  /\ count[c] < Limit
  /\ count' = [count EXCEPT ![c] = @ + 1]
  /\ Grant(c)
  /\ UNCHANGED <<now, known, resetAt, loop, stopped>>

Deny(c) ==
  /\ c \in known /\ ~Over(c)
  /\ count[c] >= Limit
  /\ verdict' = <<c, FALSE>>
  /\ UNCHANGED <<now, known, count, resetAt, loop, stopped, granted>>

\* Init starts the loop; Close closes stopChan; requests go on being served.
StartLoop ==
  /\ loop = "new"
  /\ loop' = "running"
  /\ UNCHANGED <<now, known, count, resetAt, stopped, verdict, granted>>

Close ==
  /\ ~stopped
  /\ stopped' = TRUE
  /\ UNCHANGED <<now, known, count, resetAt, loop, verdict, granted>>

CleanupWith(keep) ==
  /\ loop = "running"
  /\ known' = keep
  /\ count' = [c \in Clients |-> IF c \in keep THEN count[c] ELSE 0]
  /\ resetAt' = [c \in Clients |-> IF c \in keep THEN resetAt[c] ELSE 0]
  /\ UNCHANGED <<now, loop, stopped, verdict, granted>>

CleanupEarly == CleanupWith({c \in known : now < resetAt[c]})   \* wrong: off by one

\* A tick of the cleanup timer: its period is left open.
Cleanup == CleanupWith({c \in known : ~Over(c)})

EndLoop ==
  /\ loop = "running" /\ stopped
  /\ loop' = "ended"
  /\ UNCHANGED <<now, known, count, resetAt, stopped, verdict, granted>>

Next ==
  \/ Tick \/ StartLoop \/ Close \/ Cleanup \/ EndLoop
  \/ \E c \in Clients : AllowFirst(c) \/ AllowMore(c) \/ Deny(c)

Spec == Init /\ [][Next]_vars

-----------------------------------------------------------------------------
\* The window of c is open.
Live(c) == c \in known /\ ~Over(c)

Q == INSTANCE FixedWindow WITH
       clock  <- now,
       used   <- [c \in Clients |-> IF Live(c) THEN count[c] ELSE 0],
       ends   <- [c \in Clients |-> IF Live(c) THEN resetAt[c] ELSE 0],
       answer <- verdict

\* The sweep cannot be noticed: whenever it runs, also between a refusal and
\* a retry or at the instant a window ends, clients are answered as if
\* entries were never deleted (ratelimit.go:92-106, 116-123).
ImplementsFixedWindow == Q!Spec

\* However requests, sweeps and window ends interleave, no client gets more
\* than twice the limit through in any interval as long as a window: of
\* 2 * Limit + 1 requests, the last comes later than a window after the
\* first (ratelimit.go:92-106, 116-123).
BurstBound ==
  \A c \in Clients : \A i \in DOMAIN granted[c] :
    i + 2 * Limit \in DOMAIN granted[c] =>
      granted[c][i + 2 * Limit] > granted[c][i] + Window
=============================================================================
