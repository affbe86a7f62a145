---------------------------- MODULE FixedWindow ----------------------------
(***************************************************************************)
(* What the rate limiter of plugins/ratelimit promises a client: from its  *)
(* first request on, a window of fixed length is open in which `Limit'     *)
(* requests are let through and the others are refused.  Nothing is stored *)
(* for a client without an open window, so there is nothing to clean up.   *)
(***************************************************************************)
EXTENDS Naturals

CONSTANTS
  Clients,   \* client addresses
  Limit,     \* requests per window
  Window     \* length of a window

VARIABLES
  clock,     \* the time
  used,      \* used[c]: requests let through in c's window, 0 if none is open
  ends,      \* ends[c]: last instant of c's window, 0 if none is open
  answer     \* the last decision

quota == <<clock, used, ends, answer>>

Init ==
  /\ clock = 0
  /\ used = [c \in Clients |-> 0]
  /\ ends = [c \in Clients |-> 0]
  /\ answer = <<>>

\* Time passes; windows that are over close.
Advance ==
  /\ clock' = clock + 1
  /\ used' = [c \in Clients |-> IF ends[c] < clock' THEN 0 ELSE used[c]]
  /\ ends' = [c \in Clients |-> IF ends[c] < clock' THEN 0 ELSE ends[c]]
  /\ UNCHANGED answer

OpenWindow(c) ==
  /\ used[c] = 0
  /\ used' = [used EXCEPT ![c] = 1]
  /\ ends' = [ends EXCEPT ![c] = clock + Window]
  /\ answer' = <<c, TRUE>>
  /\ UNCHANGED clock

LetThrough(c) ==
  /\ used[c] \in 1..(Limit - 1)
  /\ used' = [used EXCEPT ![c] = @ + 1]
  /\ answer' = <<c, TRUE>>
  /\ UNCHANGED <<clock, ends>>

Refuse(c) ==
  /\ used[c] = Limit
  /\ answer' = <<c, FALSE>>
  /\ UNCHANGED <<clock, used, ends>>

Next ==
  \/ Advance
  \/ \E c \in Clients : OpenWindow(c) \/ LetThrough(c) \/ Refuse(c)

Spec == Init /\ [][Next]_quota
=============================================================================
