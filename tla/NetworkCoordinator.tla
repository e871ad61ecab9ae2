------------------------- MODULE NetworkCoordinator -------------------------
(***************************************************************************)
(* NetworkTransactionCoordinator (app/network_coordinator.py): the         *)
(* lifecycle of each correlation.  An operator named for a method is what  *)
(* the method does to the state; NetworkFlow says who calls it and when.   *)
(*                                                                         *)
(* A correlation key is a value; a message is its key and whether its MTI  *)
(* answers the request's.                                                  *)
(***************************************************************************)
EXTENDS Integers

CONSTANTS
  Correlations,  \* STAN and RRN of the attempts
  MaxTime,       \* bound on the clock
  None

ASSUME TimeAssumption == MaxTime \in Nat /\ None \notin Nat

VARIABLES
  pending,    \* _pending: the deadline of each pending correlation
  completed,  \* _completed
  timedOut    \* _timed_out

coordinatorVars == <<pending, completed, timedOut>>

Times == 0..MaxTime

\* A correlation is in one of the three collections at a time.
CoordinatorTypeOK ==
  /\ pending \in [Correlations -> Times \union {None}]
  /\ completed \subseteq Correlations
  /\ timedOut \subseteq Correlations \ completed
  /\ \A c \in completed \union timedOut : pending[c] = None

CoordinatorInit ==
  /\ pending = [c \in Correlations |-> None]
  /\ completed = {}
  /\ timedOut = {}

Pending(c) == pending[c] # None

\* register: "correlation key is already in use"
BugReusesCompleted(c) == ~Pending(c) /\ c \notin timedOut
Unused(c) == ~Pending(c) /\ c \notin completed /\ c \notin timedOut

Register(c, deadline) ==
  /\ Unused(c)
  /\ pending' = [pending EXCEPT ![c] = deadline]
  /\ UNCHANGED <<completed, timedOut>>

\* cancel, of a pending correlation
Cancel(c) ==
  /\ pending' = [pending EXCEPT ![c] = None]
  /\ UNCHANGED <<completed, timedOut>>

Expired(now) == {c \in Correlations : Pending(c) /\ pending[c] <= now}

\* sorted() compares the expired keys; NetworkCorrelation defines no order, so
\* two of them raise TypeError before anything is changed.
Sortable(keys) == \A b, c \in keys : b = c

BugForgetsExpired(keys) == timedOut
BugReplacesTimedOut(keys) == keys
WithExpired(keys) == timedOut \union keys

Expire(now) ==
  /\ pending' = [c \in Correlations |-> IF c \in Expired(now) THEN None ELSE pending[c]]
  /\ timedOut' = WithExpired(Expired(now))
  /\ UNCHANGED completed

\* handle_response: its disposition of a response that carries the request's
\* key c and the right MTI; any other response is MISMATCHED and changes nothing.
Disposition(c, now) ==
  CASE c \in completed -> "duplicate"
    [] c \notin completed /\ c \in timedOut -> "late"
    [] Pending(c) /\ pending[c] <= now -> "timed_out"
    [] Pending(c) /\ pending[c] > now -> "accepted"
    [] OTHER -> "mismatched"

BugLateNotCompleted(c, disposition) ==
  completed' = IF disposition = "accepted" THEN completed \union {c} ELSE completed
Complete(c, disposition) ==
  completed' = IF disposition \in {"accepted", "late"} THEN completed \union {c} ELSE completed

HandleResponse(c, disposition) ==
  /\ Complete(c, disposition)
  /\ pending' = IF disposition \in {"accepted", "timed_out"}
                THEN [pending EXCEPT ![c] = None] ELSE pending
  /\ timedOut' = CASE disposition = "late" -> timedOut \ {c}
                   [] disposition = "timed_out" -> timedOut \union {c}
                   [] OTHER -> timedOut
=============================================================================
