----------------------------- MODULE RateLimit -----------------------------
(***************************************************************************)
(* services/ratelimit.py: the sliding window behind every "too many        *)
(* attempts".  A queue of event times (one key of a Limiter) is a sequence *)
(* of naturals in the order the events were recorded.                      *)
(***************************************************************************)
EXTENDS Integers, Sequences

CONSTANTS LIMIT,    \* Limiter.limit: events a key may record in one window
          WINDOW    \* Limiter.window

ASSUME RateLimitAssumption == LIMIT \in Nat \ {0} /\ WINDOW \in Nat \ {0}

(* What _prune leaves of a queue: the events of the last WINDOW. *)
Prune(q, now) == SelectSeq(q, LAMBDA t : t > now - WINDOW)

(* Mutated form: one event too many. *)
RetryAfterOneMore(q, now) ==
    LET p == Prune(q, now) IN
    IF Len(p) <= LIMIT THEN 0 ELSE Head(p) + WINDOW - now + 1

(* How long the key has to wait; 0 stands for Python's None, "may act now". *)
RetryAfter(q, now) ==
    LET p == Prune(q, now) IN
    IF Len(p) < LIMIT THEN 0 ELSE Head(p) + WINDOW - now + 1

MayAct(q, now) == RetryAfter(q, now) = 0

(* add(): record one more event.  The events a later _prune would drop are
   dropped here already: no reader looks at a queue without pruning it. *)
Add(q, now) == Append(Prune(q, now), now)
============================================================================
