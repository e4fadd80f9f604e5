------------------------------- MODULE Redis -------------------------------
(***************************************************************************)
(* What RedisService (Nest_Redis) asks of a Redis key: SET EX, GET, INCR,  *)
(* EXPIRE, TTL and EXISTS.  An entry is the value of a key and its TTL in  *)
(* Redis's own terms: -2 for no such key, -1 for a key that never expires. *)
(***************************************************************************)
EXTENDS Integers

Missing    == -2
Persistent == -1

Absent == [val |-> 0, ttl |-> Missing]
Exists(e) == e.ttl # Missing

SetEx(v, t) == [val |-> v, ttl |-> t]

\* INCR creates a missing key, without an expiry, and keeps the expiry it finds.
Incr(e) == IF Exists(e) THEN [e EXCEPT !.val = @ + 1] ELSE [val |-> 1, ttl |-> Persistent]

Expire(e, t) == IF Exists(e) THEN [e EXCEPT !.ttl = t] ELSE e

\* One second passes.
Age(e) == IF e.ttl = 1 THEN Absent ELSE IF e.ttl > 1 THEN [e EXCEPT !.ttl = @ - 1] ELSE e
=============================================================================
