----------------------------- MODULE ExpiringMap -----------------------------
(***************************************************************************)
(* What the server promises of its keys, without Entry objects, heap or    *)
(* hash table: a map whose keys may have an expiry.  A value is a string   *)
(* or a sorted set (of which only the members matter here).                *)
(*                                                                         *)
(* Requests and timers take turns.  A request changes at most the key it   *)
(* names, and answer says what it did: an update that is acknowledged has  *)
(* had its effect, and a request answered in any other way has had none.   *)
(* Timers remove only keys whose expiry has passed, the earliest first,    *)
(* and change nothing else.  A key keeps the kind of its value for as long *)
(* as it is present.                                                       *)
(***************************************************************************)
EXTENDS Integers

CONSTANTS Key, Val, Name, DEFAULT_TTL_MS, Nil

Never == -1

VARIABLES map,     \* the value of each key, or Nil
          expiry,  \* when it expires, or Never
          now,
          turn,    \* "requests", "timers" or "end"
          answer   \* the last answer: cmd, key, tag and val

vars == <<map, expiry, now, turn, answer>>

Present(k) == map[k] # Nil

StrVal(v) == [alt |-> "str", v |-> v]
SetVal(s) == [alt |-> "set", v |-> s]

-----------------------------------------------------------------------------
(* Requests. *)

\* The updates that are acknowledged: the command and the tag of the answer.
Acknowledged == {<<"SET", "nil">>, <<"ZADD", "nil">>, <<"ZREM", "int">>,
                 <<"DEL", "int">>, <<"EXPIRE", "nil">>, <<"ZRANK", "int">>}

\* A request for k is answered with the tag; it takes no time.
Reply(cmd, k, tag) ==
  /\ turn = "requests"
  /\ answer'.cmd = cmd /\ answer'.key = k /\ answer'.tag = tag
  /\ UNCHANGED <<now, turn>>

Renew(k) == expiry' = [expiry EXCEPT ![k] = now + DEFAULT_TTL_MS]

\* SET: the key gets its default lifetime.
PutStr(k, v) ==
  /\ Reply("SET", k, "nil")
  /\ Present(k) => map[k].alt = "str"
  /\ map' = [map EXCEPT ![k] = StrVal(v)]
  /\ Renew(k)

\* ZADD: so does this, when it makes the key and when it adds to it.
AddMember(k, n) ==
  /\ Reply("ZADD", k, "nil")
  /\ Present(k) => map[k].alt = "set"
  /\ map' = [map EXCEPT ![k] =
               SetVal((IF Present(k) THEN map[k].v ELSE {}) \cup {n})]
  /\ Renew(k)

\* ZREM.
RemoveMember(k, n) ==
  /\ Reply("ZREM", k, "int")
  /\ Present(k) /\ map[k].alt = "set"
  /\ map' = [map EXCEPT ![k] = SetVal(map[k].v \ {n})]
  /\ UNCHANGED expiry

\* The key is gone, and so is its expiry.
Drop(k) ==
  /\ Present(k)
  /\ map' = [map EXCEPT ![k] = Nil]
  /\ expiry' = [expiry EXCEPT ![k] = Never]

\* DEL.
Remove(k) == Reply("DEL", k, "int") /\ Drop(k)

\* EXPIRE: an expiry is removed, or set to a time that has not passed.
SetExpiry(k, t) ==
  /\ Reply("EXPIRE", k, "nil")
  /\ Present(k)
  /\ t = Never \/ t >= now
  /\ expiry' = [expiry EXCEPT ![k] = t]
  /\ UNCHANGED map

\* ZRANK renews the default lifetime.
Touch(k) ==
  /\ Reply("ZRANK", k, "int")
  /\ Present(k) /\ map[k].alt = "set"
  /\ Renew(k)
  /\ UNCHANGED map

\* What an answer says is so: a key that is not found is not there (the name
\* of a command may be unknown too), GET answers the string and TTL the
\* expiry.
Truthful(a) ==
  /\ a.tag = "ERR_NOT_FOUND" /\ a.cmd # "other" => ~ Present(a.key)
  /\ a.cmd = "GET" /\ a.tag = "str" => map[a.key] = StrVal(a.val)
  /\ a.cmd = "TTL" /\ a.tag = "int" =>
       Present(a.key) /\ a.val = expiry[a.key] /\ a.val # Never

\* Any other request, and any that is refused.
Query ==
  /\ turn = "requests"
  /\ <<answer'.cmd, answer'.tag>> \notin Acknowledged
  /\ Truthful(answer')
  /\ UNCHANGED <<map, expiry, now, turn>>

Request ==
  \/ Query
  \/ \E k \in Key :
       \/ \E v \in Val : PutStr(k, v)
       \/ \E n \in Name : AddMember(k, n) \/ RemoveMember(k, n)
       \/ Remove(k) \/ Touch(k) \/ SetExpiry(k, expiry'[k])

-----------------------------------------------------------------------------
(* Timers, and the end of the server. *)

TimersBegin ==
  /\ turn = "requests" /\ turn' = "timers"
  /\ UNCHANGED <<map, expiry, now, answer>>

\* A key goes by itself: after its expiry, and before any that expires later.
Expire(k) ==
  /\ turn = "timers"
  /\ expiry[k] # Never /\ expiry[k] < now
  /\ \A j \in Key : expiry[j] # Never => expiry[k] <= expiry[j]
  /\ Drop(k)
  /\ UNCHANGED <<now, turn, answer>>

TimersEnd ==
  /\ turn = "timers" /\ turn' \in {"requests", "end"}
  /\ UNCHANGED <<map, expiry, now, answer>>

\* The server ends.
Wipe ==
  /\ turn = "end"
  /\ map' = [k \in Key |-> Nil]
  /\ expiry' = [k \in Key |-> Never]
  /\ UNCHANGED <<now, turn, answer>>

Tick == now' = now + 1 /\ UNCHANGED <<map, expiry, turn, answer>>

Init ==
  /\ map = [k \in Key |-> Nil] /\ expiry = [k \in Key |-> Never] /\ now = 0
  /\ turn = "requests"
  /\ answer = [cmd |-> "none", key |-> Nil, tag |-> "nil", val |-> Nil]

Next ==
  \/ Request
  \/ TimersBegin \/ (\E k \in Key : Expire(k)) \/ TimersEnd \/ Wipe
  \/ Tick

Spec == Init /\ [][Next]_vars
=============================================================================
