------------------------------ MODULE Keyspace ------------------------------
(***************************************************************************)
(* The commands of the server (Server::do_request and the do_* functions), *)
(* the Entry objects they create and delete, and the expiry of entries in  *)
(* process_timers.                                                         *)
(*                                                                         *)
(* g_data maps a key to its Entry object (what HashMap promises), and      *)
(* deadline is the item of an Entry in ttl_heap (what TtlHeap promises): a *)
(* deadline of an object that was deleted is a dangling pointer in the     *)
(* heap.  Of a sorted set only the member names are kept; what queries     *)
(* list is a matter of the set's own tree.  A numeric argument is what     *)
(* stod, stol and stoi make of it: a number ("ok"), invalid_argument       *)
(* ("invalid") or out_of_range ("range").                                  *)
(***************************************************************************)
EXTENDS Integers, FiniteSets

CONSTANTS
  Key, Val, Name,
  Obj,              \* memory for Entry objects
  Ttl,              \* arguments of EXPIRE that are numbers
  Cmds,             \* the commands clients send
  DEFAULT_TTL_MS, MAX_WORKS,
  MaxTime,          \* bound on the clock
  Nil               \* nullptr, and no value

ASSUME TimeAssumption ==
  /\ Ttl \subseteq Int /\ DEFAULT_TTL_MS \in Nat /\ MaxTime \in Nat
  /\ MAX_WORKS \in Nat \ {0}

Value == [alt : {"str"}, v : Val] \cup [alt : {"set"}, v : SUBSET Name]
Entry == [key : Key, type : {"E_STR", "E_SET"}, val : Value]

ASSUME NilAssumption == Nil \notin Obj /\ Nil \notin Entry /\ Nil \notin Value

Never == -1                              \* heap_idx is -1
Number == {"ok", "invalid", "range"}

VARIABLES
  status,      \* "run", "stopped", "terminated" (uncaught exception), "ub"
  is_running,
  pc,          \* "requests", "timers" or "end": where main_loop is
  g_data,      \* the Entry of a key, or Nil
  obj,         \* the Entry objects; Nil where the memory is free
  deadline,    \* their items in ttl_heap, or Never
  now, tnow,   \* the clock, and now_ms of process_timers
  works,       \* the counter of process_timers
  reply        \* the last response

store == <<g_data, obj, deadline>>
loop == <<is_running, pc, now, tnow, works>>
vars == <<status, loop, store, reply>>

-----------------------------------------------------------------------------
(* Helpers of the commands. *)

Answer(cmd, k, tag, val) ==
  reply' = [cmd |-> cmd, key |-> k, tag |-> tag, val |-> val]

out_err(cmd, k, code) == Answer(cmd, k, code, Nil)

\* What the handlers' catch clauses make of an exception.
ErrorOf(arg) == IF arg = "invalid" THEN "ERR_BAD_TYPE" ELSE "ERR_UNEXPECTED"

data_lookup(k) == g_data[k]
Found(k) == data_lookup(k) # Nil
HasType(k, type) == Found(k) /\ obj[g_data[k]].type = type

StrVal(v) == [alt |-> "str", v |-> v]
SetVal(s) == [alt |-> "set", v |-> s]

\* Memory for a new Entry.
Fresh == CHOOSE o \in Obj : obj[o] = Nil

\* The deadlines after entry_set_ttl(o, ttl).
entry_set_ttl(o, ttl) ==
  [deadline EXCEPT ![o] = IF ttl < 0 THEN Never ELSE now + ttl]

Mut_entry_del(o) ==
  /\ obj' = [obj EXCEPT ![o] = Nil]
  /\ UNCHANGED deadline

entry_del(o) ==
  /\ deadline' = entry_set_ttl(o, -1)
  /\ obj' = [obj EXCEPT ![o] = Nil]

\* A new Entry with the default lifetime, inserted into g_data.  Obj bounds
\* the Entry objects there can be at a time.
Create(k, type, val) ==
  /\ \E o \in Obj : obj[o] = Nil
  /\ obj' = [obj EXCEPT ![Fresh] = [key |-> k, type |-> type, val |-> val]]
  /\ g_data' = [g_data EXCEPT ![k] = Fresh]
  /\ deadline' = entry_set_ttl(Fresh, DEFAULT_TTL_MS)

\* The value of an existing Entry is replaced and its lifetime renewed.
Renew(k, val) ==
  /\ obj' = [obj EXCEPT ![g_data[k]].val = val]
  /\ deadline' = entry_set_ttl(g_data[k], DEFAULT_TTL_MS)
  /\ UNCHANGED g_data

\* The two tests most commands on sorted sets begin with.
NoSet(cmd, k) ==
  /\ ~ HasType(k, "E_SET")
  /\ out_err(cmd, k, IF Found(k) THEN "ERR_BAD_TYPE" ELSE "ERR_NOT_FOUND")
  /\ UNCHANGED <<status, store>>

Members(k) == obj[g_data[k]].val.v

-----------------------------------------------------------------------------
(* The commands. *)

do_get(k) ==
  /\ \/ ~ Found(k) /\ out_err("GET", k, "ERR_NOT_FOUND")
     \/ Found(k) /\ ~ HasType(k, "E_STR") /\ out_err("GET", k, "ERR_BAD_TYPE")
     \/ HasType(k, "E_STR") /\ Answer("GET", k, "str", obj[g_data[k]].val.v)
  /\ UNCHANGED <<status, store>>

Mut_do_set(k, v) ==
  /\ \/ Found(k) /\ Renew(k, StrVal(v))
     \/ ~ Found(k) /\ Create(k, "E_STR", StrVal(v))
  /\ Answer("SET", k, "nil", Nil)
  /\ UNCHANGED status

do_set(k, v) ==
  /\ \/ /\ Found(k) /\ ~ HasType(k, "E_STR")
        /\ out_err("SET", k, "ERR_BAD_TYPE")
        /\ UNCHANGED store
     \/ HasType(k, "E_STR") /\ Renew(k, StrVal(v)) /\ Answer("SET", k, "nil", Nil)
     \/ /\ ~ Found(k)
        /\ Create(k, "E_STR", StrVal(v))
        /\ Answer("SET", k, "nil", Nil)
  /\ UNCHANGED status

do_del(k) ==
  /\ \/ ~ Found(k) /\ out_err("DEL", k, "ERR_NOT_FOUND") /\ UNCHANGED store
     \/ /\ Found(k)
        /\ g_data' = [g_data EXCEPT ![k] = Nil]
        /\ entry_del(g_data[k])
        /\ Answer("DEL", k, "int", 1)
  /\ UNCHANGED status

Mut_do_zadd(k, score, n) ==
  /\ \/ score # "ok" /\ out_err("ZADD", k, ErrorOf(score)) /\ UNCHANGED store
     \/ /\ score = "ok"
        /\ Create(k, "E_SET", SetVal({n}))
        /\ Answer("ZADD", k, "nil", Nil)
  /\ UNCHANGED status

\* The score is parsed before the type of the entry is looked at.
do_zadd(k, score, n) ==
  /\ \/ score # "ok" /\ out_err("ZADD", k, ErrorOf(score)) /\ UNCHANGED store
     \/ /\ score = "ok" /\ ~ Found(k)
        /\ Create(k, "E_SET", SetVal({n}))
        /\ Answer("ZADD", k, "nil", Nil)
     \/ /\ score = "ok" /\ Found(k) /\ ~ HasType(k, "E_SET")
        /\ out_err("ZADD", k, "ERR_BAD_TYPE")
        /\ UNCHANGED store
     \/ /\ score = "ok" /\ HasType(k, "E_SET")
        /\ Renew(k, SetVal(Members(k) \cup {n}))
        /\ Answer("ZADD", k, "nil", Nil)
  /\ UNCHANGED status

\* The result of ZSet::rem is not used: the answer is 1 in any case.
do_zrem(k, n) ==
  \/ NoSet("ZREM", k)
  \/ /\ HasType(k, "E_SET")
     /\ obj' = [obj EXCEPT ![g_data[k]].val = SetVal(Members(k) \ {n})]
     /\ Answer("ZREM", k, "int", 1)
     /\ UNCHANGED <<status, g_data, deadline>>

\* ZQUERYGE and ZQUERYLE; arg is the first of their numbers that is not one,
\* or "ok".
do_zquery(k, arg) ==
  \/ NoSet("ZQUERY", k)
  \/ /\ HasType(k, "E_SET")
     /\ \/ arg # "ok" /\ out_err("ZQUERY", k, ErrorOf(arg))
        \/ arg = "ok" /\ Answer("ZQUERY", k, "arr", Nil)
     /\ UNCHANGED <<status, store>>

\* ZRANK renews the lifetime, whether the set has the name or not.
do_zrank(k) ==
  \/ NoSet("ZRANK", k)
  \/ /\ HasType(k, "E_SET")
     /\ deadline' = entry_set_ttl(g_data[k], DEFAULT_TTL_MS)
     /\ Answer("ZRANK", k, "int", Nil)
     /\ UNCHANGED <<status, g_data, obj>>

\* Nothing catches what stod throws here.
do_zcount(k, arg) ==
  \/ NoSet("ZCOUNT", k)
  \/ /\ HasType(k, "E_SET")
     /\ \/ arg # "ok" /\ status' = "terminated" /\ UNCHANGED reply
        \/ arg = "ok" /\ Answer("ZCOUNT", k, "int", Nil) /\ UNCHANGED status
     /\ UNCHANGED store

do_expire(k, arg, ttl) ==
  /\ \/ ~ Found(k) /\ out_err("EXPIRE", k, "ERR_NOT_FOUND") /\ UNCHANGED deadline
     \/ /\ Found(k) /\ arg # "ok"
        /\ out_err("EXPIRE", k, ErrorOf(arg))
        /\ UNCHANGED deadline
     \/ /\ Found(k) /\ arg = "ok"
        /\ deadline' = entry_set_ttl(g_data[k], ttl)
        /\ Answer("EXPIRE", k, "nil", Nil)
  /\ UNCHANGED <<status, g_data, obj>>

\* ttl_heap is indexed with heap_idx even if that is -1.
do_ttl(k) ==
  /\ \/ ~ Found(k) /\ out_err("TTL", k, "ERR_NOT_FOUND") /\ UNCHANGED status
     \/ /\ Found(k) /\ deadline[g_data[k]] # Never
        /\ Answer("TTL", k, "int", deadline[g_data[k]])
        /\ UNCHANGED status
     \/ /\ Found(k) /\ deadline[g_data[k]] = Never
        /\ status' = "ub" /\ UNCHANGED reply
  /\ UNCHANGED store

\* do_request, for the command c with the key k.
do_request(c, k) ==
  \/ c = "GET" /\ do_get(k)
  \/ c = "SET" /\ \E v \in Val : do_set(k, v)
  \/ c = "DEL" /\ do_del(k)
  \/ c = "ZADD" /\ \E s \in Number, n \in Name : do_zadd(k, s, n)
  \/ c = "ZREM" /\ \E n \in Name : do_zrem(k, n)
  \/ c = "ZQUERY" /\ \E a \in Number : do_zquery(k, a)
  \/ c = "ZCOUNT" /\ \E a \in Number : do_zcount(k, a)
  \/ c = "ZRANK" /\ do_zrank(k)
  \/ c = "EXPIRE" /\ \E a \in Number, ttl \in Ttl : do_expire(k, a, ttl)
  \/ c = "TTL" /\ do_ttl(k)

Request ==
  /\ status = "run" /\ pc = "requests"
  /\ \/ \E c \in Cmds, k \in Key : do_request(c, k) /\ UNCHANGED is_running
     \/ /\ "SDIE" \in Cmds
        /\ is_running' = FALSE
        /\ Answer("SDIE", Nil, "str", Nil)
        /\ UNCHANGED <<status, store>>
     \/ /\ "ECHO" \in Cmds
        /\ Answer("ECHO", Nil, "str", Nil)
        /\ UNCHANGED <<status, is_running, store>>
     \/ /\ "other" \in Cmds   \* not a command, or not with so many words
        /\ out_err("other", Nil, "ERR_NOT_FOUND")
        /\ UNCHANGED <<status, is_running, store>>
     \/ /\ "empty" \in Cmds   \* no word at all: cmd[0] does not exist
        /\ status' = "ub"
        /\ UNCHANGED <<is_running, store, reply>>
  /\ UNCHANGED <<pc, now, tnow, works>>

-----------------------------------------------------------------------------
(* The second loop of process_timers, and end_run. *)

TimersBegin ==
  /\ status = "run" /\ pc = "requests"
  /\ tnow' = now /\ works' = 0 /\ pc' = "timers"
  /\ UNCHANGED <<status, is_running, now, store, reply>>

\* ttl_heap[0] is the item of o.
IsTop(o) ==
  /\ deadline[o] # Never
  /\ \A p \in Obj : deadline[p] # Never => deadline[o] <= deadline[p]

Mut_TopDue == \E o \in Obj : IsTop(o) /\ deadline[o] + 1 < tnow

Mut_TopNow == \E o \in Obj : IsTop(o) /\ deadline[o] <= tnow

TopDue == \E o \in Obj : IsTop(o) /\ deadline[o] < tnow

Mut_ExpireTop ==
  /\ status = "run" /\ pc = "timers" /\ TopDue /\ works <= MAX_WORKS
  /\ \E o \in Obj :
       /\ IsTop(o)
       /\ g_data' = [g_data EXCEPT ![obj[o].key] = Nil]
       /\ entry_del(o)
  /\ works' = works + 1
  /\ UNCHANGED <<status, is_running, pc, now, tnow, reply>>

\* A round of the loop: g_data.erase looks for a node with the key of the
\* entry, and the entry is deleted.
ExpireTop ==
  /\ status = "run" /\ pc = "timers" /\ TopDue /\ works < MAX_WORKS
  /\ \E o \in Obj :
       /\ IsTop(o)
       /\ g_data' = [g_data EXCEPT ![obj[o].key] = Nil]
       /\ entry_del(o)
  /\ works' = works + 1
  /\ UNCHANGED <<status, is_running, pc, now, tnow, reply>>

TimersEnd ==
  /\ status = "run" /\ pc = "timers" /\ ~ (TopDue /\ works < MAX_WORKS)
  /\ pc' = IF is_running THEN "requests" ELSE "end"
  /\ UNCHANGED <<status, is_running, now, tnow, works, store, reply>>

\* foreach deletes each entry when it is at the next one; the last one is
\* deleted after it, and is dereferenced even if there was none.
end_run ==
  /\ status = "run" /\ pc = "end"
  /\ \/ /\ \A k \in Key : g_data[k] = Nil
        /\ status' = "ub"
        /\ UNCHANGED store
     \/ /\ \E k \in Key : g_data[k] # Nil
        /\ status' = "stopped"
        /\ g_data' = [k \in Key |-> Nil]
        /\ obj' = [o \in Obj |->
                     IF \E k \in Key : g_data[k] = o THEN Nil ELSE obj[o]]
        /\ deadline' = [o \in Obj |-> Never]
  /\ UNCHANGED <<loop, reply>>

Tick ==
  /\ status = "run" /\ now < MaxTime
  /\ now' = now + 1
  /\ UNCHANGED <<status, is_running, pc, tnow, works, store, reply>>

-----------------------------------------------------------------------------
Init ==
  /\ status = "run" /\ is_running = TRUE /\ pc = "requests"
  /\ g_data = [k \in Key |-> Nil]
  /\ obj = [o \in Obj |-> Nil]
  /\ deadline = [o \in Obj |-> Never]
  /\ now = 0 /\ tnow = 0 /\ works = 0
  /\ reply = [cmd |-> "none", key |-> Nil, tag |-> "nil", val |-> Nil]

Timers == TimersBegin \/ ExpireTop \/ TimersEnd \/ end_run

Next == Request \/ Timers \/ Tick

Spec == Init /\ [][Next]_vars

-----------------------------------------------------------------------------
(* Properties. *)

\* Every variable has its declared type; process_timers deletes at most
\* MAX_WORKS entries at a time.
TypeOK ==
  /\ status \in {"run", "stopped", "terminated", "ub"}
  /\ is_running \in BOOLEAN /\ pc \in {"requests", "timers", "end"}
  /\ g_data \in [Key -> Obj \cup {Nil}]
  /\ obj \in [Obj -> Entry \cup {Nil}]
  /\ deadline \in [Obj -> Nat \cup {Never}]
  /\ now \in Nat /\ tnow \in 0 .. now /\ works \in 0 .. MAX_WORKS

\* Every Entry is in g_data under its own key, g_data holds nothing that was
\* deleted, and no item of ttl_heap belongs to an entry that was: nothing
\* leaks, and neither process_timers nor a command follows a dangling
\* pointer.
EntriesOwned ==
  /\ \A o \in Obj : obj[o] # Nil => g_data[obj[o].key] = o
  /\ \A k \in Key : Found(k) => obj[g_data[k]] # Nil /\ obj[g_data[k]].key = k
  /\ \A o \in Obj : deadline[o] # Never => obj[o] # Nil

\* The type field of an Entry says which alternative its variant holds:
\* otherwise the std::get of the handlers throws.
TagMatchesVariant ==
  \A o \in Obj : obj[o] # Nil =>
    (obj[o].type = "E_SET" <=> obj[o].val.alt = "set")

\* Requests are served from an entry that had expired before the last
\* process_timers only if that deleted MAX_WORKS others.
OverdueOnlyWhenBusy ==
  pc = "requests" =>
    \A o \in Obj :
      deadline[o] # Never /\ deadline[o] < tnow => works = MAX_WORKS

map == [k \in Key |-> IF Found(k) THEN obj[g_data[k]].val ELSE Nil]
expiry == [k \in Key |-> IF Found(k) THEN deadline[g_data[k]] ELSE Never]

Abstract == INSTANCE ExpiringMap WITH turn <- pc, answer <- reply

\* The entries, their heap items and the commands implement a map with
\* expiries.  Between two process_timers a key changes its value or expiry
\* only by a command that names it and that is acknowledged; an error, or an
\* answer to a query, changes nothing and says what is so.  process_timers
\* removes a key only after its expiry, the earliest first.
ImplementsExpiringMap == Abstract!Spec
=============================================================================
