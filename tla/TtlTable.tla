------------------------------ MODULE TtlTable ------------------------------
(***************************************************************************)
(* What the server expects of its TTL index, with no data structure in     *)
(* sight: every entry has at most one deadline, entry_set_ttl replaces or  *)
(* removes it while requests are served, and while process_timers runs the *)
(* only deadlines that go are those that have passed, the earliest first.  *)
(* TtlHeap, the array heap of MRD_heap.cpp, implements this specification. *)
(***************************************************************************)
EXTENDS Integers

CONSTANTS Entry,    \* the Entry objects of the server
          Ttl,      \* the lifetimes requests ask for, in ms
          MaxTime   \* bound on the clock

\* A deadline is a natural number; an entry without one has NoTtl.
NoTtl == -1

VARIABLES deadline, \* deadline[e]: when e expires, or NoTtl
          now,      \* the monotonic clock
          caller    \* who uses the table: "requests" or "timers"

vars == <<deadline, now, caller>>

Init ==
  /\ deadline = [e \in Entry |-> NoTtl]
  /\ now = 0
  /\ caller = "requests"

\* The clock runs on its own.
Tick ==
  /\ now < MaxTime
  /\ now' = now + 1
  /\ UNCHANGED <<deadline, caller>>

\* entry_set_ttl(e, ttl) with ttl >= 0.
SetTtl(e, ttl) ==
  /\ caller = "requests"
  /\ deadline' = [deadline EXCEPT ![e] = now + ttl]
  /\ UNCHANGED <<now, caller>>

\* entry_set_ttl(e, -1): EXPIRE with a negative time, and DEL.
ClearTtl(e) ==
  /\ caller = "requests"
  /\ deadline[e] # NoTtl
  /\ deadline' = [deadline EXCEPT ![e] = NoTtl]
  /\ UNCHANGED <<now, caller>>

\* process_timers is called, and returns.
TimersBegin ==
  /\ caller = "requests"
  /\ caller' = "timers"
  /\ UNCHANGED <<deadline, now>>

TimersEnd ==
  /\ caller = "timers"
  /\ caller' = "requests"
  /\ UNCHANGED <<deadline, now>>

\* process_timers takes out one entry: it is overdue, and it is the earliest.
Expire(e) ==
  /\ caller = "timers"
  /\ deadline[e] # NoTtl
  /\ deadline[e] < now
  /\ \A f \in Entry : deadline[f] = NoTtl \/ deadline[e] <= deadline[f]
  /\ deadline' = [deadline EXCEPT ![e] = NoTtl]
  /\ UNCHANGED <<now, caller>>

Next ==
  \/ Tick \/ TimersBegin \/ TimersEnd
  \/ \E e \in Entry :
       \/ \E ttl \in Ttl : SetTtl(e, ttl)
       \/ ClearTtl(e)
       \/ Expire(e)

Spec == Init /\ [][Next]_vars
=============================================================================
