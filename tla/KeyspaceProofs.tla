--------------------------- MODULE KeyspaceProofs ---------------------------
(***************************************************************************)
(* Proofs about Keyspace, for every set of keys, values and names and      *)
(* every DEFAULT_TTL_MS, MAX_WORKS and bound on the clock: the Entry       *)
(* objects, g_data and ttl_heap stay consistent with each other, what      *)
(* process_timers leaves behind is bounded, and together they implement a  *)
(* map with expiries.                                                      *)
(***************************************************************************)
EXTENDS Keyspace, WellFoundedInduction, TLAPS

\* What the commands keep true of the three variables of the store.
StoreInv ==
  /\ g_data \in [Key -> Obj \cup {Nil}]
  /\ obj \in [Obj -> Entry \cup {Nil}]
  /\ deadline \in [Obj -> Nat \cup {Never}]
  /\ EntriesOwned
  /\ TagMatchesVariant

\* No command makes a deadline that has passed already.
Fresher ==
  \A o \in Obj :
    deadline'[o] = deadline[o] \/ deadline'[o] = Never \/ deadline'[o] >= now

IInv == TypeOK /\ EntriesOwned /\ TagMatchesVariant /\ OverdueOnlyWhenBusy

-----------------------------------------------------------------------------
(* The ways the store changes. *)

\* entry_set_ttl changes one deadline.
LEMMA SetTtlFacts ==
  ASSUME deadline \in [Obj -> Nat \cup {Never}], now \in Nat,
         NEW o \in Obj, NEW ttl \in Int
  PROVE  /\ entry_set_ttl(o, ttl) \in [Obj -> Nat \cup {Never}]
         /\ \A p \in Obj \ {o} : entry_set_ttl(o, ttl)[p] = deadline[p]
         /\ entry_set_ttl(o, ttl)[o] = IF ttl < 0 THEN Never ELSE now + ttl
  BY DEF entry_set_ttl, Never

\* An object that g_data holds is an Entry, and under its own key.
LEMMA FoundFacts ==
  ASSUME StoreInv, NEW k \in Key, Found(k)
  PROVE  /\ g_data[k] \in Obj
         /\ obj[g_data[k]] \in Entry /\ obj[g_data[k]].key = k
  BY DEF StoreInv, EntriesOwned, Found, data_lookup

\* A new Entry for a key that has none.
LEMMA CreateStore ==
  ASSUME StoreInv, now \in Nat, NEW k \in Key, ~ Found(k),
         NEW type \in {"E_STR", "E_SET"}, NEW val \in Value,
         type = "E_SET" <=> val.alt = "set",
         Create(k, type, val)
  PROVE  StoreInv' /\ Fresher
<1> DEFINE r == [key |-> k, type |-> type, val |-> val]
<1>1. Fresh \in Obj /\ obj[Fresh] = Nil
  BY DEF Create, Fresh
<1>2. r \in Entry /\ r # Nil /\ Fresh # Nil
  BY <1>1, NilAssumption DEF Entry
<1>3. /\ obj' = [obj EXCEPT ![Fresh] = r]
      /\ g_data' = [g_data EXCEPT ![k] = Fresh]
      /\ deadline' = entry_set_ttl(Fresh, DEFAULT_TTL_MS)
  BY DEF Create
<1>4. DEFAULT_TTL_MS \in Nat
  BY TimeAssumption
<1> HIDE DEF r
<1>5. /\ g_data' \in [Key -> Obj \cup {Nil}]
      /\ obj' \in [Obj -> Entry \cup {Nil}]
  BY <1>1, <1>2, <1>3 DEF StoreInv
<1>6. /\ deadline' \in [Obj -> Nat \cup {Never}]
      /\ \A p \in Obj \ {Fresh} : deadline'[p] = deadline[p]
      /\ deadline'[Fresh] = now + DEFAULT_TTL_MS
  BY <1>1, <1>3, <1>4, SetTtlFacts DEF StoreInv
<1>7. r.key = k /\ r.type = type /\ r.val = val
  BY DEF r
<1>8. EntriesOwned'
  <2>1. ASSUME NEW o \in Obj, obj'[o] # Nil PROVE g_data'[obj'[o].key] = o
    <3>1. CASE o = Fresh
      BY <3>1, <1>1, <1>3, <1>7 DEF StoreInv
    <3>2. CASE o # Fresh
      <4>1. obj'[o] = obj[o] /\ g_data[obj[o].key] = o /\ obj[o].key \in Key
        BY <3>2, <2>1, <1>3 DEF StoreInv, EntriesOwned, Entry
      <4>2. obj[o].key # k
        BY <4>1, NilAssumption DEF Found, data_lookup
      <4> QED
        BY <4>1, <4>2, <1>3 DEF StoreInv
    <3> QED
      BY <3>1, <3>2
  <2>2. ASSUME NEW j \in Key, g_data'[j] # Nil
        PROVE  obj'[g_data'[j]] # Nil /\ obj'[g_data'[j]].key = j
    <3>1. CASE j = k
      BY <3>1, <1>1, <1>2, <1>3, <1>7 DEF StoreInv
    <3>2. CASE j # k
      BY <3>2, <2>2, <1>1, <1>3 DEF StoreInv, EntriesOwned, Found, data_lookup
    <3> QED
      BY <3>1, <3>2
  <2>3. ASSUME NEW o \in Obj, deadline'[o] # Never PROVE obj'[o] # Nil
    BY <2>3, <1>1, <1>2, <1>3, <1>6 DEF StoreInv, EntriesOwned
  <2> QED
    BY <2>1, <2>2, <2>3 DEF EntriesOwned, Found, data_lookup
<1>9. TagMatchesVariant'
  BY <1>1, <1>3, <1>7 DEF StoreInv, TagMatchesVariant
<1>10. Fresher
  BY <1>4, <1>6 DEF Fresher
<1> QED
  BY <1>5, <1>6, <1>8, <1>9, <1>10 DEF StoreInv

\* The value of an Entry is replaced by one of the same alternative, and its
\* deadline perhaps by a later one.
LEMMA ReplaceStore ==
  ASSUME StoreInv, now \in Nat, NEW k \in Key, Found(k),
         NEW val \in Value, val.alt = obj[g_data[k]].val.alt,
         obj' = [obj EXCEPT ![g_data[k]].val = val],
         deadline' \in {deadline, entry_set_ttl(g_data[k], DEFAULT_TTL_MS)},
         g_data' = g_data
  PROVE  StoreInv' /\ Fresher
<1> DEFINE o == g_data[k]
<1>1. o \in Obj /\ obj[o] \in Entry /\ obj[o].key = k /\ obj[o] # Nil
  BY FoundFacts, NilAssumption
<1>2. /\ obj'[o] \in Entry /\ obj'[o] # Nil
      /\ obj'[o].key = k /\ obj'[o].type = obj[o].type /\ obj'[o].val = val
      /\ \A p \in Obj \ {o} : obj'[p] = obj[p]
      /\ obj' \in [Obj -> Entry \cup {Nil}]
  BY <1>1, NilAssumption DEF StoreInv, Entry
<1>3. /\ deadline' \in [Obj -> Nat \cup {Never}]
      /\ \A p \in Obj \ {o} : deadline'[p] = deadline[p]
      /\ deadline'[o] = deadline[o] \/ deadline'[o] >= now
  BY <1>1, TimeAssumption, SetTtlFacts DEF StoreInv
<1> HIDE DEF o
<1>4. EntriesOwned'
  <2>1. \A p \in Obj : obj'[p] # Nil => obj[p] # Nil /\ obj'[p].key = obj[p].key
    BY <1>1, <1>2
  <2>2. \A p \in Obj : obj[p] # Nil => obj'[p] # Nil
    BY <1>2
  <2>3. \A p \in Obj : obj'[p] # Nil => g_data'[obj'[p].key] = p
    BY <2>1 DEF StoreInv, EntriesOwned
  <2>4. \A j \in Key : g_data'[j] # Nil =>
          obj'[g_data'[j]] # Nil /\ obj'[g_data'[j]].key = j
    BY <2>1, <2>2 DEF StoreInv, EntriesOwned, Found, data_lookup
  <2>5. \A p \in Obj : deadline'[p] # Never => obj'[p] # Nil
    BY <1>2, <1>3 DEF StoreInv, EntriesOwned
  <2> QED
    BY <2>3, <2>4, <2>5 DEF EntriesOwned, Found, data_lookup
<1>5. TagMatchesVariant'
  BY <1>1, <1>2 DEF StoreInv, TagMatchesVariant, o
<1>6. Fresher
  BY <1>3 DEF Fresher
<1> QED
  BY <1>2, <1>3, <1>4, <1>5, <1>6 DEF StoreInv

\* An Entry is deleted and taken out of g_data.
LEMMA DeleteStore ==
  ASSUME StoreInv, now \in Nat, NEW k \in Key, Found(k),
         g_data' = [g_data EXCEPT ![k] = Nil],
         entry_del(g_data[k])
  PROVE  StoreInv' /\ Fresher
<1> DEFINE o == g_data[k]
<1>1. o \in Obj /\ obj[o].key = k
  BY FoundFacts
<1>2. /\ obj' = [obj EXCEPT ![o] = Nil]
      /\ deadline' = entry_set_ttl(o, -1)
  BY DEF entry_del
<1>3. /\ deadline' \in [Obj -> Nat \cup {Never}]
      /\ \A p \in Obj \ {o} : deadline'[p] = deadline[p]
      /\ deadline'[o] = Never
  BY <1>1, <1>2, SetTtlFacts DEF StoreInv
<1>4. /\ g_data' \in [Key -> Obj \cup {Nil}]
      /\ obj' \in [Obj -> Entry \cup {Nil}]
  BY <1>1, <1>2 DEF StoreInv
<1>5. \A p \in Obj : obj'[p] # Nil => p # o /\ obj'[p] = obj[p]
  BY <1>1, <1>2 DEF StoreInv
<1>6. \A p \in Obj \ {o} : obj'[p] = obj[p]
  BY <1>2 DEF StoreInv
<1>7. EntriesOwned'
  <2>1. ASSUME NEW p \in Obj, obj'[p] # Nil PROVE g_data'[obj'[p].key] = p
    <3>1. p # o /\ obj'[p] = obj[p] /\ g_data[obj[p].key] = p
          /\ obj[p].key \in Key
      BY <2>1, <1>5 DEF StoreInv, EntriesOwned, Entry
    <3> QED
      BY <3>1, <1>1 DEF StoreInv
  <2>2. ASSUME NEW j \in Key, g_data'[j] # Nil
        PROVE  obj'[g_data'[j]] # Nil /\ obj'[g_data'[j]].key = j
    <3>1. j # k /\ g_data'[j] = g_data[j] /\ g_data[j] \in Obj
          /\ obj[g_data[j]] # Nil /\ obj[g_data[j]].key = j
      BY <2>2 DEF StoreInv, EntriesOwned, Found, data_lookup
    <3>2. g_data[j] # o
      BY <3>1, <1>1
    <3> QED
      BY <3>1, <3>2, <1>6
  <2>3. ASSUME NEW p \in Obj, deadline'[p] # Never PROVE obj'[p] # Nil
    BY <2>3, <1>3, <1>6 DEF StoreInv, EntriesOwned
  <2> QED
    BY <2>1, <2>2, <2>3 DEF EntriesOwned, Found, data_lookup
<1>8. TagMatchesVariant'
  BY <1>5 DEF StoreInv, TagMatchesVariant
<1>9. Fresher
  BY <1>3 DEF Fresher
<1> QED
  BY <1>3, <1>4, <1>7, <1>8, <1>9 DEF StoreInv

\* The deadline of an Entry is set or removed.
LEMMA ExpiryStore ==
  ASSUME StoreInv, now \in Nat, NEW k \in Key, Found(k), NEW ttl \in Int,
         deadline' = entry_set_ttl(g_data[k], ttl),
         UNCHANGED <<g_data, obj>>
  PROVE  StoreInv' /\ Fresher
<1>1. g_data[k] \in Obj /\ obj[g_data[k]] # Nil
  BY DEF StoreInv, EntriesOwned, Found, data_lookup
<1>2. /\ deadline' \in [Obj -> Nat \cup {Never}]
      /\ \A p \in Obj \ {g_data[k]} : deadline'[p] = deadline[p]
      /\ deadline'[g_data[k]] = Never \/ deadline'[g_data[k]] >= now
  BY <1>1, SetTtlFacts DEF StoreInv
<1>3. EntriesOwned' /\ TagMatchesVariant'
  BY <1>1, <1>2 DEF StoreInv, EntriesOwned, Found, data_lookup, TagMatchesVariant
<1> QED
  BY <1>2, <1>3 DEF StoreInv, Fresher

\* Nothing is changed.
LEMMA SameStore ==
  ASSUME StoreInv, UNCHANGED store
  PROVE  StoreInv' /\ Fresher
  BY DEF StoreInv, store, Fresher, EntriesOwned, Found, data_lookup,
         TagMatchesVariant

-----------------------------------------------------------------------------
(* The commands. *)

\* An Entry of type E_SET holds a set.
LEMMA SetFacts ==
  ASSUME StoreInv, NEW k \in Key, HasType(k, "E_SET")
  PROVE  /\ Found(k) /\ Members(k) \in SUBSET Name
         /\ obj[g_data[k]].val.alt = "set"
<1>1. /\ Found(k) /\ g_data[k] \in Obj /\ obj[g_data[k]] \in Entry
      /\ obj[g_data[k]] # Nil /\ obj[g_data[k]].type = "E_SET"
  BY FoundFacts, NilAssumption DEF HasType
<1>2. obj[g_data[k]].val.alt = "set"
  BY <1>1 DEF StoreInv, TagMatchesVariant
<1>3. obj[g_data[k]].val \in Value
  BY <1>1 DEF Entry
<1> QED
  BY <1>1, <1>2, <1>3 DEF Value, Members

\* One of type E_STR holds a string.
LEMMA StrFacts ==
  ASSUME StoreInv, NEW k \in Key, HasType(k, "E_STR")
  PROVE  Found(k) /\ obj[g_data[k]].val.alt = "str"
<1>1. /\ Found(k) /\ g_data[k] \in Obj /\ obj[g_data[k]] \in Entry
      /\ obj[g_data[k]] # Nil /\ obj[g_data[k]].type = "E_STR"
  BY FoundFacts, NilAssumption DEF HasType
<1>2. obj[g_data[k]].val.alt # "set"
  BY <1>1 DEF StoreInv, TagMatchesVariant
<1>3. obj[g_data[k]].val \in Value
  BY <1>1 DEF Entry
<1> QED
  BY <1>1, <1>2, <1>3 DEF Value

\* The values the commands make.
LEMMA ValueFacts ==
  /\ \A v \in Val : StrVal(v) \in Value /\ StrVal(v).alt = "str"
  /\ \A s \in SUBSET Name : SetVal(s) \in Value /\ SetVal(s).alt = "set"
  BY DEF Value, StrVal, SetVal

\* Every command keeps the store consistent and makes no past deadline.
LEMMA CommandStore ==
  ASSUME StoreInv, now \in Nat, NEW c \in Cmds, NEW k \in Key, do_request(c, k)
  PROVE  StoreInv' /\ Fresher
<1>1. ASSUME do_get(k) PROVE StoreInv' /\ Fresher
  BY <1>1, SameStore DEF do_get
<1>2. ASSUME NEW v \in Val, do_set(k, v) PROVE StoreInv' /\ Fresher
  <2>1. CASE UNCHANGED store
    BY <2>1, SameStore
  <2>2. CASE HasType(k, "E_STR") /\ Renew(k, StrVal(v))
    BY <2>2, ReplaceStore, StrFacts, ValueFacts DEF Renew
  <2>3. CASE ~ Found(k) /\ Create(k, "E_STR", StrVal(v))
    BY <2>3, CreateStore, ValueFacts
  <2> QED
    BY <1>2, <2>1, <2>2, <2>3 DEF do_set
<1>3. ASSUME do_del(k) PROVE StoreInv' /\ Fresher
  BY <1>3, SameStore, DeleteStore DEF do_del
<1>4. ASSUME NEW s \in Number, NEW n \in Name, do_zadd(k, s, n)
      PROVE  StoreInv' /\ Fresher
  <2>1. CASE UNCHANGED store
    BY <2>1, SameStore
  <2>2. CASE ~ Found(k) /\ Create(k, "E_SET", SetVal({n}))
    BY <2>2, CreateStore, ValueFacts
  <2>3. CASE HasType(k, "E_SET") /\ Renew(k, SetVal(Members(k) \cup {n}))
    <3>1. Members(k) \cup {n} \in SUBSET Name
      BY <2>3, SetFacts
    <3> QED
      BY <2>3, <3>1, ReplaceStore, SetFacts, ValueFacts DEF Renew
  <2> QED
    BY <1>4, <2>1, <2>2, <2>3 DEF do_zadd
<1>5. ASSUME NEW n \in Name, do_zrem(k, n) PROVE StoreInv' /\ Fresher
  <2>1. CASE NoSet("ZREM", k)
    BY <2>1, SameStore DEF NoSet
  <2>2. CASE /\ HasType(k, "E_SET")
             /\ obj' = [obj EXCEPT ![g_data[k]].val = SetVal(Members(k) \ {n})]
             /\ UNCHANGED <<g_data, deadline>>
    <3>1. Members(k) \ {n} \in SUBSET Name
      BY <2>2, SetFacts
    <3> QED
      BY <2>2, <3>1, ReplaceStore, SetFacts, ValueFacts
  <2> QED
    BY <1>5, <2>1, <2>2 DEF do_zrem
<1>6. ASSUME NEW a \in Number, do_zquery(k, a) PROVE StoreInv' /\ Fresher
  BY <1>6, SameStore DEF do_zquery, NoSet
<1>7. ASSUME NEW a \in Number, do_zcount(k, a) PROVE StoreInv' /\ Fresher
  BY <1>7, SameStore DEF do_zcount, NoSet
<1>8. ASSUME do_zrank(k) PROVE StoreInv' /\ Fresher
  <2>1. CASE NoSet("ZRANK", k)
    BY <2>1, SameStore DEF NoSet
  <2>2. CASE /\ HasType(k, "E_SET")
             /\ deadline' = entry_set_ttl(g_data[k], DEFAULT_TTL_MS)
             /\ UNCHANGED <<g_data, obj>>
    BY <2>2, ExpiryStore, SetFacts, TimeAssumption
  <2> QED
    BY <1>8, <2>1, <2>2 DEF do_zrank
<1>9. ASSUME NEW a \in Number, NEW ttl \in Ttl, do_expire(k, a, ttl)
      PROVE  StoreInv' /\ Fresher
  <2>1. CASE UNCHANGED deadline
    BY <1>9, <2>1, SameStore DEF do_expire, store
  <2>2. CASE Found(k) /\ deadline' = entry_set_ttl(g_data[k], ttl)
    BY <1>9, <2>2, ExpiryStore, TimeAssumption DEF do_expire
  <2> QED
    BY <1>9, <2>1, <2>2 DEF do_expire
<1>10. ASSUME do_ttl(k) PROVE StoreInv' /\ Fresher
  BY <1>10, SameStore DEF do_ttl
<1> QED
  BY <1>1, <1>2, <1>3, <1>4, <1>5, <1>6, <1>7, <1>8, <1>9, <1>10 DEF do_request

\* A command that does not leave the server running ends it in one of two
\* ways.
LEMMA CommandStatus ==
  ASSUME NEW c \in Cmds, NEW k \in Key, do_request(c, k)
  PROVE  status' = status \/ status' = "terminated" \/ status' = "ub"
<1>1. ASSUME do_get(k) \/ do_del(k) \/ do_zrank(k) PROVE status' = status
  BY <1>1 DEF do_get, do_del, do_zrank, NoSet
<1>2. ASSUME NEW v \in Val, do_set(k, v) PROVE status' = status
  BY <1>2 DEF do_set
<1>3. ASSUME NEW s \in Number, NEW n \in Name, do_zadd(k, s, n)
      PROVE  status' = status
  BY <1>3 DEF do_zadd
<1>4. ASSUME NEW a \in Number, do_zquery(k, a) PROVE status' = status
  BY <1>4 DEF do_zquery, NoSet
<1>5. ASSUME NEW a \in Number, do_zcount(k, a)
      PROVE  status' = status \/ status' = "terminated"
  BY <1>5 DEF do_zcount, NoSet
<1>6. ASSUME NEW a \in Number, NEW ttl \in Ttl, do_expire(k, a, ttl)
      PROVE  status' = status
  BY <1>6 DEF do_expire
<1>7. ASSUME do_ttl(k) PROVE status' = status \/ status' = "ub"
  BY <1>7 DEF do_ttl
<1>8. ASSUME NEW n \in Name, do_zrem(k, n) PROVE status' = status
  BY <1>8 DEF do_zrem, NoSet
<1> QED
  BY <1>1, <1>2, <1>3, <1>4, <1>5, <1>6, <1>7, <1>8 DEF do_request

-----------------------------------------------------------------------------
(* process_timers. *)

\* The order of the naturals as a set of pairs.
NatBefore == {ss \in Nat \X Nat : ss[1] < ss[2]}

\* If any deadline is set, one of them is the earliest.
LEMMA TopExists ==
  ASSUME deadline \in [Obj -> Nat \cup {Never}],
         NEW p \in Obj, deadline[p] # Never
  PROVE  \E o \in Obj : IsTop(o) /\ deadline[o] <= deadline[p]
<1> DEFINE T == {deadline[o] : o \in {q \in Obj : deadline[q] # Never}}
<1>1. T \in SUBSET Nat /\ deadline[p] \in T
  OBVIOUS
<1>2. OpToRel(<, Nat) = NatBefore
  BY Zenon DEF OpToRel, NatBefore
<1>3. IsWellFoundedOn(NatBefore, Nat)
  BY <1>2, NatLessThanWellFounded, Zenon
<1>4. PICK x \in T : \A y \in T : ~ (<<y, x>> \in NatBefore)
  BY <1>1, <1>3, WFMin
<1>5. ASSUME NEW y \in T PROVE x <= y
  <2>1. x \in Nat /\ y \in Nat /\ ~ (<<y, x>> \in NatBefore)
    BY <1>1, <1>4
  <2>2. ~ (y < x)
    BY <2>1, Zenon DEF NatBefore
  <2> QED
    BY <2>1, <2>2
<1>6. PICK o \in Obj : deadline[o] # Never /\ deadline[o] = x
  OBVIOUS
<1>7. \A q \in Obj : deadline[q] # Never => deadline[q] \in T
  OBVIOUS
<1> QED
  BY <1>1, <1>5, <1>6, <1>7 DEF IsTop

\* When the loop ends, either nothing is overdue or it did MAX_WORKS rounds.
LEMMA TimersLeave ==
  ASSUME deadline \in [Obj -> Nat \cup {Never}], tnow \in Nat,
         works \in 0 .. MAX_WORKS, ~ (TopDue /\ works < MAX_WORKS),
         NEW p \in Obj, deadline[p] # Never, deadline[p] < tnow
  PROVE  works = MAX_WORKS
<1>1. PICK o \in Obj : IsTop(o) /\ deadline[o] <= deadline[p]
  BY TopExists
<1>2. deadline[o] \in Nat /\ deadline[p] \in Nat
  BY <1>1 DEF IsTop
<1>3. TopDue
  BY <1>1, <1>2 DEF TopDue
<1> QED
  BY <1>3, TimeAssumption

-----------------------------------------------------------------------------
(* The invariant. *)

\* The part of the invariant the commands need.
LEMMA StoreOfInv == IInv => StoreInv
  BY DEF IInv, StoreInv, TypeOK

\* Every step keeps the invariant.
LEMMA NextInv == IInv /\ [Next]_vars => IInv'
<1> SUFFICES ASSUME IInv, [Next]_vars PROVE IInv'
  OBVIOUS
<1> USE TimeAssumption
<1>1. /\ StoreInv /\ now \in Nat /\ tnow \in 0 .. now
      /\ works \in 0 .. MAX_WORKS
  BY StoreOfInv DEF IInv, TypeOK
<1>2. ASSUME Request PROVE IInv'
  <2>1. StoreInv' /\ Fresher
    BY <1>1, <1>2, CommandStore, SameStore DEF Request
  <2>2. /\ status' \in {"run", "stopped", "terminated", "ub"}
        /\ is_running' \in BOOLEAN
        /\ UNCHANGED <<pc, now, tnow, works>>
    <3>1. UNCHANGED <<pc, now, tnow, works>>
      BY <1>2 DEF Request
    <3>2. is_running' \in BOOLEAN
      BY <1>2 DEF Request, IInv, TypeOK
    <3>3. status' = status \/ status' = "terminated" \/ status' = "ub"
      BY <1>2, CommandStatus DEF Request
    <3> QED
      BY <3>1, <3>2, <3>3 DEF IInv, TypeOK
  <2>3. TypeOK'
    BY <2>1, <2>2 DEF IInv, TypeOK, StoreInv
  <2>4. OverdueOnlyWhenBusy'
    BY <1>1, <2>1, <2>2 DEF IInv, OverdueOnlyWhenBusy, Fresher, StoreInv, Never
  <2> QED
    BY <2>1, <2>3, <2>4 DEF IInv, StoreInv
<1>3. ASSUME TimersBegin PROVE IInv'
  BY <1>1, <1>3 DEF TimersBegin, IInv, TypeOK, OverdueOnlyWhenBusy, store,
                    EntriesOwned, TagMatchesVariant, Found, data_lookup
<1>4. ASSUME ExpireTop PROVE IInv'
  <2>1. PICK o \in Obj : /\ IsTop(o)
                         /\ g_data' = [g_data EXCEPT ![obj[o].key] = Nil]
                         /\ entry_del(o)
    BY <1>4 DEF ExpireTop
  <2>2. obj[o] # Nil /\ obj[o] \in Entry /\ g_data[obj[o].key] = o
    BY <1>1, <2>1 DEF IsTop, StoreInv, EntriesOwned
  <2>3. obj[o].key \in Key /\ Found(obj[o].key)
    BY <2>2, NilAssumption DEF Entry, Found, data_lookup
  <2>4. StoreInv'
    BY <1>1, <2>1, <2>2, <2>3, DeleteStore
  <2>5. /\ pc' = "timers" /\ works' \in 0 .. MAX_WORKS
        /\ UNCHANGED <<status, is_running, now, tnow>>
    BY <1>1, <1>4 DEF ExpireTop
  <2> QED
    BY <2>4, <2>5 DEF IInv, TypeOK, StoreInv, OverdueOnlyWhenBusy
<1>5. ASSUME TimersEnd PROVE IInv'
  <2>1. /\ pc' \in {"requests", "end"} /\ ~ (TopDue /\ works < MAX_WORKS)
        /\ UNCHANGED <<status, is_running, now, tnow, works, store>>
    BY <1>5 DEF TimersEnd
  <2>2. OverdueOnlyWhenBusy'
    BY <1>1, <2>1, TimersLeave DEF OverdueOnlyWhenBusy, StoreInv, store
  <2>3. StoreInv'
    BY <1>1, <2>1, SameStore
  <2> QED
    BY <2>1, <2>2, <2>3 DEF IInv, TypeOK, StoreInv
<1>6. ASSUME end_run PROVE IInv'
  <2>1. CASE UNCHANGED store
    BY <1>1, <1>6, <2>1, SameStore
       DEF end_run, loop, IInv, TypeOK, StoreInv, OverdueOnlyWhenBusy
  <2>2. CASE /\ g_data' = [k \in Key |-> Nil]
             /\ obj' = [o \in Obj |->
                          IF \E k \in Key : g_data[k] = o THEN Nil ELSE obj[o]]
             /\ deadline' = [o \in Obj |-> Never]
    <3>1. \A o \in Obj : obj'[o] = Nil
      <4>1. \A o \in Obj : obj[o] # Nil => obj[o].key \in Key
        BY <1>1 DEF StoreInv, Entry
      <4> QED
        BY <1>1, <2>2, <4>1 DEF StoreInv, EntriesOwned
    <3>2. obj' \in [Obj -> Entry \cup {Nil}]
      BY <2>2, <3>1
    <3>3. EntriesOwned' /\ TagMatchesVariant'
      BY <2>2, <3>1 DEF EntriesOwned, TagMatchesVariant, Found, data_lookup
    <3> QED
      BY <1>6, <2>2, <3>2, <3>3
         DEF end_run, loop, IInv, TypeOK, OverdueOnlyWhenBusy
  <2> QED
    BY <1>6, <2>1, <2>2 DEF end_run
<1>7. ASSUME Tick PROVE IInv'
  BY <1>1, <1>7 DEF Tick, IInv, TypeOK, OverdueOnlyWhenBusy, store,
                    EntriesOwned, TagMatchesVariant, Found, data_lookup
<1>8. ASSUME UNCHANGED vars PROVE IInv'
  BY <1>1, <1>8 DEF vars, loop, IInv, TypeOK, OverdueOnlyWhenBusy, store,
                    EntriesOwned, TagMatchesVariant, Found, data_lookup
<1> QED
  BY <1>2, <1>3, <1>4, <1>5, <1>6, <1>7, <1>8 DEF Next, Timers

\* It holds at first.
LEMMA InitInv == Init => IInv
  BY TimeAssumption, NilAssumption
     DEF Init, IInv, TypeOK, EntriesOwned, TagMatchesVariant,
         OverdueOnlyWhenBusy, Found, data_lookup, Never

\* It holds in every state.
LEMMA InvHolds == Spec => []IInv
  BY InitInv, NextInv, PTL DEF Spec

\* Every variable keeps its type, and process_timers its limit.
THEOREM KeyspaceTypeOK == Spec => []TypeOK
<1>1. IInv => TypeOK
  BY DEF IInv
<1> QED
  BY <1>1, InvHolds, PTL

\* Whatever commands come in whatever order, and wherever entries expire
\* between them: every Entry is in g_data under its key, g_data holds no
\* deleted one and ttl_heap points to none.
THEOREM KeyspaceOwned == Spec => []EntriesOwned
<1>1. IInv => EntriesOwned
  BY DEF IInv
<1> QED
  BY <1>1, InvHolds, PTL

\* No sequence of commands makes std::get throw.
THEOREM KeyspaceTags == Spec => []TagMatchesVariant
<1>1. IInv => TagMatchesVariant
  BY DEF IInv
<1> QED
  BY <1>1, InvHolds, PTL

\* A request is served from an expired entry only if the last process_timers
\* reached MAX_WORKS.
THEOREM KeyspaceOverdue == Spec => []OverdueOnlyWhenBusy
<1>1. IInv => OverdueOnlyWhenBusy
  BY DEF IInv
<1> QED
  BY <1>1, InvHolds, PTL

-----------------------------------------------------------------------------
(* The refinement of ExpiringMap. *)

\* A key has a value of the abstract map when it has an Entry.
LEMMA MapFacts ==
  ASSUME StoreInv, NEW k \in Key
  PROVE  /\ Found(k) => map[k] = obj[g_data[k]].val /\ map[k] \in Value
                        /\ expiry[k] = deadline[g_data[k]]
         /\ ~ Found(k) => map[k] = Nil /\ expiry[k] = Never
         /\ Abstract!Present(k) <=> Found(k)
<1>1. Found(k) => obj[g_data[k]].val \in Value
  BY FoundFacts DEF Entry
<1> QED
  BY <1>1, NilAssumption DEF map, expiry, Abstract!Present, Found, data_lookup

\* Two keys have two Entry objects.
LEMMA OtherObject ==
  ASSUME StoreInv, NEW k \in Key, NEW j \in Key, Found(k), Found(j), j # k
  PROVE  g_data[j] # g_data[k]
  BY FoundFacts

\* A step that leaves the Entry objects of the other keys alone changes the
\* abstract map at one key only.
LEMMA OneKeyChanges ==
  ASSUME NEW k \in Key, NEW v, NEW t,
         \A j \in Key \ {k} :
           /\ g_data'[j] = g_data[j]
           /\ Found(j) => /\ obj'[g_data[j]].val = obj[g_data[j]].val
                          /\ deadline'[g_data[j]] = deadline[g_data[j]],
         \/ g_data'[k] = Nil /\ v = Nil /\ t = Never
         \/ /\ g_data'[k] # Nil
            /\ obj'[g_data'[k]].val = v /\ deadline'[g_data'[k]] = t
  PROVE  /\ map' = [map EXCEPT ![k] = v]
         /\ expiry' = [expiry EXCEPT ![k] = t]
<1>1. \A j \in Key : map'[j] = IF j = k THEN v ELSE map[j]
  BY DEF map, Found, data_lookup
<1>2. \A j \in Key : expiry'[j] = IF j = k THEN t ELSE expiry[j]
  BY DEF expiry, Found, data_lookup
<1>3. /\ map = [j \in Key |-> map[j]] /\ map' = [j \in Key |-> map'[j]]
      /\ expiry = [j \in Key |-> expiry[j]]
      /\ expiry' = [j \in Key |-> expiry'[j]]
  BY DEF map, expiry, Found, data_lookup
<1> QED
  BY <1>1, <1>2, <1>3, Zenon

\* A new Entry for a key that has none.
LEMMA CreateMaps ==
  ASSUME StoreInv, now \in Nat, NEW k \in Key, ~ Found(k),
         NEW type \in {"E_STR", "E_SET"}, NEW val \in Value,
         Create(k, type, val)
  PROVE  /\ map' = [map EXCEPT ![k] = val]
         /\ expiry' = [expiry EXCEPT ![k] = now + DEFAULT_TTL_MS]
<1>1. Fresh \in Obj /\ obj[Fresh] = Nil /\ Fresh # Nil
  BY NilAssumption DEF Create, Fresh
<1>2. /\ obj' = [obj EXCEPT ![Fresh] = [key |-> k, type |-> type, val |-> val]]
      /\ g_data' = [g_data EXCEPT ![k] = Fresh]
      /\ deadline' = entry_set_ttl(Fresh, DEFAULT_TTL_MS)
  BY DEF Create
<1>3. /\ \A p \in Obj \ {Fresh} : deadline'[p] = deadline[p]
      /\ deadline'[Fresh] = now + DEFAULT_TTL_MS
  BY <1>1, <1>2, TimeAssumption, SetTtlFacts DEF StoreInv
<1>4. g_data'[k] = Fresh /\ obj'[Fresh].val = val
  BY <1>1, <1>2 DEF StoreInv
<1>5. \A j \in Key \ {k} :
        /\ g_data'[j] = g_data[j]
        /\ Found(j) => /\ obj'[g_data[j]].val = obj[g_data[j]].val
                       /\ deadline'[g_data[j]] = deadline[g_data[j]]
  BY <1>1, <1>2, <1>3, FoundFacts, NilAssumption DEF StoreInv
<1>6. g_data'[k] # Nil /\ obj'[g_data'[k]].val = val
  BY <1>1, <1>4
<1> DEFINE t == deadline'[g_data'[k]]
<1>7. /\ map' = [map EXCEPT ![k] = val]
      /\ expiry' = [expiry EXCEPT ![k] = t]
  BY <1>5, <1>6, OneKeyChanges
<1> QED
  BY <1>3, <1>4, <1>7

\* The value of an Entry is replaced, its deadline replaced or kept.
LEMMA ReplaceMaps ==
  ASSUME StoreInv, NEW k \in Key, Found(k), NEW val \in Value,
         obj' = [obj EXCEPT ![g_data[k]].val = val], g_data' = g_data,
         deadline' \in [Obj -> Nat \cup {Never}],
         \A p \in Obj \ {g_data[k]} : deadline'[p] = deadline[p]
  PROVE  /\ map' = [map EXCEPT ![k] = val]
         /\ expiry' = [expiry EXCEPT ![k] = deadline'[g_data[k]]]
<1>1. g_data[k] \in Obj /\ obj[g_data[k]] \in Entry /\ g_data[k] # Nil
  BY FoundFacts, NilAssumption
<1>2. /\ obj'[g_data[k]].val = val
      /\ \A p \in Obj \ {g_data[k]} : obj'[p] = obj[p]
  BY <1>1 DEF StoreInv, Entry
<1>3. \A j \in Key \ {k} :
        /\ g_data'[j] = g_data[j]
        /\ Found(j) => /\ obj'[g_data[j]].val = obj[g_data[j]].val
                       /\ deadline'[g_data[j]] = deadline[g_data[j]]
  BY <1>2, FoundFacts, OtherObject
<1> QED
  BY <1>1, <1>2, <1>3, OneKeyChanges

\* An Entry is deleted and taken out of g_data.
LEMMA DeleteMaps ==
  ASSUME StoreInv, now \in Nat, NEW k \in Key, Found(k),
         g_data' = [g_data EXCEPT ![k] = Nil], entry_del(g_data[k])
  PROVE  /\ map' = [map EXCEPT ![k] = Nil]
         /\ expiry' = [expiry EXCEPT ![k] = Never]
<1>1. g_data[k] \in Obj
  BY FoundFacts
<1>2. /\ \A p \in Obj \ {g_data[k]} : obj'[p] = obj[p]
      /\ \A p \in Obj \ {g_data[k]} : deadline'[p] = deadline[p]
  BY <1>1, SetTtlFacts DEF entry_del, StoreInv
<1>3. \A j \in Key \ {k} :
        /\ g_data'[j] = g_data[j]
        /\ Found(j) => /\ obj'[g_data[j]].val = obj[g_data[j]].val
                       /\ deadline'[g_data[j]] = deadline[g_data[j]]
  BY <1>2, FoundFacts, OtherObject DEF StoreInv
<1>4. g_data'[k] = Nil
  BY DEF StoreInv
<1> QED
  BY <1>3, <1>4, OneKeyChanges

\* The deadline of an Entry is set or removed.
LEMMA ExpiryMaps ==
  ASSUME StoreInv, now \in Nat, NEW k \in Key, Found(k), NEW ttl \in Int,
         deadline' = entry_set_ttl(g_data[k], ttl), UNCHANGED <<g_data, obj>>
  PROVE  /\ map' = map
         /\ expiry' = [expiry EXCEPT ![k] = expiry'[k]]
         /\ expiry'[k] = Never \/ expiry'[k] >= now
<1>1. g_data[k] \in Obj
  BY FoundFacts
<1>2. /\ \A p \in Obj \ {g_data[k]} : deadline'[p] = deadline[p]
      /\ deadline'[g_data[k]] = Never \/ deadline'[g_data[k]] >= now
  BY <1>1, SetTtlFacts DEF StoreInv
<1>3. map' = map
  BY DEF map, Found, data_lookup
<1>4. expiry'[k] = deadline'[g_data[k]]
  BY DEF expiry, Found, data_lookup
<1>5. \A j \in Key \ {k} :
        /\ g_data'[j] = g_data[j]
        /\ Found(j) => /\ obj'[g_data[j]].val = obj[g_data[j]].val
                       /\ deadline'[g_data[j]] = deadline[g_data[j]]
  BY <1>2, FoundFacts, OtherObject
<1>6. expiry' = [expiry EXCEPT ![k] = deadline'[g_data[k]]]
  BY <1>5, OneKeyChanges, SMTT(30) DEF Found, data_lookup
<1> QED
  BY <1>2, <1>3, <1>4, <1>6

\* A step that changes no part of the store changes no key.
LEMMA SameMaps ==
  ASSUME UNCHANGED store
  PROVE  map' = map /\ expiry' = expiry
  BY DEF store, map, expiry, Found, data_lookup

\* What an answer that changes no key must satisfy to be one of a query.
LEMMA QueryFacts ==
  ASSUME pc = "requests", UNCHANGED <<store, pc, now>>,
         <<reply'.cmd, reply'.tag>> \notin Abstract!Acknowledged,
         Abstract!Truthful(reply')
  PROVE  Abstract!Query
  BY SameMaps DEF Abstract!Query

\* Errors are not acknowledgements; the one that says that a key is not
\* found is given only for such a key, or if the command is not known.
LEMMA ErrorQuery ==
  ASSUME StoreInv, pc = "requests", UNCHANGED <<store, pc, now>>,
         NEW cmd, NEW k, NEW code, out_err(cmd, k, code),
         code \in {"ERR_BAD_TYPE", "ERR_UNEXPECTED", "ERR_NOT_FOUND"},
         code = "ERR_NOT_FOUND" => cmd = "other" \/ (k \in Key /\ ~ Found(k))
  PROVE  Abstract!Query
<1>1. reply' = [cmd |-> cmd, key |-> k, tag |-> code, val |-> Nil]
  BY DEF out_err, Answer
<1>2. reply'.cmd = cmd /\ reply'.key = k /\ reply'.tag = code
  BY <1>1
<1>3. <<reply'.cmd, reply'.tag>> \notin Abstract!Acknowledged
  BY <1>2 DEF Abstract!Acknowledged
<1>4. Abstract!Truthful(reply')
  BY <1>2, MapFacts DEF Abstract!Truthful
<1> QED
  BY <1>3, <1>4, QueryFacts

\* The errors the handlers make of an argument that is not a number.
LEMMA ArgumentErrors ==
  \A arg : ErrorOf(arg) \in {"ERR_BAD_TYPE", "ERR_UNEXPECTED"}
  BY DEF ErrorOf

\* A command on something that is not a set is refused.
LEMMA NoSetQuery ==
  ASSUME StoreInv, pc = "requests", UNCHANGED <<pc, now>>,
         NEW cmd, NEW k \in Key, NoSet(cmd, k)
  PROVE  Abstract!Query
  BY ErrorQuery DEF NoSet

\* A command for k is an update of k that is acknowledged, a query, or it
\* ends the server before there is an answer.
LEMMA CommandRefines ==
  ASSUME StoreInv, now \in Nat, pc = "requests", UNCHANGED <<pc, now>>,
         NEW c \in Cmds, NEW k \in Key, do_request(c, k)
  PROVE  Abstract!Request \/ UNCHANGED <<store, reply>>
<1> DEFINE Refined == Abstract!Request \/ UNCHANGED <<store, reply>>
<1>1. ASSUME NEW cmd, NEW tag, NEW val, Answer(cmd, k, tag, val)
      PROVE  Abstract!Reply(cmd, k, tag)
  BY <1>1 DEF Answer, Abstract!Reply
<1>2. ASSUME NEW cmd, NEW code, UNCHANGED store, out_err(cmd, k, code),
             code \in {"ERR_BAD_TYPE", "ERR_UNEXPECTED", "ERR_NOT_FOUND"},
             code = "ERR_NOT_FOUND" => ~ Found(k)
      PROVE  Refined
  BY <1>2, ErrorQuery DEF Abstract!Request
<1>3. ASSUME NEW cmd, NoSet(cmd, k) PROVE Refined
  BY <1>3, NoSetQuery DEF Abstract!Request
<1>4. ASSUME NEW val \in Value, Found(k), Renew(k, val)
      PROVE  /\ map' = [map EXCEPT ![k] = val]
             /\ expiry' = [expiry EXCEPT ![k] = now + DEFAULT_TTL_MS]
  <2>1. /\ deadline' \in [Obj -> Nat \cup {Never}]
        /\ \A p \in Obj \ {g_data[k]} : deadline'[p] = deadline[p]
        /\ deadline'[g_data[k]] = now + DEFAULT_TTL_MS
    BY <1>4, FoundFacts, SetTtlFacts, TimeAssumption DEF Renew, StoreInv
  <2>2. /\ map' = [map EXCEPT ![k] = val]
        /\ expiry' = [expiry EXCEPT ![k] = deadline'[g_data[k]]]
    BY <1>4, <2>1, ReplaceMaps DEF Renew
  <2> QED
    BY <2>1, <2>2
<1>5. ASSUME do_get(k) PROVE Refined
  <2>1. ASSUME HasType(k, "E_STR"), Answer("GET", k, "str", obj[g_data[k]].val.v),
               UNCHANGED store
        PROVE  Abstract!Query
    <3>1. /\ reply'.cmd = "GET" /\ reply'.tag = "str" /\ reply'.key = k
          /\ reply'.val = obj[g_data[k]].val.v
      BY <2>1 DEF Answer
    <3>2. /\ map[k] \in Value /\ map[k].alt = "str" /\ map[k].v = reply'.val
      BY <2>1, <3>1, StrFacts, MapFacts
    <3>3. map[k] = Abstract!StrVal(reply'.val)
      BY <3>2 DEF Value, Abstract!StrVal
    <3>4. <<reply'.cmd, reply'.tag>> \notin Abstract!Acknowledged
      BY <3>1 DEF Abstract!Acknowledged
    <3>5. Abstract!Truthful(reply')
      BY <3>1, <3>3 DEF Abstract!Truthful
    <3> QED
      BY <2>1, <3>4, <3>5, QueryFacts
  <2>2. CASE ~ Found(k) /\ out_err("GET", k, "ERR_NOT_FOUND")
    BY <2>2, <1>2, <1>5 DEF do_get
  <2>3. CASE Found(k) /\ out_err("GET", k, "ERR_BAD_TYPE")
    BY <2>3, <1>2, <1>5 DEF do_get
  <2> QED
    BY <1>5, <2>1, <2>2, <2>3 DEF do_get, Abstract!Request
<1>6. ASSUME NEW v \in Val, do_set(k, v) PROVE Refined
  <2>1. ASSUME HasType(k, "E_STR"), Renew(k, StrVal(v)),
               Answer("SET", k, "nil", Nil)
        PROVE  Abstract!PutStr(k, v)
    <3>1. map[k].alt = "str" /\ StrVal(v) = Abstract!StrVal(v)
      BY <2>1, StrFacts, MapFacts DEF StrVal, Abstract!StrVal
    <3> QED
      BY <2>1, <3>1, <1>1, <1>4, StrFacts, ValueFacts
         DEF Abstract!PutStr, Abstract!Renew
  <2>2. ASSUME ~ Found(k), Create(k, "E_STR", StrVal(v)),
               Answer("SET", k, "nil", Nil)
        PROVE  Abstract!PutStr(k, v)
    <3>1. StrVal(v) = Abstract!StrVal(v)
      BY DEF StrVal, Abstract!StrVal
    <3> QED
      BY <2>2, <3>1, <1>1, CreateMaps, MapFacts, ValueFacts
         DEF Abstract!PutStr, Abstract!Renew
  <2>3. CASE /\ Found(k) /\ ~ HasType(k, "E_STR")
             /\ out_err("SET", k, "ERR_BAD_TYPE") /\ UNCHANGED store
    BY <2>3, <1>2
  <2> QED
    BY <1>6, <2>1, <2>2, <2>3 DEF do_set, Abstract!Request
<1>7. ASSUME do_del(k) PROVE Refined
  <2>1. ASSUME Found(k), g_data' = [g_data EXCEPT ![k] = Nil],
               entry_del(g_data[k]), Answer("DEL", k, "int", 1)
        PROVE  Abstract!Remove(k)
    BY <2>1, <1>1, DeleteMaps, MapFacts
       DEF Abstract!Remove, Abstract!Drop, Abstract!Never, Never
  <2>2. CASE ~ Found(k) /\ out_err("DEL", k, "ERR_NOT_FOUND") /\ UNCHANGED store
    BY <2>2, <1>2
  <2> QED
    BY <1>7, <2>1, <2>2 DEF do_del, Abstract!Request
<1>8. ASSUME NEW s \in Number, NEW n \in Name, do_zadd(k, s, n) PROVE Refined
  <2>1. ASSUME HasType(k, "E_SET"), Renew(k, SetVal(Members(k) \cup {n})),
               Answer("ZADD", k, "nil", Nil)
        PROVE  Abstract!AddMember(k, n)
    <3>1. /\ Found(k) /\ map[k].alt = "set" /\ map[k].v = Members(k)
          /\ Members(k) \cup {n} \in SUBSET Name /\ Abstract!Present(k)
      BY <2>1, SetFacts, MapFacts DEF Members
    <3>2. /\ map' = [map EXCEPT ![k] = SetVal(map[k].v \cup {n})]
          /\ expiry' = [expiry EXCEPT ![k] = now + DEFAULT_TTL_MS]
      BY <2>1, <3>1, <1>4, ValueFacts
    <3> QED
      BY <2>1, <3>1, <3>2, <1>1
         DEF Abstract!AddMember, Abstract!Renew, Abstract!SetVal, SetVal
  <2>2. ASSUME ~ Found(k), Create(k, "E_SET", SetVal({n})),
               Answer("ZADD", k, "nil", Nil)
        PROVE  Abstract!AddMember(k, n)
    <3>1. ~ Abstract!Present(k) /\ {n} = {} \cup {n}
      BY <2>2, MapFacts
    <3>2. /\ map' = [map EXCEPT ![k] = SetVal({} \cup {n})]
          /\ expiry' = [expiry EXCEPT ![k] = now + DEFAULT_TTL_MS]
      BY <2>2, <3>1, CreateMaps, ValueFacts
    <3> QED
      BY <2>2, <3>1, <3>2, <1>1
         DEF Abstract!AddMember, Abstract!Renew, Abstract!SetVal, SetVal
  <2>3. CASE out_err("ZADD", k, ErrorOf(s)) /\ UNCHANGED store
    BY <2>3, <1>2, ArgumentErrors
  <2>4. CASE Found(k) /\ out_err("ZADD", k, "ERR_BAD_TYPE") /\ UNCHANGED store
    BY <2>4, <1>2
  <2> QED
    BY <1>8, <2>1, <2>2, <2>3, <2>4 DEF do_zadd, Abstract!Request
<1>9. ASSUME NEW n \in Name, do_zrem(k, n) PROVE Refined
  <2>1. ASSUME HasType(k, "E_SET"),
               obj' = [obj EXCEPT ![g_data[k]].val = SetVal(Members(k) \ {n})],
               Answer("ZREM", k, "int", 1),
               UNCHANGED <<g_data, deadline>>
        PROVE  Abstract!RemoveMember(k, n)
    <3>1. /\ Found(k) /\ map[k].alt = "set" /\ map[k].v = Members(k)
          /\ expiry[k] = deadline[g_data[k]]
          /\ Members(k) \ {n} \in SUBSET Name /\ Abstract!Present(k)
      BY <2>1, SetFacts, MapFacts DEF Members
    <3>2. /\ map' = [map EXCEPT ![k] = SetVal(map[k].v \ {n})]
          /\ expiry' = [expiry EXCEPT ![k] = expiry[k]]
      BY <2>1, <3>1, ReplaceMaps, ValueFacts DEF StoreInv
    <3>3. expiry' = expiry
      BY <3>2 DEF expiry, Found, data_lookup
    <3> QED
      BY <2>1, <3>1, <3>2, <3>3, <1>1
         DEF Abstract!RemoveMember, Abstract!SetVal, SetVal
  <2> QED
    BY <1>9, <2>1, <1>3 DEF do_zrem, Abstract!Request
<1>10. ASSUME do_zrank(k) PROVE Refined
  <2>1. ASSUME HasType(k, "E_SET"),
               deadline' = entry_set_ttl(g_data[k], DEFAULT_TTL_MS),
               Answer("ZRANK", k, "int", Nil),
               UNCHANGED <<g_data, obj>>
        PROVE  Abstract!Touch(k)
    <3>1. /\ Found(k) /\ map[k].alt = "set" /\ Abstract!Present(k)
          /\ obj[g_data[k]].val \in Value
      BY <2>1, SetFacts, MapFacts
    <3>2. map' = map /\ expiry' = [expiry EXCEPT ![k] = expiry'[k]]
      BY <2>1, <3>1, ExpiryMaps, TimeAssumption
    <3>3. expiry'[k] = now + DEFAULT_TTL_MS
      BY <2>1, <3>1, FoundFacts, SetTtlFacts, TimeAssumption
         DEF expiry, Found, data_lookup, StoreInv
    <3> QED
      BY <2>1, <3>1, <3>2, <3>3, <1>1 DEF Abstract!Touch, Abstract!Renew
  <2> QED
    BY <1>10, <2>1, <1>3 DEF do_zrank, Abstract!Request
<1>11. ASSUME NEW a \in Number, NEW ttl \in Ttl, do_expire(k, a, ttl)
       PROVE  Refined
  <2>1. ASSUME Found(k), deadline' = entry_set_ttl(g_data[k], ttl),
               Answer("EXPIRE", k, "nil", Nil), UNCHANGED <<g_data, obj>>
        PROVE  Abstract!SetExpiry(k, expiry'[k])
    BY <2>1, <1>1, ExpiryMaps, MapFacts, TimeAssumption
       DEF Abstract!SetExpiry, Abstract!Never, Never
  <2>2. CASE UNCHANGED store /\ ~ Found(k) /\ out_err("EXPIRE", k, "ERR_NOT_FOUND")
    BY <2>2, <1>2
  <2>3. CASE UNCHANGED store /\ out_err("EXPIRE", k, ErrorOf(a))
    BY <2>3, <1>2, ArgumentErrors
  <2> QED
    BY <1>11, <2>1, <2>2, <2>3 DEF do_expire, store, Abstract!Request
<1>12. ASSUME do_ttl(k) PROVE Refined
  <2>1. ASSUME Found(k), deadline[g_data[k]] # Never,
               Answer("TTL", k, "int", deadline[g_data[k]]), UNCHANGED store
        PROVE  Abstract!Query
    <3>1. /\ reply'.cmd = "TTL" /\ reply'.tag = "int" /\ reply'.key = k
          /\ reply'.val = deadline[g_data[k]]
      BY <2>1 DEF Answer
    <3>2. <<reply'.cmd, reply'.tag>> \notin Abstract!Acknowledged
      BY <3>1 DEF Abstract!Acknowledged
    <3>3. Abstract!Truthful(reply')
      BY <2>1, <3>1, MapFacts DEF Abstract!Truthful, Abstract!Never, Never
    <3> QED
      BY <2>1, <3>2, <3>3, QueryFacts
  <2>2. CASE ~ Found(k) /\ out_err("TTL", k, "ERR_NOT_FOUND")
    BY <2>2, <1>2, <1>12 DEF do_ttl
  <2>3. CASE UNCHANGED <<store, reply>>
    BY <2>3
  <2> QED
    BY <1>12, <2>1, <2>2, <2>3 DEF do_ttl, Abstract!Request
<1>13. ASSUME NEW cmd \in {"ZQUERY", "ZCOUNT"}, NEW tag \in {"arr", "int"},
              Answer(cmd, k, tag, Nil), UNCHANGED store
       PROVE  Refined
  <2>1. reply'.cmd = cmd /\ reply'.tag = tag
    BY <1>13 DEF Answer
  <2>2. <<reply'.cmd, reply'.tag>> \notin Abstract!Acknowledged
    BY <2>1 DEF Abstract!Acknowledged
  <2>3. Abstract!Truthful(reply')
    BY <2>1 DEF Abstract!Truthful
  <2> QED
    BY <1>13, <2>2, <2>3, QueryFacts DEF Abstract!Request
<1>14. ASSUME NEW a \in Number, do_zquery(k, a) PROVE Refined
  <2>1. CASE NoSet("ZQUERY", k)
    BY <2>1, <1>3
  <2>2. CASE out_err("ZQUERY", k, ErrorOf(a)) /\ UNCHANGED store
    BY <2>2, <1>2, ArgumentErrors
  <2>3. CASE Answer("ZQUERY", k, "arr", Nil) /\ UNCHANGED store
    BY <2>3, <1>13
  <2> QED
    BY <1>14, <2>1, <2>2, <2>3 DEF do_zquery
<1>15. ASSUME NEW a \in Number, do_zcount(k, a) PROVE Refined
  <2>1. CASE NoSet("ZCOUNT", k)
    BY <2>1, <1>3
  <2>2. CASE UNCHANGED <<store, reply>>
    BY <2>2
  <2>3. CASE Answer("ZCOUNT", k, "int", Nil) /\ UNCHANGED store
    BY <2>3, <1>13
  <2> QED
    BY <1>15, <2>1, <2>2, <2>3 DEF do_zcount
<1> HIDE DEF Refined
<1>16. Refined
  BY <1>5, <1>6, <1>7, <1>8, <1>9, <1>10, <1>11, <1>12, <1>14, <1>15
     DEF do_request
<1> QED
  BY <1>16 DEF Refined

\* So is a request that names no key.
LEMMA RequestRefines ==
  ASSUME StoreInv, now \in Nat, Request
  PROVE  Abstract!Request \/ UNCHANGED <<store, reply>>
<1>1. pc = "requests" /\ pc' = pc /\ now' = now
  BY DEF Request
<1>2. CASE \E c \in Cmds, k \in Key : do_request(c, k)
  BY <1>1, <1>2, CommandRefines
<1>3. ASSUME NEW cmd \in {"SDIE", "ECHO"}, Answer(cmd, Nil, "str", Nil),
             UNCHANGED store
      PROVE  Abstract!Query
  <2>1. reply'.cmd = cmd /\ reply'.tag = "str"
    BY <1>3 DEF Answer
  <2>2. <<reply'.cmd, reply'.tag>> \notin Abstract!Acknowledged
    BY <2>1 DEF Abstract!Acknowledged
  <2>3. Abstract!Truthful(reply')
    BY <2>1 DEF Abstract!Truthful
  <2> QED
    BY <1>1, <1>3, <2>2, <2>3, QueryFacts
<1>4. ASSUME out_err("other", Nil, "ERR_NOT_FOUND"), UNCHANGED store
      PROVE  Abstract!Query
  BY <1>1, <1>4, ErrorQuery
<1> QED
  BY <1>2, <1>3, <1>4 DEF Request, Abstract!Request

\* process_timers drops the key whose expiry is the earliest, and that only
\* after it has passed.
LEMMA ExpireRefines ==
  ASSUME IInv, ExpireTop
  PROVE  \E k \in Key : Abstract!Expire(k)
<1>1. PICK o \in Obj : /\ IsTop(o)
                       /\ g_data' = [g_data EXCEPT ![obj[o].key] = Nil]
                       /\ entry_del(o)
  BY DEF ExpireTop
<1>2. /\ StoreInv /\ now \in Nat /\ tnow \in 0 .. now
      /\ pc = "timers" /\ UNCHANGED <<now, pc, reply>>
  BY StoreOfInv DEF IInv, TypeOK, ExpireTop
<1> DEFINE k == obj[o].key
<1>3. obj[o] # Nil /\ obj[o] \in Entry /\ g_data[k] = o
  BY <1>1, <1>2 DEF IsTop, StoreInv, EntriesOwned
<1>4. k \in Key /\ Found(k)
  BY <1>3, NilAssumption DEF Entry, Found, data_lookup
<1> HIDE DEF k
<1>5. map' = [map EXCEPT ![k] = Nil] /\ expiry' = [expiry EXCEPT ![k] = Never]
  BY <1>1, <1>2, <1>3, <1>4, DeleteMaps DEF k
<1>6. expiry[k] = deadline[o] /\ Abstract!Present(k)
  BY <1>2, <1>3, <1>4, MapFacts
<1>7. deadline[o] # Never /\ deadline[o] < now
  <2>1. PICK p \in Obj : IsTop(p) /\ deadline[p] < tnow
    BY DEF ExpireTop, TopDue
  <2>2. deadline[o] \in Nat /\ deadline[p] \in Nat /\ deadline[o] <= deadline[p]
    BY <1>1, <1>2, <2>1 DEF IsTop, StoreInv
  <2> QED
    BY <1>1, <1>2, <2>1, <2>2 DEF IsTop
<1>8. \A j \in Key : expiry[j] # Never => deadline[o] <= expiry[j]
  <2> SUFFICES ASSUME NEW j \in Key, expiry[j] # Never
               PROVE  deadline[o] <= expiry[j]
    OBVIOUS
  <2>1. Found(j) /\ expiry[j] = deadline[g_data[j]]
    BY <1>2, MapFacts
  <2> QED
    BY <1>1, <1>2, <2>1, FoundFacts DEF IsTop
<1> QED
  BY <1>2, <1>4, <1>5, <1>6, <1>7, <1>8
     DEF Abstract!Expire, Abstract!Drop, Abstract!Never, Never

\* Every step of the server is one of the map, or none.
LEMMA NextRefines == IInv /\ [Next]_vars => [Abstract!Next]_(Abstract!vars)
<1> DEFINE Same == UNCHANGED <<map, expiry, now, pc, reply>>
<1> SUFFICES ASSUME IInv, [Next]_vars
             PROVE  Abstract!Next \/ Same
  BY DEF Abstract!vars
<1>1. StoreInv /\ now \in Nat
  BY StoreOfInv DEF IInv, TypeOK
<1>2. ASSUME Request PROVE Abstract!Next \/ Same
  <2>1. UNCHANGED <<now, pc>>
    BY <1>2 DEF Request
  <2> QED
    BY <1>1, <1>2, <2>1, RequestRefines, SameMaps DEF Abstract!Next
<1>3. ASSUME TimersBegin PROVE Abstract!TimersBegin
  BY <1>3, SameMaps DEF TimersBegin, Abstract!TimersBegin
<1>4. ASSUME TimersEnd PROVE Abstract!TimersEnd
  BY <1>4, SameMaps DEF TimersEnd, Abstract!TimersEnd
<1>5. ASSUME ExpireTop PROVE \E k \in Key : Abstract!Expire(k)
  BY <1>5, ExpireRefines
<1>6. ASSUME end_run PROVE Abstract!Wipe \/ Same
  <2>1. pc = "end" /\ UNCHANGED <<now, pc, reply>>
    BY <1>6 DEF end_run, loop
  <2>2. CASE UNCHANGED store
    BY <2>1, <2>2, SameMaps
  <2>3. CASE g_data' = [k \in Key |-> Nil]
    <3>1. map' = [k \in Key |-> Nil] /\ expiry' = [k \in Key |-> Never]
      BY <2>3 DEF map, expiry, Found, data_lookup
    <3> QED
      BY <2>1, <3>1 DEF Abstract!Wipe, Abstract!Never, Never
  <2> QED
    BY <1>6, <2>2, <2>3 DEF end_run
<1>7. ASSUME Tick PROVE Abstract!Tick
  BY <1>7, SameMaps DEF Tick, Abstract!Tick
<1>8. ASSUME UNCHANGED vars PROVE Same
  BY <1>8, SameMaps DEF vars, loop
<1> HIDE DEF Same
<1> QED
  BY <1>2, <1>3, <1>4, <1>5, <1>6, <1>7, <1>8 DEF Next, Timers, Abstract!Next

\* Every execution of the server, seen through the entry of each key and its
\* item in the heap, is one of a map with expiries.  A request changes at
\* most the key it names, and only if it is acknowledged; every other answer
\* changes nothing, and what GET, TTL and ERR_NOT_FOUND say is so.
\* process_timers removes only keys whose expiry has passed, the earliest
\* first.  A key keeps the kind of its value for as long as it is present.
THEOREM KeyspaceRefinesMap == Spec => ImplementsExpiringMap
<1>1. Init => Abstract!Init
  BY DEF Init, Abstract!Init, map, expiry, Found, data_lookup,
         Abstract!Never, Never
<1> QED
  BY <1>1, NextRefines, InvHolds, PTL
     DEF Spec, ImplementsExpiringMap, Abstract!Spec
=============================================================================
