\* Two keys, all commands, short lifetimes, one deletion per process_timers.
CONSTANTS
  Key = {k1, k2}
  Val = {v1}
  Name = {n1}
  Obj = {1, 2}
  Ttl <- MCTtl
  Cmds <- AllCmds
  DEFAULT_TTL_MS = 1
  MAX_WORKS = 1
  MaxTime = 2
  Nil = Nil
SPECIFICATION Spec
CHECK_DEADLOCK FALSE
INVARIANTS TypeOK EntriesOwned TagMatchesVariant OverdueOnlyWhenBusy
PROPERTIES ImplementsExpiringMap
