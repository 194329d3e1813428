------------------------------ MODULE FileStore -----------------------------
(***************************************************************************)
(* The key-value store in a file (File of internal/store/store.go), opened *)
(* on demand for a tenant (internal/store/multitenant.go).  A change is    *)
(* made in memory first; then all of memory is written to a temporary file *)
(* and renamed.  Instances of the store are numbered as they are opened.   *)
(***************************************************************************)
EXTENDS UpkeepParameters, GoMaps

VARIABLES
    tenant,       \* MultiTenant.tenants[t]: an instance, or 0
    memory,       \* instance -> File.data
    disk,         \* the file
    lock,         \* instance -> the holder of File.mu
    call,         \* calls in progress
    acked,        \* history: key -> the value last answered for, NoValue if none
    tried,        \* history: key -> values whose change failed, or is on its way
    faults

vars == <<tenant, memory, disk, lock, call, acked, tried, faults>>

NoValue == 0
Value == {NoValue, 1}              \* Delete is the change to NoValue
NoKey == "none"                    \* of what Close writes
Idle == [pc |-> "idle"]

IsMap(m) == DOMAIN m \subseteq StoreKey /\ \A k \in DOMAIN m : m[k] \in Value \ {NoValue}
At(m, k) == Get(m, k, NoValue)

Init ==
    /\ tenant = 0 /\ memory = <<>> /\ lock = <<>>
    /\ disk = EmptyMap
    /\ call = [p \in Proc |-> Idle]
    /\ acked = [k \in StoreKey |-> NoValue] /\ tried = [k \in StoreKey |-> {}]
    /\ faults = 0

TypeOK ==
    /\ tenant \in 0 .. Len(memory) /\ Len(lock) = Len(memory)
    /\ \A i \in DOMAIN memory : IsMap(memory[i]) /\ lock[i] \in Proc \cup {NoProc}
    /\ IsMap(disk)
    /\ \A p \in Proc : call[p].pc \in {"idle", "open", "change", "write", "rename"}
    /\ acked \in [StoreKey -> Value] /\ tried \in [StoreKey -> SUBSET Value]

-----------------------------------------------------------------------------
\* For: is there a store?
For(p, k, v) ==
    /\ call[p] = Idle
    /\ call' = [call EXCEPT ![p] = [pc |-> IF tenant = 0 THEN "open" ELSE "change",
                                    store |-> tenant, key |-> k, value |-> v]]
    /\ UNCHANGED <<tenant, memory, disk, lock, acked, tried, faults>>

\* ... with the lock, once more; if not NewFile reads the file.
Opened == tenant # 0
Found(c, store) == [pc |-> "change", store |-> store, key |-> c.key, value |-> c.value]

Open(p) ==
    /\ call[p].pc = "open"
    /\ IF Opened
         THEN /\ call' = [call EXCEPT ![p] = Found(@, tenant)]
              /\ UNCHANGED <<tenant, memory, lock>>
         ELSE /\ tenant' = Len(memory) + 1
              /\ memory' = Append(memory, disk)
              /\ lock' = Append(lock, NoProc)
              /\ call' = [call EXCEPT ![p] = Found(@, Len(memory) + 1)]
    /\ UNCHANGED <<disk, acked, tried, faults>>

\* Set, Delete
Change(p) ==
    LET c == call[p]
    IN /\ c.pc = "change"
       /\ lock[c.store] = NoProc
       /\ lock' = [lock EXCEPT ![c.store] = p]
       /\ memory' = [memory EXCEPT ![c.store] =
                       IF c.value = NoValue THEN Drop(@, {c.key}) ELSE Put(@, c.key, c.value)]
       /\ tried' = [tried EXCEPT ![c.key] = @ \cup {c.value}]
       /\ call' = [call EXCEPT ![p].pc = "write"]
       /\ UNCHANGED <<tenant, disk, acked, faults>>

\* Close, and CloseAll: all of memory is written once more.
Close(p) ==
    /\ call[p] = Idle /\ tenant # 0
    /\ lock[tenant] = NoProc
    /\ lock' = [lock EXCEPT ![tenant] = p]
    /\ call' = [call EXCEPT ![p] = [pc |-> "write", store |-> tenant, key |-> NoKey, value |-> NoValue]]
    /\ UNCHANGED <<tenant, memory, disk, acked, tried, faults>>

\* flush: the temporary file, ...
WriteTmp(p) == UNCHANGED disk

Write(p) ==
    /\ call[p].pc = "write"
    /\ WriteTmp(p)
    /\ call' = [call EXCEPT ![p].pc = "rename"]
    /\ UNCHANGED <<tenant, memory, lock, acked, tried, faults>>

\* ... its name, and the answer.
Rename(p) ==
    LET c == call[p]
    IN /\ c.pc = "rename"
       /\ disk' = memory[c.store]
       /\ lock' = [lock EXCEPT ![c.store] = NoProc]
       /\ acked' = [k \in StoreKey |-> IF k = c.key THEN c.value ELSE acked[k]]
       /\ tried' = [k \in StoreKey |-> IF k = c.key THEN {} ELSE tried[k]]
       /\ call' = [call EXCEPT ![p] = Idle]
       /\ UNCHANGED <<tenant, memory, faults>>

\* Create, Write, Sync or Rename fails: an error, and memory stays changed.
Fail(p) ==
    /\ call[p].pc \in {"write", "rename"}
    /\ faults < MaxStoreFaults
    /\ faults' = faults + 1
    /\ lock' = [lock EXCEPT ![call[p].store] = NoProc]
    /\ call' = [call EXCEPT ![p] = Idle]
    /\ UNCHANGED <<tenant, memory, disk, acked, tried>>

\* The process ends, and starts with what the file holds.
Restart ==
    /\ faults < MaxStoreFaults
    /\ faults' = faults + 1
    /\ tenant' = 0
    /\ memory' = <<>> /\ lock' = <<>>
    /\ call' = [p \in Proc |-> Idle]
    /\ UNCHANGED <<disk, acked, tried>>

Next ==
    \/ \E p \in Proc :
          \/ \E k \in StoreKey, v \in Value : For(p, k, v)
          \/ Open(p) \/ Change(p) \/ Close(p) \/ Write(p) \/ Rename(p) \/ Fail(p)
    \/ Restart

-----------------------------------------------------------------------------
(* Properties *)

\* What Set and Delete have answered for is in the file, also after a crash,
\* unless a later change of the key has failed, or is on its way: a change
\* that failed stays in memory and goes to disk with the next one.  Memory is
\* ahead of the file in no other case.
AnsweredIsOnDisk ==
    /\ \A k \in StoreKey : At(disk, k) \in {acked[k]} \cup tried[k]
    /\ tenant # 0 =>
          \A k \in StoreKey : At(memory[tenant], k) # At(disk, k) => tried[k] # {}
=============================================================================
