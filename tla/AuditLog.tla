------------------------------ MODULE AuditLog ------------------------------
(***************************************************************************)
(* The audit log (internal/audit/auditor.go, store.go): an entry is        *)
(* written to the output, then, under a lock, to a ring of the newest      *)
(* entries, then without the lock to the file.  The n-th entry of the ring *)
(* is n.                                                                   *)
(***************************************************************************)
EXTENDS UpkeepParameters, FiniteSets, Functions

VARIABLES
    tags,         \* history: what a query filters by, of each entry
    ring,         \* MemoryStore.entries
    file,         \* the entries in the file
    fileState,    \* "open", "closed", or "failed": an encoder keeps its error
    emit          \* caller of Emit -> [pc, tag, entry]

vars == <<tags, ring, file, fileState, emit>>

Idle == [pc |-> "idle"]

Init ==
    /\ tags = <<>> /\ ring = <<>> /\ file = <<>> /\ fileState = "open"
    /\ emit = [p \in Proc |-> Idle]

TypeOK ==
    /\ tags \in Seq(Tag) /\ Len(ring) <= RingSize
    /\ \A i \in DOMAIN file : file[i] \in DOMAIN tags
    /\ fileState \in {"open", "closed", "failed"}
    /\ \A p \in Proc : emit[p].pc \in {"idle", "store", "file"}

-----------------------------------------------------------------------------
\* Log, LogAuth, LogCedar and Emit: the output, ...
Emit(p, tag) ==
    /\ emit[p] = Idle
    /\ Len(tags) + Cardinality({q \in Proc : emit[q].pc = "store"}) < MaxEntries
    /\ emit' = [emit EXCEPT ![p] = [pc |-> "store", tag |-> tag]]
    /\ UNCHANGED <<tags, ring, file, fileState>>

\* ... MemoryStore.Write, ...
Trim(s) == IF Len(s) > RingSize THEN SubSeq(s, Len(s) - RingSize + 1, Len(s)) ELSE s

Write(p) ==
    /\ emit[p].pc = "store"
    /\ tags' = Append(tags, emit[p].tag)
    /\ ring' = Trim(Append(ring, Len(tags) + 1))
    /\ emit' = [emit EXCEPT ![p] = [pc |-> "file", entry |-> Len(tags) + 1]]
    /\ UNCHANGED <<file, fileState>>

\* ... and its file: entries of two callers may change places, and after a
\* write that failed none follows.
Encode(p) ==
    /\ emit[p].pc = "file"
    /\ \/ fileState = "open" /\ file' = Append(file, emit[p].entry) /\ UNCHANGED fileState
       \/ fileState' = "failed" /\ UNCHANGED file
    /\ emit' = [emit EXCEPT ![p] = Idle]
    /\ UNCHANGED <<tags, ring>>

\* Close, when the proxy shuts down.
Close ==
    /\ fileState = "open"
    /\ fileState' = "closed"
    /\ UNCHANGED <<tags, ring, file, emit>>

Next ==
    \/ \E p \in Proc : (\E tag \in Tag : Emit(p, tag)) \/ Write(p) \/ Encode(p)
    \/ Close

\* MemoryStore.Query goes through the ring from the newest entry to the oldest
\* until it has as many as it may return.
Query(tag, limit) ==
    LET match == {e \in Range(ring) : tags[e] = tag}
    IN {e \in match : Cardinality({f \in match : f > e}) < limit}

-----------------------------------------------------------------------------
(* Properties *)

\* A query returns the newest entries that match of all that were ever
\* written, with none left out that is newer than one of them, though the ring
\* drops entries, and never too many; it returns fewer than it may, and not
\* all, only when the ring has dropped some.  What the file holds it holds once.
NewestWithoutGaps ==
    /\ \A tag \in Tag, limit \in 1 .. RingSize :
          LET all == {e \in DOMAIN tags : tags[e] = tag}
              found == Query(tag, limit)
          IN /\ found \subseteq all /\ Cardinality(found) <= limit
             /\ \A e \in found, f \in all : f > e => f \in found
             /\ Cardinality(found) < limit /\ found # all => Len(tags) > RingSize
    /\ IsInjective(file)
=============================================================================
