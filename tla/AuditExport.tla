----------------------------- MODULE AuditExport ----------------------------
(***************************************************************************)
(* The export of the audit log (internal/auditexport/exporter.go).  A      *)
(* flush takes the whole buffer and then uploads it under a key made of    *)
(* the second; the ticker's loop flushes, and so does whoever calls Flush  *)
(* or Stop.  The n-th entry added is n.                                    *)
(***************************************************************************)
EXTENDS UpkeepParameters, FiniteSets, GoMaps

VARIABLES
    buf,          \* Exporter.buf
    flush,        \* who flushes -> [pc, batch, key]
    objects,      \* what the uploader's store holds: key -> batch
    lost,         \* history: entries of uploads that failed or were overwritten
    stopped,      \* stopCh is closed
    second,
    added

vars == <<buf, flush, objects, lost, stopped, second, added>>

Flusher == {"loop"} \cup Proc
Idle == [pc |-> "idle"]
Ended == [pc |-> "ended"]

Init ==
    /\ buf = <<>>
    /\ flush = [f \in Flusher |-> Idle]
    /\ objects = EmptyMap /\ lost = {}
    /\ stopped = FALSE /\ second = 0 /\ added = 0

TypeOK ==
    /\ Range(buf) \subseteq 1 .. added /\ lost \subseteq 1 .. added
    /\ \A f \in Flusher : flush[f].pc \in {"idle", "take", "upload", "ended"}
    /\ flush["loop"] = Ended => stopped
    /\ DOMAIN objects \subseteq 0 .. second

-----------------------------------------------------------------------------
Add ==
    /\ added < MaxEntries
    /\ added' = added + 1
    /\ buf' = Append(buf, added + 1)
    /\ UNCHANGED <<flush, objects, lost, stopped, second>>

\* A caller calls Flush, or Stop, which closes stopCh first.
Call(p, stop) ==
    /\ flush[p] = Idle
    /\ flush' = [flush EXCEPT ![p] = [pc |-> "take"]]
    /\ stopped' = (stopped \/ stop)
    /\ UNCHANGED <<buf, objects, lost, second, added>>

\* loop: when both channels are ready, either is taken.
Fire ==
    /\ flush["loop"] = Idle
    /\ flush' = [flush EXCEPT !["loop"] = [pc |-> "take"]]
    /\ UNCHANGED <<buf, objects, lost, stopped, second, added>>

End ==
    /\ flush["loop"] = Idle /\ stopped
    /\ flush' = [flush EXCEPT !["loop"] = Ended]
    /\ UNCHANGED <<buf, objects, lost, stopped, second, added>>

\* Flush: the buffer is taken, ...
Leave(f) == UNCHANGED buf                      \* mutant: taken when uploaded
Empty(f) == buf' = <<>>

Take(f) ==
    /\ flush[f].pc = "take"
    /\ flush' = [flush EXCEPT ![f] =
          IF buf = <<>> THEN Idle ELSE [pc |-> "upload", batch |-> Range(buf), key |-> second]]
    /\ Empty(f)
    /\ UNCHANGED <<objects, lost, stopped, second, added>>

\* ... and uploaded once, over an object of the same second; ...
Upload(f) ==
    /\ flush[f].pc = "upload"
    /\ objects' = Put(objects, flush[f].key, flush[f].batch)
    /\ lost' = lost \cup Get(objects, flush[f].key, {})
    /\ flush' = [flush EXCEPT ![f] = Idle]
    /\ UNCHANGED <<buf, stopped, second, added>>

\* ... when the upload fails the batch is gone.
UploadFails(f) ==
    /\ flush[f].pc = "upload"
    /\ lost' = lost \cup flush[f].batch
    /\ flush' = [flush EXCEPT ![f] = Idle]
    /\ UNCHANGED <<buf, objects, stopped, second, added>>

Tick ==
    /\ second < MaxExports
    /\ second' = second + 1
    /\ UNCHANGED <<buf, flush, objects, lost, stopped, added>>

Next ==
    \/ Add \/ Fire \/ End \/ Tick
    \/ \E p \in Proc : Call(p, TRUE) \/ Call(p, FALSE)
    \/ \E f \in Flusher : Take(f) \/ Upload(f) \/ UploadFails(f)

-----------------------------------------------------------------------------
(* Properties *)

\* However flushes overlap, each entry is in one place: the buffer, one batch,
\* one object, or it was in an upload that failed or was overwritten in the
\* same second.  None is exported twice, none is lost in another way.
EachEntryInOnePlace ==
    LET uploading == {f \in Flusher : flush[f].pc = "upload"}
        batches == {<<"batch", f, flush[f].batch>> : f \in uploading}
        stored == {<<"object", k, objects[k]>> : k \in DOMAIN objects}
        Places(e) == {x \in batches \cup stored \cup {<<"buf", 0, Range(buf)>>, <<"lost", 0, lost>>} :
                        e \in x[3]}
    IN \A e \in 1 .. added : Cardinality(Places(e)) = 1

\* After Stop the loop ends, and what was added before is not left behind.
StopFlushes ==
    /\ stopped ~> flush["loop"] = Ended
    /\ \A e \in 1 .. MaxEntries :
          e \in Range(buf) /\ stopped /\ (\E p \in Proc : flush[p].pc = "take")
              ~> e \notin Range(buf)
=============================================================================
