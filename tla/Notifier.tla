------------------------------ MODULE Notifier ------------------------------
(***************************************************************************)
(* The webhook notifier (internal/events/notifier.go): Emit puts an event  *)
(* into a channel and drops it when the channel is full, one goroutine     *)
(* posts the events to every URL, each once.  Stop closes the channel and  *)
(* waits for the goroutine.  The n-th event is n.                          *)
(***************************************************************************)
EXTENDS UpkeepParameters

VARIABLES
    ch,           \* the events in the channel
    stopped,      \* the flag Emit looks at
    closed,       \* the channel is closed
    done,         \* drain has returned
    post,         \* the event drain is posting, and to which of the URLs
    call,         \* caller -> where it is in Emit or Stop
    accepted,     \* history: the events that went into the channel
    attempts,     \* history: <<event, url>> posted, in order
    panics,       \* sends on the closed channel
    emitted

flags == <<stopped, closed, done>>
vars == <<ch, flags, post, call, accepted, attempts, panics, emitted>>

NoPost == [event |-> 0, url |-> 0]

TypeOK ==
    /\ Len(ch) <= QueueSize
    /\ closed => stopped
    /\ done => closed /\ ch = <<>> /\ post = NoPost
    /\ \A p \in Proc : call[p] \in {"idle", "send", "close", "wait"}
    /\ panics <= emitted /\ emitted \in 0 .. MaxEvents

Init ==
    /\ ch = <<>> /\ stopped = FALSE /\ closed = FALSE /\ done = FALSE
    /\ post = NoPost
    /\ call = [p \in Proc |-> "idle"]
    /\ accepted = <<>> /\ attempts = <<>> /\ panics = 0 /\ emitted = 0

-----------------------------------------------------------------------------
\* Emit returns at once without URLs and after Stop; ...
Emit(p) ==
    /\ call[p] = "idle"
    /\ Urls # <<>> /\ ~stopped
    /\ emitted < MaxEvents
    /\ emitted' = emitted + 1
    /\ call' = [call EXCEPT ![p] = "send"]
    /\ UNCHANGED <<ch, flags, post, accepted, attempts, panics>>

\* ... it sends later, drops the event when the channel is full, and panics
\* when it has been closed meanwhile (net/http recovers the handler).
Send(p) ==
    /\ call[p] = "send"
    /\ call' = [call EXCEPT ![p] = "idle"]
    /\ LET e == Len(accepted) + 1
       IN \/ closed /\ panics' = panics + 1 /\ UNCHANGED <<ch, accepted>>
          \/ ~closed /\ Len(ch) < QueueSize /\ ch' = Append(ch, e)
                /\ accepted' = Append(accepted, e) /\ UNCHANGED panics
          \/ ~closed /\ Len(ch) = QueueSize /\ UNCHANGED <<ch, accepted, panics>>
    /\ UNCHANGED <<flags, post, attempts, emitted>>

\* Stop: once the flag, ...
Stop(p) ==
    /\ call[p] = "idle" /\ ~stopped
    /\ stopped' = TRUE
    /\ call' = [call EXCEPT ![p] = "close"]
    /\ UNCHANGED <<ch, closed, done, post, accepted, attempts, panics, emitted>>

\* ... then the channel, ...
Close(p) ==
    /\ call[p] = "close"
    /\ closed' = TRUE
    /\ call' = [call EXCEPT ![p] = "wait"]
    /\ UNCHANGED <<ch, stopped, done, post, accepted, attempts, panics, emitted>>

\* ... and the end of drain.
Stopped(p) ==
    /\ call[p] = "wait" /\ done
    /\ call' = [call EXCEPT ![p] = "idle"]
    /\ UNCHANGED <<ch, flags, post, accepted, attempts, panics, emitted>>

-----------------------------------------------------------------------------
(* drain *)

Receive ==
    /\ post = NoPost /\ ch # <<>>
    /\ post' = [event |-> Head(ch), url |-> 1]
    /\ ch' = Tail(ch)
    /\ UNCHANGED <<flags, call, accepted, attempts, panics, emitted>>

\* A webhook that fails, or does not answer in 5 seconds, is not tried again.
RetryUntilDelivered ==                         \* mutant
    post' \in {post, IF post.url < Len(Urls) THEN [post EXCEPT !.url = @ + 1] ELSE NoPost}
NextUrl == post' = IF post.url < Len(Urls) THEN [post EXCEPT !.url = @ + 1] ELSE NoPost

Post ==
    /\ post # NoPost
    /\ attempts' = Append(attempts, <<post.event, Urls[post.url]>>)
    /\ NextUrl
    /\ UNCHANGED <<ch, flags, call, accepted, panics, emitted>>

\* range ends when the channel is closed and empty.
Drained == closed /\ ch = <<>>

Return ==
    /\ post = NoPost /\ ~done
    /\ Drained
    /\ done' = TRUE
    /\ UNCHANGED <<ch, stopped, closed, post, call, accepted, attempts, panics, emitted>>

Drain == Receive \/ Post \/ Return

Next ==
    \/ \E p \in Proc : Emit(p) \/ Send(p) \/ Stop(p) \/ Close(p) \/ Stopped(p)
    \/ Drain

-----------------------------------------------------------------------------
(* Properties *)

\* Each event in the channel is posted once to every URL, in the order of the
\* channel; Stop does not return before the last one.
AttemptedOnceInOrder ==
    LET n == Len(Urls)
    IN /\ Len(attempts) <= n * Len(accepted)
       /\ \A e \in DOMAIN accepted, u \in DOMAIN Urls :
             LET i == n * (e - 1) + u
             IN i <= Len(attempts) => attempts[i] = <<accepted[e], Urls[u]>>
       /\ done => Len(attempts) = n * Len(accepted)

\* A caller of Stop does not wait for ever.
StopReturns == \A p \in Proc : call[p] \in {"close", "wait"} ~> call[p] = "idle"
=============================================================================
