------------------------------ MODULE TLSReload -----------------------------
(***************************************************************************)
(* The certificate that is reloaded when its file changes                  *)
(* (internal/tlsreload/reloader.go, started in cmd/proxy/main.go).  An     *)
(* operator writes two files; the poller stats one, reads both, and stats  *)
(* the first again for the time it remembers.  The n-th pair is n.         *)
(***************************************************************************)
EXTENDS UpkeepParameters

VARIABLES
    newest,       \* the pair the operator has, or is about to write
    cert, key,    \* the files: [pair, time]; the pair is 0 while it is written
    loaded,       \* the certificate that is served
    modTime,      \* Reloader.modTime
    poll,         \* where the poller is, and what it has read
    missed,       \* history: pairs written between the reading and the Stat
    clock         \* every write has a time of its own

files == <<newest, cert, key, clock>>
vars == <<files, loaded, modTime, poll, missed>>

Pair == 1 .. MaxRenewals + 1
Waiting == [pc |-> "wait"]

TypeOK ==
    /\ newest \in Pair
    /\ \A f \in {cert, key} : f.pair \in {0, newest - 1, newest} /\ f.time <= clock
    /\ loaded \in 1 .. newest /\ modTime \in 0 .. clock
    /\ poll.pc \in {"wait", "cert", "key", "stat"}
    /\ missed \subseteq 1 .. newest

\* New fails, and with it the proxy, unless there is a pair.
Init ==
    /\ newest = 1 /\ clock = 0
    /\ cert = [pair |-> 1, time |-> 0] /\ key = [pair |-> 1, time |-> 0]
    /\ loaded = 1 /\ modTime = 0
    /\ poll = Waiting /\ missed = {}

-----------------------------------------------------------------------------
(* The operator writes one file and then the other, each at once or in two  *)
(* steps.                                                                    *)

Renew ==
    /\ newest <= MaxRenewals
    /\ cert.pair = newest /\ key.pair = newest
    /\ newest' = newest + 1
    /\ UNCHANGED <<cert, key, clock, loaded, modTime, poll, missed>>

Written(f) == {[pair |-> n, time |-> clock + 1] : n \in {0, newest} \ {f.pair}}

WriteCert ==
    /\ cert.pair # newest
    /\ cert' \in Written(cert)
    /\ clock' = clock + 1
    /\ UNCHANGED <<newest, key, loaded, modTime, poll, missed>>

WriteKey ==
    /\ key.pair # newest
    /\ key' \in Written(key)
    /\ clock' = clock + 1
    /\ UNCHANGED <<newest, cert, loaded, modTime, poll, missed>>

-----------------------------------------------------------------------------
(* poll, and load *)

Stat ==
    /\ poll = Waiting
    /\ cert.time > modTime
    /\ poll' = [pc |-> "cert"]
    /\ UNCHANGED <<files, loaded, modTime, missed>>

ReadCert ==
    /\ poll.pc = "cert"
    /\ poll' = [pc |-> "key", cert |-> cert]
    /\ UNCHANGED <<files, loaded, modTime, missed>>

\* LoadX509KeyPair: an error, and the next tick tries again, unless both files
\* are whole and go together.
RememberFailure == modTime' = cert.time        \* mutant: the time is kept first
TryAgain == UNCHANGED modTime

ReadKey ==
    /\ poll.pc = "key"
    /\ IF poll.cert.pair # 0 /\ poll.cert.pair = key.pair
         THEN poll' = [poll EXCEPT !.pc = "stat"] /\ UNCHANGED modTime
         ELSE poll' = Waiting /\ TryAgain
    /\ UNCHANGED <<files, loaded, missed>>

Install ==
    /\ poll.pc = "stat"
    /\ loaded' = poll.cert.pair
    /\ modTime' = cert.time
    /\ missed' = IF cert.pair # 0 /\ cert.time # poll.cert.time THEN missed \cup {cert.pair} ELSE missed
    /\ poll' = Waiting
    /\ UNCHANGED files

Poll == Stat \/ ReadCert \/ ReadKey \/ Install

Next == Renew \/ WriteCert \/ WriteKey \/ Poll

-----------------------------------------------------------------------------
(* Properties *)

\* A renewed pair is served, in whatever order and however slowly its files
\* are written, unless another renewal begins or the certificate was written
\* after the pair was read and before the Stat: that time is taken for the
\* time of what was read, and the renewal is not seen.
RenewalServed ==
    \A n \in Pair :
        cert.pair = n /\ key.pair = n ~> loaded = n \/ newest > n \/ n \in missed
=============================================================================
