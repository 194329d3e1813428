---------------------------- MODULE UpkeepProofs ----------------------------
(***************************************************************************)
(* The properties of Upkeep hold for any number of requests, clients,      *)
(* keys, webhooks, entries and ticks: TypeOK, AnsweredIsOnDisk,            *)
(* HandedOverOnce, KeptCredentialsHold and DiskNeverForgets.  Each part    *)
(* has an inductive invariant of its own; the parts share no variable but  *)
(* the clock of the credentials, so the invariant of Upkeep (IInv, at the  *)
(* end) is theirs side by side.                                            *)
(***************************************************************************)
EXTENDS Upkeep, FiniteSetTheorems, SequenceTheorems, WellFoundedInduction, TLAPS

-----------------------------------------------------------------------------
(* ClientRegistry: registration and the client file. *)

\* What a request has still to do: the steps manager, save, write, respond by
\* their initials.
MSR == <<"manager", "save", "respond">>
SR == <<"save", "respond">>
WR == <<"write", "respond">>
Re == <<"respond">>
MSRS == <<"manager", "save", "respond", "save">>
SRS == <<"save", "respond", "save">>
WRS == <<"write", "respond", "save">>
RS == <<"respond", "save">>
Sa == <<"save">>
Wr == <<"write">>

Plan(op) ==
    CASE op = "register" -> {MSR, SR, WR, Re}
      [] op = "rotate" -> {MSRS, SRS, WRS, RS, Sa, Wr}
      [] op \in {"update", "delete"} -> {RS, Sa, Wr}
      [] op = "shutdown" -> {Sa, Wr}
      [] OTHER -> {}

Todos == {MSR, SR, WR, Re, MSRS, SRS, WRS, RS, Sa, Wr}
Saves(todo) == todo \in {MSR, SR, MSRS, SRS, WRS, RS, Sa}


Same(t, u, c) == (c \in DOMAIN t <=> c \in DOMAIN u) /\ (c \in DOMAIN t => t[c] = u[c])
Pending(c) == \E q \in Proc : req[q].id = c /\ Saves(req[q].todo)
Saving(c) == \E q \in Proc : req[q].id = c /\ lock = q

\* A request in progress is at one of the places of its handler; it has the
\* lock while it writes.
RequestOK(p) ==
    LET r == req[p]
    IN /\ r = [op |-> r.op, id |-> r.id, secret |-> r.secret, todo |-> r.todo]
       /\ r = R!Idle \/ r.todo \in Plan(r.op)
       /\ r # R!Idle /\ r.op # "shutdown" => r.id \in DOMAIN app
       /\ r.op = "shutdown" => r.id = R!NoClient
       /\ r.secret \in 0 .. drawn
       /\ r.op \in {"register", "rotate"} => r.secret > 0
       /\ lock = p <=> r.todo \in {WR, WRS, Wr}

\* What such a request has brought about so far.
Kept(p) ==
    LET r == req[p]
    IN r.op \in {"register", "rotate"} =>
          /\ r.todo \in {Re, RS} => r.id \in DOMAIN R!Recoverable \cup unsaved
          /\ r.todo \in {WR, WRS, Wr} => r.id \in DOMAIN snapshot
          /\ r.todo \notin {MSR, MSRS} => r.id \in DOMAIN manager

\* What is on disk, in the snapshot of the holder of the lock, and in the
\* manager: the same, but for what is on its way or has failed.
OnDisk ==
    /\ main # Corrupt /\ bak # Corrupt
    /\ DOMAIN R!Recoverable \subseteq DOMAIN manager
    /\ lock # NoProc =>
          /\ DOMAIN R!Recoverable \subseteq DOMAIN snapshot
          /\ DOMAIN snapshot \subseteq DOMAIN manager
          /\ \A c \in R!Client : Same(snapshot, manager, c) \/ Pending(c)
    /\ \A c \in R!Client :
          /\ Same(R!Recoverable, manager, c) \/ c \in unsaved \/ Pending(c) \/ Saving(c)
          /\ R!Answered(c) => c \in DOMAIN R!Recoverable \cup unsaved
    /\ \A p \in Proc : Kept(p)

RTables ==
    /\ R!IsTable(app) /\ R!IsTable(manager) /\ R!IsTable(snapshot)
    /\ listed \subseteq DOMAIN app
    /\ R!IsFile(main) /\ R!IsFile(bak)
    /\ lock \in Proc \cup {NoProc}
    /\ req = [p \in Proc |-> req[p]]
    /\ drawn \in 0 .. MaxSecrets
    /\ acked \in [R!Client -> 0 .. drawn] /\ unsaved \subseteq R!Client
    /\ faults \in [restarts : Nat, failures : Nat, corruptions : Nat]

RInv ==
    /\ RTables
    /\ \A p \in Proc : RequestOK(p)
    /\ faults.corruptions = 0 => OnDisk

\* The step a request is at, and (Tails, Writes) what it has to do after it, or
\* once it has the lock.
LEMMA Heads ==
    /\ Head(MSR) = "manager" /\ Head(MSRS) = "manager"
    /\ Head(SR) = "save" /\ Head(SRS) = "save" /\ Head(Sa) = "save"
    /\ Head(WR) = "write" /\ Head(WRS) = "write" /\ Head(Wr) = "write"
    /\ Head(Re) = "respond" /\ Head(RS) = "respond"
  BY DEF MSR, SR, WR, Re, MSRS, SRS, WRS, RS, Sa, Wr

LEMMA Tails ==
    /\ Tail(MSR) = SR /\ Tail(MSRS) = SRS
    /\ Tail(WR) = Re /\ Tail(WRS) = RS /\ Tail(RS) = Sa
    /\ Tail(SR) = Re /\ Tail(SRS) = RS /\ Tail(Sa) = <<>>
<1>1. Tail(MSR) = SR  BY DEF MSR, SR
<1>2. Tail(MSRS) = SRS  BY DEF MSRS, SRS
<1>3. Tail(WR) = Re  BY DEF WR, Re
<1>4. Tail(WRS) = RS  BY DEF WRS, RS
<1>5. Tail(RS) = Sa  BY DEF RS, Sa
<1>6. Tail(SR) = Re  BY DEF SR, Re
<1>7. Tail(SRS) = RS  BY DEF SRS, RS
<1>8. Tail(Sa) = <<>>  BY DEF Sa
<1> QED  BY <1>1, <1>2, <1>3, <1>4, <1>5, <1>6, <1>7, <1>8

\* A step put in front of a sequence of steps.
LEMMA Prepend ==
    ASSUME NEW W, NEW a \in W, NEW s \in Seq(W)
    PROVE  /\ <<a>> \o s \in Seq(W) /\ Len(<<a>> \o s) = Len(s) + 1
           /\ (<<a>> \o s)[1] = a /\ \A i \in 1 .. Len(s) : (<<a>> \o s)[i + 1] = s[i]
<1>1. <<a>> \in Seq(W) /\ Len(<<a>>) = 1 /\ <<a>>[1] = a  OBVIOUS
<1>2. PICK t : t = <<a>>  OBVIOUS
<1>3. t \in Seq(W) /\ Len(t) = 1 /\ t[1] = a  BY <1>1, <1>2
<1>4. /\ t \o s \in Seq(W) /\ Len(t \o s) = 1 + Len(s)
      /\ \A i \in 1 .. 1 + Len(s) : (t \o s)[i] = IF i <= 1 THEN t[1] ELSE s[i - 1]
  <2>1. /\ t \o s \in Seq(W) /\ Len(t \o s) = Len(t) + Len(s)
        /\ \A i \in 1 .. Len(t) + Len(s) : (t \o s)[i] = IF i <= Len(t) THEN t[i] ELSE s[i - Len(t)]
    BY <1>3, ConcatProperties
  <2>2. \A i \in 1 .. 1 + Len(s) : i <= 1 => i = 1  OBVIOUS
  <2> QED  BY <1>3, <2>1, <2>2
<1>5. Len(s) \in Nat  OBVIOUS
<1> QED  BY <1>2, <1>3, <1>4, <1>5

LEMMA Writes ==
    /\ <<"write">> \o Tail(SR) = WR /\ <<"write">> \o Tail(SRS) = WRS
    /\ <<"write">> \o Tail(Sa) = Wr
<1>1. <<"write">> \o Re = WR
  <2>1. Re \in Seq(R!Step) /\ Len(Re) = 1 /\ Re[1] = "respond"  BY DEF Re, R!Step
  <2>2. WR \in Seq(R!Step) /\ Len(WR) = 2 /\ WR[1] = "write" /\ WR[2] = "respond"  BY DEF WR, R!Step
  <2>3. "write" \in R!Step  BY DEF R!Step
  <2>4. PICK u : u = <<"write">> \o Re  OBVIOUS
  <2>5. u \in Seq(R!Step) /\ Len(u) = 2 /\ u[1] = "write" /\ u[2] = "respond"
    BY <2>1, <2>3, <2>4, Prepend
  <2>6. \A i \in 1 .. Len(u) : u[i] = WR[i]  BY <2>2, <2>5
  <2> QED  BY <2>2, <2>4, <2>5, <2>6, SeqEqual
<1>2. <<"write">> \o RS = WRS
  <2>1. RS \in Seq(R!Step) /\ Len(RS) = 2 /\ RS[1] = "respond" /\ RS[2] = "save"  BY DEF RS, R!Step
  <2>2. WRS \in Seq(R!Step) /\ Len(WRS) = 3 /\ WRS[1] = "write" /\ WRS[2] = "respond"
            /\ WRS[3] = "save"
    BY DEF WRS, R!Step
  <2>3. "write" \in R!Step  BY DEF R!Step
  <2>4. PICK u : u = <<"write">> \o RS  OBVIOUS
  <2>5. u \in Seq(R!Step) /\ Len(u) = 3 /\ u[1] = "write" /\ u[2] = "respond" /\ u[3] = "save"
    <3>1. u \in Seq(R!Step) /\ Len(u) = 3 /\ u[1] = "write" /\ \A i \in 1 .. 2 : u[i + 1] = RS[i]
      BY <2>1, <2>3, <2>4, Prepend
    <3>2. u[1 + 1] = "respond" /\ u[2 + 1] = "save"  BY <2>1, <3>1
    <3> QED  BY <3>1, <3>2
  <2>6. \A i \in 1 .. Len(u) : u[i] = WRS[i]  BY <2>2, <2>5
  <2> QED  BY <2>2, <2>4, <2>5, <2>6, SeqEqual
<1>3. <<"write">> \o <<>> = Wr
  <2>1. Wr \in Seq(R!Step)  BY DEF Wr, R!Step
  <2>2. Wr \o <<>> = Wr  BY <2>1, ConcatEmptySeq
  <2> QED  BY <2>2 DEF Wr
<1> QED  BY <1>1, <1>2, <1>3, Tails

LEMMA Lengths ==
    /\ Len(Re) = 1 /\ Len(Wr) = 1 /\ Len(Sa) = 1
    /\ \A s \in {MSR, SR, WR, MSRS, SRS, WRS, RS} : Len(s) # 1
  BY DEF MSR, SR, WR, Re, MSRS, SRS, WRS, RS, Sa, Wr

LEMMA TodoSteps ==
    /\ \A s \in Todos : s # <<>> /\ \A i \in DOMAIN s : s[i] \in R!Step
<1>1. \A s \in Todos : s # <<>>  BY DEF Todos, MSR, SR, WR, Re, MSRS, SRS, WRS, RS, Sa, Wr
<1>2. \A i \in DOMAIN MSR : MSR[i] \in R!Step  BY DEF MSR, R!Step
<1>3. \A i \in DOMAIN SR : SR[i] \in R!Step  BY DEF SR, R!Step
<1>4. \A i \in DOMAIN WR : WR[i] \in R!Step  BY DEF WR, R!Step
<1>5. \A i \in DOMAIN Re : Re[i] \in R!Step  BY DEF Re, R!Step
<1>6. \A i \in DOMAIN MSRS : MSRS[i] \in R!Step  BY DEF MSRS, R!Step
<1>7. \A i \in DOMAIN SRS : SRS[i] \in R!Step  BY DEF SRS, R!Step
<1>8. \A i \in DOMAIN WRS : WRS[i] \in R!Step  BY DEF WRS, R!Step
<1>9. \A i \in DOMAIN RS : RS[i] \in R!Step  BY DEF RS, R!Step
<1>10. \A i \in DOMAIN Sa : Sa[i] \in R!Step  BY DEF Sa, R!Step
<1>11. \A i \in DOMAIN Wr : Wr[i] \in R!Step  BY DEF Wr, R!Step
<1> QED  BY <1>1, <1>2, <1>3, <1>4, <1>5, <1>6, <1>7, <1>8, <1>9, <1>10, <1>11 DEF Todos

\* The todos are ten different ones.
LEMMA Apart ==
    /\ MSR \notin {SR, WR, Re, MSRS, SRS, WRS, RS, Sa, Wr}
    /\ SR \notin {MSR, WR, Re, MSRS, SRS, WRS, RS, Sa, Wr}
    /\ WR \notin {MSR, SR, Re, MSRS, SRS, WRS, RS, Sa, Wr}
    /\ Re \notin {MSR, SR, WR, MSRS, SRS, WRS, RS, Sa, Wr}
    /\ MSRS \notin {SRS, WRS, RS, Sa, Wr} /\ SRS \notin {WRS, RS, Sa, Wr}
    /\ WRS \notin {RS, Sa, Wr} /\ RS \notin {Sa, Wr} /\ Sa # Wr
<1>1. /\ Len(MSR) = 3 /\ Len(SR) = 2 /\ Len(WR) = 2 /\ Len(Re) = 1 /\ Len(MSRS) = 4 /\ Len(SRS) = 3
      /\ Len(WRS) = 3 /\ Len(RS) = 2 /\ Len(Sa) = 1 /\ Len(Wr) = 1
  BY DEF MSR, SR, WR, Re, MSRS, SRS, WRS, RS, Sa, Wr
<1> QED  BY <1>1, Heads

-----------------------------------------------------------------------------
\* Tables of registrations: what they hold, and how they are made and changed.
LEMMA TableFacts ==
    ASSUME NEW t, R!IsTable(t)
    PROVE  /\ DOMAIN t \subseteq R!Client /\ \A c \in DOMAIN t : t[c] \in R!Registration
           /\ R!Loads(t) /\ t # Absent /\ t # Corrupt
<1>1. PICK ids \in SUBSET R!Client : t \in [ids -> R!Registration]  BY DEF R!IsTable
<1>2. t \notin {Absent, Corrupt}  BY <1>1, RegistryAssumption DEF R!Client, R!Registration
<1> QED  BY <1>1, <1>2 DEF R!Loads

LEMMA TableMade ==
    ASSUME NEW ids \in SUBSET R!Client, NEW t \in [ids -> R!Registration] PROVE R!IsTable(t)
  BY DEF R!IsTable

LEMMA TablePut ==
    ASSUME NEW t, R!IsTable(t), NEW c \in R!Client, NEW r \in R!Registration
    PROVE  /\ R!IsTable(R!Put(t, c, r)) /\ DOMAIN R!Put(t, c, r) = DOMAIN t \cup {c}
           /\ \A d \in DOMAIN t \cup {c} : R!Put(t, c, r)[d] = IF d = c THEN r ELSE t[d]
<1>1. R!Put(t, c, r) \in [DOMAIN t \cup {c} -> R!Registration]  BY TableFacts DEF R!Put
<1>2. DOMAIN t \cup {c} \in SUBSET R!Client  BY TableFacts
<1>3. R!IsTable(R!Put(t, c, r))  BY <1>1, <1>2, TableMade
<1> QED  BY <1>3 DEF R!Put

LEMMA TableChanged ==
    ASSUME NEW t, R!IsTable(t), NEW c \in DOMAIN t, NEW s \in 1 .. MaxSecrets, NEW m \in Meta
    PROVE  /\ R!IsTable([t EXCEPT ![c].secret = s]) /\ R!IsTable([t EXCEPT ![c].meta = m])
           /\ DOMAIN [t EXCEPT ![c].secret = s] = DOMAIN t
           /\ DOMAIN [t EXCEPT ![c].meta = m] = DOMAIN t
<1>1. PICK ids \in SUBSET R!Client : t \in [ids -> R!Registration]  BY DEF R!IsTable
<1>2. t[c] \in R!Registration  BY <1>1
<1>3. [t[c] EXCEPT !.secret = s] \in R!Registration  BY <1>2 DEF R!Registration
<1>4. [t[c] EXCEPT !.meta = m] \in R!Registration  BY <1>2 DEF R!Registration
<1>5. [t EXCEPT ![c].secret = s] \in [ids -> R!Registration]  BY <1>1, <1>3
<1>6. [t EXCEPT ![c].meta = m] \in [ids -> R!Registration]  BY <1>1, <1>4
<1> QED  BY <1>1, <1>5, <1>6, TableMade

LEMMA EmptyTable == R!IsTable(R!EmptyMap) /\ DOMAIN R!EmptyMap = {}
<1>1. R!EmptyMap \in [{} -> R!Registration]  BY DEF R!EmptyMap
<1> QED  BY <1>1, TableMade

\* What can be read back is a table, and stays what it is while the files stay,
\* or are renamed, and becomes what is written.
LEMMA Readable ==
    ASSUME R!IsFile(main), R!IsFile(bak)
    PROVE  R!IsTable(R!Recoverable)
<1>1. \A f \in {main, bak} : R!Loads(f) => R!IsTable(f)  BY DEF R!IsFile, R!Loads
<1> QED  BY <1>1, EmptyTable DEF R!Recoverable

LEMMA SameFiles == ASSUME UNCHANGED <<main, bak>> PROVE R!Recoverable' = R!Recoverable
  BY DEF R!Recoverable, R!Loads

LEMMA Renamed ==
    ASSUME R!IsFile(main), R!IsFile(bak), R!Backup
    PROVE  /\ R!IsFile(main)' /\ R!IsFile(bak)'
           /\ main # Corrupt /\ bak # Corrupt =>
                 R!Recoverable' = R!Recoverable /\ main' # Corrupt /\ bak' # Corrupt
<1>1. CASE main = Absent
  <2>1. UNCHANGED <<main, bak>>  BY <1>1 DEF R!Backup, R!disk
  <2>2. R!IsFile(main)' /\ R!IsFile(bak)'  BY <2>1 DEF R!IsFile, R!IsTable
  <2> QED  BY <2>1, <2>2, SameFiles
<1>2. CASE main # Absent
  <2>1. main' = Absent /\ bak' = main  BY <1>2 DEF R!Backup
  <2>2. R!IsFile(main)' /\ R!IsFile(bak)'  BY <2>1 DEF R!IsFile, R!IsTable
  <2>3. ASSUME main # Corrupt, bak # Corrupt
        PROVE  R!Recoverable' = R!Recoverable /\ main' # Corrupt /\ bak' # Corrupt
    <3>1. R!IsTable(main)  BY <1>2, <2>3 DEF R!IsFile
    <3>2. R!Loads(main)  BY <3>1, TableFacts
    <3>3. Absent # Corrupt  BY RegistryAssumption
    <3> QED  BY <2>1, <2>3, <3>2, <3>3 DEF R!Recoverable, R!Loads
  <2> QED  BY <2>2, <2>3
<1> QED  BY <1>1, <1>2

LEMMA Replaced ==
    ASSUME main' = snapshot, R!IsTable(snapshot)
    PROVE  R!Recoverable' = snapshot /\ main' # Corrupt /\ R!IsFile(main)'
<1>1. snapshot \notin {Absent, Corrupt}  BY TableFacts
<1>2. PICK ids \in SUBSET R!Client : snapshot \in [ids -> R!Registration]  BY DEF R!IsTable
<1>3. main' \in [ids -> R!Registration]  BY <1>2
<1> QED  BY <1>1, <1>3 DEF R!Recoverable, R!Loads, R!IsFile, R!IsTable

-----------------------------------------------------------------------------
LEMMA IdleIs == R!Idle.op = "none" /\ R!Idle.todo = <<>> /\ R!Idle.id = R!NoClient
    /\ R!Idle.secret = 0
  BY DEF R!Idle

LEMMA Plans ==
    /\ Plan("none") = {}
    /\ Plan("register") = {MSR, SR, WR, Re}
    /\ Plan("rotate") = {MSRS, SRS, WRS, RS, Sa, Wr}
    /\ Plan("update") = {RS, Sa, Wr} /\ Plan("delete") = {RS, Sa, Wr}
    /\ Plan("shutdown") = {Sa, Wr}
    /\ \A op : Plan(op) # {} => op \in R!Op \ {"none"}
    /\ \A op : Plan(op) \subseteq Todos
  BY DEF Plan, R!Op, Todos

\* A request that has something to do.
LEMMA Busy ==
    ASSUME NEW p \in Proc, RequestOK(p), req[p].todo # <<>>
    PROVE  /\ req[p] # R!Idle /\ req[p].todo \in Plan(req[p].op) /\ req[p].todo \in Todos
           /\ req[p].op \in R!Op \ {"none"}
           /\ req[p] = [op |-> req[p].op, id |-> req[p].id, secret |-> req[p].secret,
                todo |-> req[p].todo]
<1>1. req[p] # R!Idle  BY IdleIs
<1>2. req[p].todo \in Plan(req[p].op)  BY <1>1 DEF RequestOK
<1>3. req[p] = [op |-> req[p].op, id |-> req[p].id, secret |-> req[p].secret, todo |-> req[p].todo]
  BY DEF RequestOK
<1> QED  BY <1>1, <1>2, <1>3, Plans

\* What the invariant gives: the types, and that what was answered is on disk.
LEMMA RegistryTypeOK == ASSUME RInv PROVE R!TypeOK
<1>1. ASSUME NEW p \in Proc
      PROVE  /\ req[p].op \in R!Op /\ req[p].id \in R!Client \cup {R!NoClient}
             /\ req[p].secret \in 0 .. drawn
             /\ \A i \in DOMAIN req[p].todo : req[p].todo[i] \in R!Step
  <2>1. RequestOK(p)  BY DEF RInv
  <2>2. CASE req[p] = R!Idle
    <3>1. R!Idle.op \in R!Op /\ DOMAIN R!Idle.todo = {}  BY IdleIs DEF R!Op
    <3> QED  BY <2>1, <2>2, <3>1, IdleIs DEF RequestOK
  <2>3. CASE req[p] # R!Idle
    <3>1. req[p].todo \in Plan(req[p].op) /\ req[p].secret \in 0 .. drawn
      BY <2>1, <2>3 DEF RequestOK
    <3>2. req[p].op \in R!Op /\ req[p].todo \in Todos  BY <3>1, Plans
    <3>3. req[p].id \in R!Client \cup {R!NoClient}
      <4>1. DOMAIN app \subseteq R!Client  BY TableFacts DEF RInv, RTables
      <4> QED  BY <2>1, <2>3, <4>1 DEF RequestOK
    <3> QED  BY <3>1, <3>2, <3>3, TodoSteps
  <2> QED  BY <2>2, <2>3
<1> QED  BY <1>1 DEF RInv, RTables, R!TypeOK

LEMMA DurableNow == ASSUME RInv PROVE R!DurableAck
<1>1. ASSUME faults.corruptions = 0, NEW c \in R!Client, R!Answered(c), c \notin unsaved
      PROVE  /\ c \in DOMAIN R!Recoverable
             /\ ~R!Changing(c) => c \in DOMAIN manager /\ R!Recoverable[c] = manager[c]
  <2>1. OnDisk  BY <1>1 DEF RInv
  <2>2. c \in DOMAIN R!Recoverable  BY <1>1, <2>1 DEF OnDisk
  <2>3. ASSUME ~R!Changing(c) PROVE Same(R!Recoverable, manager, c)
    <3>1. ~Pending(c)
      <4>1. \A s : Saves(s) => s # <<>> /\ s # <<"respond">>
        BY Apart, TodoSteps DEF Saves, Todos, Re
      <4> QED  BY <2>3, <4>1 DEF Pending, R!Changing
    <3>2. ~Saving(c)
      <4>1. \A q \in Proc : lock = q => req[q].todo # <<>> /\ req[q].todo # <<"respond">>
        BY Apart, TodoSteps DEF RInv, RequestOK, Todos, Re
      <4> QED  BY <2>3, <4>1 DEF Saving, R!Changing
    <3> QED  BY <1>1, <2>1, <3>1, <3>2 DEF OnDisk
  <2> QED  BY <2>2, <2>3 DEF Same
<1> QED  BY <1>1 DEF R!DurableAck

LEMMA RegistryInit == ASSUME R!Init PROVE RInv
<1>1. RTables
  <2>1. /\ app = R!EmptyMap /\ manager = R!EmptyMap /\ snapshot = R!EmptyMap /\ listed = {}
        /\ main = Absent /\ bak = Absent /\ lock = NoProc /\ drawn = 0 /\ unsaved = {}
        /\ req = [p \in Proc |-> R!Idle] /\ acked = [c \in R!Client |-> 0]
        /\ faults = [restarts |-> 0, failures |-> 0, corruptions |-> 0]
    BY DEF R!Init
  <2>2. R!IsFile(main) /\ R!IsFile(bak)  BY <2>1 DEF R!IsFile
  <2>3. MaxSecrets \in Nat  BY RegistryAssumption
  <2>4. acked \in [R!Client -> 0 .. drawn] /\ drawn \in 0 .. MaxSecrets  BY <2>1, <2>3
  <2>5. req = [p \in Proc |-> req[p]]  BY <2>1
  <2> QED  BY <2>1, <2>2, <2>4, <2>5, EmptyTable DEF RTables
<1>2. ASSUME NEW p \in Proc PROVE RequestOK(p)
  <2>1. req[p] = R!Idle /\ drawn = 0 /\ lock = NoProc  BY DEF R!Init
  <2>2. NoProc # p  BY RegistryAssumption
  <2>3. R!Idle.todo \notin {WR, WRS, Wr}  BY IdleIs, TodoSteps DEF Todos
  <2>4. R!Idle = [op |-> R!Idle.op, id |-> R!Idle.id, secret |-> R!Idle.secret,
            todo |-> R!Idle.todo]
    BY DEF R!Idle
  <2> QED  BY <2>1, <2>2, <2>3, <2>4, IdleIs DEF RequestOK
<1>3. OnDisk
  <2>1. main = Absent /\ bak = Absent /\ Absent # Corrupt /\ manager = R!EmptyMap /\ lock = NoProc
    BY RegistryAssumption DEF R!Init
  <2>2. R!Recoverable = R!EmptyMap  BY <2>1 DEF R!Recoverable, R!Loads
  <2>3. \A c \in R!Client : ~R!Answered(c)  BY DEF R!Init, R!Answered
  <2>4. \A p \in Proc : req[p] = R!Idle  BY DEF R!Init
  <2>5. \A p \in Proc : Kept(p)  BY <2>4, IdleIs DEF Kept
  <2>6. \A c : Same(R!Recoverable, manager, c)  BY <2>1, <2>2 DEF Same
  <2> QED  BY <2>1, <2>2, <2>3, <2>5, <2>6, EmptyTable DEF OnDisk
<1> QED  BY <1>1, <1>2, <1>3 DEF RInv

-----------------------------------------------------------------------------
\* A request after a step is done.
LEMMA DoneIs ==
    ASSUME req = [q \in Proc |-> req[q]], NEW p \in Proc, RequestOK(p), req[p].todo # <<>>,
               R!Done(p)
    PROVE  /\ req' = [q \in Proc |-> req'[q]] /\ \A q \in Proc \ {p} : req'[q] = req[q]
           /\ req'[p] = IF req[p].todo \in {Re, Wr, Sa} THEN R!Idle
                        ELSE [op |-> req[p].op, id |-> req[p].id, secret |-> req[p].secret,
                              todo |-> Tail(req[p].todo)]
<1>1. PICK r : r = req[p]  OBVIOUS
<1>2. r = [op |-> r.op, id |-> r.id, secret |-> r.secret, todo |-> r.todo] /\ r.todo \in Todos
  BY <1>1, Busy
<1>3. req' = [req EXCEPT ![p] = IF Len(r.todo) = 1 THEN R!Idle
          ELSE [r EXCEPT !.todo = Tail(r.todo)]]
  BY <1>1 DEF R!Done
<1>4. Len(r.todo) = 1 <=> r.todo \in {Re, Wr, Sa}  BY <1>2, Lengths DEF Todos
<1>5. [r EXCEPT !.todo = Tail(r.todo)] = [op |-> r.op, id |-> r.id, secret |-> r.secret,
          todo |-> Tail(r.todo)]
  <2>1. PICK t : t = Tail(r.todo)  OBVIOUS
  <2>2. [r EXCEPT !.todo = t] = [op |-> r.op, id |-> r.id, secret |-> r.secret, todo |-> t]
    BY <1>2
  <2> QED  BY <2>1, <2>2
<1>6. req'[p] = IF Len(r.todo) = 1 THEN R!Idle ELSE [r EXCEPT !.todo = Tail(r.todo)]
  BY <1>3
<1>7. req' = [q \in Proc |-> req'[q]] /\ \A q \in Proc \ {p} : req'[q] = req[q]
  BY <1>3
<1> QED  BY <1>1, <1>4, <1>5, <1>6, <1>7

\* What the other requests keep.
LEMMA Others ==
    ASSUME RInv, NEW p \in Proc,
           \A q \in Proc \ {p} : req'[q] = req[q] /\ (lock' = q <=> lock = q),
           DOMAIN app \subseteq DOMAIN app', drawn \in Nat, drawn' \in Nat, drawn <= drawn'
    PROVE  \A q \in Proc \ {p} : RequestOK(q)'
<1> SUFFICES ASSUME NEW q \in Proc \ {p} PROVE RequestOK(q)'
  OBVIOUS
<1>1. RequestOK(q) /\ req'[q] = req[q] /\ (lock' = q <=> lock = q)  BY DEF RInv
<1>2. \A n \in 0 .. drawn : n \in 0 .. drawn'  OBVIOUS
<1> QED  BY <1>1, <1>2 DEF RequestOK

\* A request that begins.
LEMMA BeginIs ==
    ASSUME RInv, NEW p \in Proc, NEW op \in R!Op, NEW c, NEW n, NEW todo \in Plan(op),
           todo \notin {WR, WRS, Wr}, R!Begin(p, op, c, n, todo),
           DOMAIN app \subseteq DOMAIN app', drawn' \in Nat, drawn <= drawn', lock' = lock,
           op # "shutdown" => c \in DOMAIN app', op = "shutdown" => c = R!NoClient,
           n \in 0 .. drawn', op \in {"register", "rotate"} => n > 0
    PROVE  /\ req' = [q \in Proc |-> req'[q]] /\ \A q \in Proc \ {p} : req'[q] = req[q]
           /\ req[p] = R!Idle /\ req'[p] = [op |-> op, id |-> c, secret |-> n, todo |-> todo]
           /\ \A q \in Proc : RequestOK(q)'
<1>1. req = [q \in Proc |-> req[q]] /\ drawn \in Nat
  BY RegistryAssumption DEF RInv, RTables
<1>2. PICK o : o = [op |-> op, id |-> c, secret |-> n, todo |-> todo]  OBVIOUS
<1>3. req' = [req EXCEPT ![p] = o] /\ req[p] = R!Idle  BY <1>2 DEF R!Begin
<1>4. req' = [q \in Proc |-> req'[q]] /\ \A q \in Proc \ {p} : req'[q] = req[q]
  BY <1>1, <1>3
<1>5. req'[p] = o  BY <1>1, <1>3
<1>6. o.op = op /\ o.id = c /\ o.secret = n /\ o.todo = todo
      /\ o = [op |-> o.op, id |-> o.id, secret |-> o.secret, todo |-> o.todo]
  BY <1>2
<1>7. lock' # p
  <2>1. R!Idle.todo \notin {WR, WRS, Wr}  BY IdleIs, TodoSteps DEF Todos
  <2> QED  BY <1>3, <2>1 DEF RInv, RequestOK
<1>8. RequestOK(p)'  BY <1>5, <1>6, <1>7 DEF RequestOK
<1>9. \A q \in Proc \ {p} : RequestOK(q)'  BY <1>1, <1>4, Others
<1> QED  BY <1>2, <1>3, <1>4, <1>5, <1>8, <1>9

\* A request that goes on, or ends: with the lock while it writes.
LEMMA GoesOn ==
    ASSUME RInv, NEW p \in Proc, req[p].todo # <<>>,
           NEW todo, todo \in Plan(req[p].op),
           req'[p] = [op |-> req[p].op, id |-> req[p].id, secret |-> req[p].secret, todo |-> todo],
           DOMAIN app \subseteq DOMAIN app', drawn' = drawn,
           lock' = p <=> todo \in {WR, WRS, Wr}
    PROVE  RequestOK(p)'
<1>1. PICK r : r = req[p]  OBVIOUS
<1>2. PICK o : o = [op |-> r.op, id |-> r.id, secret |-> r.secret, todo |-> todo]  OBVIOUS
<1>3. o.op = r.op /\ o.id = r.id /\ o.secret = r.secret /\ o.todo = todo
      /\ o = [op |-> o.op, id |-> o.id, secret |-> o.secret, todo |-> o.todo] /\ req'[p] = o
  BY <1>1, <1>2
<1>4. RequestOK(p) /\ r # R!Idle  BY <1>1, IdleIs DEF RInv
<1>5. /\ r.op # "shutdown" => r.id \in DOMAIN app
      /\ r.op = "shutdown" => r.id = R!NoClient
      /\ r.secret \in 0 .. drawn
      /\ r.op \in {"register", "rotate"} => r.secret > 0
  BY <1>1, <1>4 DEF RequestOK
<1> QED  BY <1>1, <1>3, <1>5 DEF RequestOK

LEMMA Ends ==
    ASSUME NEW p \in Proc, req'[p] = R!Idle, lock' # p, drawn' \in Nat
    PROVE  RequestOK(p)'
<1>1. R!Idle.todo \notin {WR, WRS, Wr}  BY IdleIs, TodoSteps DEF Todos
<1>2. R!Idle = [op |-> R!Idle.op, id |-> R!Idle.id, secret |-> R!Idle.secret, todo |-> R!Idle.todo]
  BY DEF R!Idle
<1> QED  BY <1>1, <1>2, IdleIs DEF RequestOK

\* Where the files, the manager and the snapshot stay as they are.
LEMMA OnDiskStays ==
    ASSUME OnDisk, UNCHANGED <<main, bak, manager, lock, snapshot, unsaved, acked>>,
           NEW p \in Proc, \A q \in Proc \ {p} : req'[q] = req[q], lock # p,
           Saves(req[p].todo) => Saves(req'[p].todo) /\ req'[p].id = req[p].id,
           Kept(p)'
    PROVE  OnDisk'
<1>1. R!Recoverable' = R!Recoverable  BY SameFiles
<1>2. \A c : Pending(c) => Pending(c)'  BY DEF Pending
<1>3. \A c : Saving(c) => Saving(c)'  BY DEF Saving
<1>4. \A q \in Proc : Kept(q)'  BY <1>1 DEF OnDisk, Kept
<1> QED  BY <1>1, <1>2, <1>3, <1>4 DEF OnDisk, Same, R!Answered

\* What a request that begins leaves as it is.
LEMMA Begun ==
    ASSUME RInv, NEW p \in Proc, NEW op \in R!Op, NEW c, NEW n, NEW todo \in Plan(op),
           op \in {"register", "rotate"} => todo \in {MSR, MSRS},
           todo \notin {WR, WRS, Wr}, R!Begin(p, op, c, n, todo),
           DOMAIN app \subseteq DOMAIN app', drawn' \in 0 .. MaxSecrets, drawn <= drawn',
           R!IsTable(app'), listed' \subseteq DOMAIN app',
           UNCHANGED <<main, bak, manager, lock, snapshot, unsaved, acked, faults>>,
           op # "shutdown" => c \in DOMAIN app', op = "shutdown" => c = R!NoClient,
           n \in 0 .. drawn', op \in {"register", "rotate"} => n > 0
    PROVE  RInv'
<1>0. drawn' \in Nat /\ drawn \in Nat /\ MaxSecrets \in Nat  BY RegistryAssumption DEF RInv, RTables
<1>1. /\ req' = [q \in Proc |-> req'[q]] /\ \A q \in Proc \ {p} : req'[q] = req[q]
      /\ req[p] = R!Idle /\ req'[p] = [op |-> op, id |-> c, secret |-> n, todo |-> todo]
      /\ \A q \in Proc : RequestOK(q)'
  BY <1>0, BeginIs
<1>2. RTables'
  <2>1. acked' \in [R!Client -> 0 .. drawn']
    <3>1. \A i \in 0 .. drawn : i \in 0 .. drawn'  BY <1>0
    <3> QED  BY <3>1 DEF RInv, RTables
  <2>2. R!IsFile(main)' /\ R!IsFile(bak)' /\ R!IsTable(manager)' /\ R!IsTable(snapshot)'
    BY DEF RInv, RTables, R!IsFile, R!IsTable
  <2>3. R!IsTable(app)'  BY DEF R!IsTable
  <2> QED  BY <1>0, <1>1, <2>1, <2>2, <2>3 DEF RInv, RTables
<1>3. ASSUME faults.corruptions = 0 PROVE OnDisk'
  <2>1. OnDisk  BY <1>3 DEF RInv
  <2>2. lock # p
    <3>1. R!Idle.todo \notin {WR, WRS, Wr}  BY IdleIs, TodoSteps DEF Todos
    <3> QED  BY <1>1, <3>1 DEF RInv, RequestOK
  <2>3. ~Saves(req[p].todo)  BY <1>1, IdleIs, TodoSteps DEF Saves, Todos
  <2>4. Kept(p)'
    <3>1. PICK o : o = [op |-> op, id |-> c, secret |-> n, todo |-> todo]  OBVIOUS
    <3>2. req'[p] = o /\ o.op = op /\ o.todo = todo  BY <1>1, <3>1
    <3> QED  BY <3>2, Apart DEF Kept
  <2> QED  BY <1>1, <2>1, <2>2, <2>3, <2>4, OnDiskStays
<1> QED  BY <1>1, <1>2, <1>3 DEF RInv

LEMMA Begins ==
    ASSUME RInv, NEW p \in Proc,
           \/ \E meta \in Meta : R!Register(p, meta)
           \/ \E c \in R!Client : R!RotateSecret(p, c) \/ R!Delete(p, c)
                \/ \E meta \in Meta : R!Update(p, c, meta)
           \/ R!Shutdown(p)
    PROVE  RInv'
<1>0. /\ MaxSecrets \in Nat /\ drawn \in 0 .. MaxSecrets /\ R!IsTable(app)
           /\ listed \subseteq DOMAIN app
  BY RegistryAssumption DEF RInv, RTables
<1>a. {"register", "rotate", "update", "delete", "shutdown"} \subseteq R!Op  BY DEF R!Op
<1>1. ASSUME NEW meta \in Meta, R!Register(p, meta) PROVE RInv'
  <2>1. PICK c : c = drawn + 1  OBVIOUS
  <2>2. PICK r : r = [secret |-> c, meta |-> meta]  OBVIOUS
  <2>3. /\ drawn < MaxSecrets /\ app' = R!Put(app, c, r) /\ listed' = listed \cup {c} /\ drawn' = c
        /\ R!Begin(p, "register", c, c, MSR)
        /\ UNCHANGED <<main, bak, manager, lock, snapshot, unsaved, acked, faults>>
    BY <1>1, <2>1, <2>2 DEF R!Register, R!DrawSecret, R!disk, R!store, R!history, MSR
  <2>4. c \in R!Client /\ r \in R!Registration /\ drawn' \in 0 .. MaxSecrets
            /\ drawn <= drawn' /\ c > 0 /\ c \in 0 .. drawn'
    BY <1>0, <2>1, <2>2, <2>3 DEF R!Client, R!Registration
  <2>5. R!IsTable(app') /\ DOMAIN app' = DOMAIN app \cup {c}  BY <1>0, <2>3, <2>4, TablePut
  <2>6. MSR \in Plan("register") /\ MSR \notin {WR, WRS, Wr}  BY Plans, Apart
  <2> QED  BY <1>0, <1>a, <2>3, <2>4, <2>5, <2>6, Begun
<1>2. ASSUME NEW c \in R!Client, R!RotateSecret(p, c) PROVE RInv'
  <2>1. PICK n : n = drawn + 1  OBVIOUS
  <2>3. /\ drawn < MaxSecrets /\ app' = [app EXCEPT ![c].secret = n] /\ listed' = listed
             /\ drawn' = n
        /\ R!Begin(p, "rotate", c, n, MSRS) /\ c \in listed
        /\ UNCHANGED <<main, bak, manager, lock, snapshot, unsaved, acked, faults>>
    BY <1>2, <2>1 DEF R!RotateSecret, R!DrawSecret, R!disk, R!store, R!history, MSRS
  <2>4. n \in 1 .. MaxSecrets /\ drawn' \in 0 .. MaxSecrets /\ drawn <= drawn' /\ n > 0
            /\ n \in 0 .. drawn'
    BY <1>0, <2>1, <2>3
  <2>5. PICK m : m \in Meta
    <3>1. app[c] \in R!Registration  BY <1>0, <2>3, TableFacts
    <3> QED  BY <3>1 DEF R!Registration
  <2>6. R!IsTable(app') /\ DOMAIN app' = DOMAIN app  BY <1>0, <2>3, <2>4, <2>5, TableChanged
  <2>7. MSRS \in Plan("rotate") /\ MSRS \notin {WR, WRS, Wr}  BY Plans, Apart
  <2> QED  BY <1>0, <1>a, <2>3, <2>4, <2>6, <2>7, Begun
<1>3. ASSUME NEW c \in R!Client, R!Delete(p, c) PROVE RInv'
  <2>1. /\ app' = app /\ listed' = listed \ {c} /\ drawn' = drawn /\ c \in listed
        /\ R!Begin(p, "delete", c, 0, RS)
        /\ UNCHANGED <<main, bak, manager, lock, snapshot, unsaved, acked, faults>>
    BY <1>3 DEF R!Delete, R!disk, R!store, R!history, RS
  <2>2. RS \in Plan("delete") /\ RS \notin {WR, WRS, Wr}  BY Plans, Apart
  <2>3. 0 \in 0 .. drawn /\ drawn <= drawn /\ R!IsTable(app')  BY <1>0, <2>1
  <2> QED  BY <1>0, <1>a, <2>1, <2>2, <2>3, Begun
<1>4. ASSUME NEW c \in R!Client, NEW meta \in Meta, R!Update(p, c, meta) PROVE RInv'
  <2>1. /\ app' = [app EXCEPT ![c].meta = meta] /\ listed' = listed /\ drawn' = drawn
             /\ c \in listed
        /\ R!Begin(p, "update", c, 0, RS)
        /\ UNCHANGED <<main, bak, manager, lock, snapshot, unsaved, acked, faults>>
    BY <1>4 DEF R!Update, R!disk, R!store, R!history, RS
  <2>2. RS \in Plan("update") /\ RS \notin {WR, WRS, Wr}  BY Plans, Apart
  <2>3. PICK n \in 1 .. MaxSecrets : TRUE
    <3>1. app[c] \in R!Registration  BY <1>0, <2>1, TableFacts
    <3> QED  BY <3>1 DEF R!Registration
  <2>4. R!IsTable(app') /\ DOMAIN app' = DOMAIN app  BY <1>0, <2>1, <2>3, TableChanged
  <2>5. 0 \in 0 .. drawn /\ drawn <= drawn  BY <1>0
  <2> QED  BY <1>0, <1>a, <2>1, <2>2, <2>4, <2>5, Begun
<1>5. ASSUME R!Shutdown(p) PROVE RInv'
  <2>1. /\ app' = app /\ listed' = listed /\ drawn' = drawn
        /\ R!Begin(p, "shutdown", R!NoClient, 0, Sa)
        /\ UNCHANGED <<main, bak, manager, lock, snapshot, unsaved, acked, faults>>
    BY <1>5 DEF R!Shutdown, R!disk, R!store, R!history, Sa
  <2>2. Sa \in Plan("shutdown") /\ Sa \notin {WR, WRS, Wr}  BY Plans, Apart
  <2>3. 0 \in 0 .. drawn /\ drawn <= drawn /\ R!IsTable(app')  BY <1>0, <2>1
  <2> QED  BY <1>0, <1>a, <2>1, <2>2, <2>3, Begun
<1> QED  BY <1>1, <1>2, <1>3, <1>4, <1>5

\* A request at a step, by what it has to do.
LEMMA AtStep ==
    ASSUME RInv, NEW p \in Proc, NEW step, R!Ready(p, step)
    PROVE  /\ req[p].todo # <<>> /\ req[p].todo \in Todos /\ req[p] # R!Idle
           /\ req[p].todo \in Plan(req[p].op) /\ RequestOK(p)
           /\ step = "manager" => req[p].todo \in {MSR, MSRS}
           /\ step = "save" => req[p].todo \in {SR, SRS, Sa}
           /\ step = "write" => req[p].todo \in {WR, WRS, Wr}
           /\ step = "respond" => req[p].todo \in {Re, RS}
<1>1. req[p].todo # <<>> /\ Head(req[p].todo) = step  BY DEF R!Ready
<1>2. RequestOK(p)  BY DEF RInv
<1>3. req[p].todo \in Todos /\ req[p].todo \in Plan(req[p].op) /\ req[p] # R!Idle
  BY <1>1, <1>2, Busy
<1> QED  BY <1>1, <1>2, <1>3, Heads DEF Todos

\* What follows a step in the plan of the same operation.
LEMMA Following ==
    \A op : /\ MSR \in Plan(op) => SR \in Plan(op) /\ op = "register"
            /\ MSRS \in Plan(op) => SRS \in Plan(op) /\ op = "rotate"
            /\ SR \in Plan(op) => WR \in Plan(op)
            /\ SRS \in Plan(op) => WRS \in Plan(op)
            /\ Sa \in Plan(op) => Wr \in Plan(op)
            /\ WR \in Plan(op) => Re \in Plan(op)
            /\ WRS \in Plan(op) => RS \in Plan(op)
            /\ RS \in Plan(op) => Sa \in Plan(op)
  BY Apart DEF Plan

\* The steps of a request: the manager's table, ...
LEMMA RegistersClient == ASSUME RInv, NEW p \in Proc, R!RegisterClient(p) PROVE RInv'
<1>1. PICK r : r = req[p]  OBVIOUS
<1>2. /\ r.todo \in {MSR, MSRS} /\ r.todo # <<>> /\ r # R!Idle /\ RequestOK(p)
      /\ r.todo \in Plan(r.op) /\ req = [q \in Proc |-> req[q]]
  BY <1>1, AtStep DEF R!RegisterClient, RInv, RTables
<1>3. r.op \in {"register", "rotate"} /\ Tail(r.todo) \in Plan(r.op) /\ Tail(r.todo) \in {SR, SRS}
  BY <1>2, Following, Tails
<1>4. PICK t : t = Tail(r.todo)  OBVIOUS
<1>5. /\ r.id \in DOMAIN app /\ r.secret \in 0 .. drawn /\ r.secret > 0 /\ lock # p
  BY <1>1, <1>2, <1>3, Apart DEF RequestOK
<1>6. PICK new : new = [secret |-> r.secret, meta |-> app[r.id].meta]  OBVIOUS
<1>7. new \in R!Registration /\ r.id \in R!Client
  <2>1. app[r.id] \in R!Registration /\ r.id \in R!Client  BY <1>5, TableFacts DEF RInv, RTables
  <2>2. r.secret \in 1 .. MaxSecrets
    BY <1>5, RegistryAssumption DEF RInv, RTables
  <2> QED  BY <1>6, <2>1, <2>2 DEF R!Registration
<1>8. /\ manager' = R!Put(manager, r.id, new) /\ R!Done(p)
      /\ UNCHANGED <<app, listed, main, bak, lock, snapshot, drawn, faults, acked, unsaved>>
  BY <1>1, <1>6 DEF R!RegisterClient, R!disk, R!store, R!history
<1>9. /\ R!IsTable(manager') /\ DOMAIN manager' = DOMAIN manager \cup {r.id}
      /\ \A d \in DOMAIN manager : d # r.id => manager'[d] = manager[d]
  <2>1. R!IsTable(manager)  BY DEF RInv, RTables
  <2>2. PICK t2 : t2 = R!Put(manager, r.id, new)  OBVIOUS
  <2>3. /\ R!IsTable(t2) /\ DOMAIN t2 = DOMAIN manager \cup {r.id}
        /\ \A d \in DOMAIN manager \cup {r.id} : t2[d] = IF d = r.id THEN new ELSE manager[d]
    BY <1>7, <2>1, <2>2, TablePut
  <2>4. R!IsTable(manager')  BY <1>8, <2>2, <2>3
  <2> QED  BY <1>8, <2>2, <2>3, <2>4
<1>10. /\ req' = [q \in Proc |-> req'[q]] /\ \A q \in Proc \ {p} : req'[q] = req[q]
       /\ req'[p] = [op |-> r.op, id |-> r.id, secret |-> r.secret, todo |-> t]
  <2>1. r.todo \notin {Re, Wr, Sa}  BY <1>2, Apart
  <2> QED  BY <1>1, <1>2, <1>4, <1>8, <2>1, DoneIs
<1>11. drawn \in Nat  BY RegistryAssumption DEF RInv, RTables
<1>12. t \notin {WR, WRS, Wr, MSR, MSRS, Re, RS} /\ Saves(t)  BY <1>3, <1>4, Apart DEF Saves
<1>13. RTables'
  <2>1. R!IsFile(main)' /\ R!IsFile(bak)' /\ R!IsTable(app)' /\ R!IsTable(snapshot)'
            /\ R!IsTable(manager)'
    BY <1>8, <1>9 DEF RInv, RTables, R!IsFile, R!IsTable
  <2> QED  BY <1>8, <1>10, <2>1 DEF RInv, RTables
<1>14. \A q \in Proc : RequestOK(q)'
  <2>1. \A q \in Proc \ {p} : RequestOK(q)'  BY <1>8, <1>10, <1>11, Others
  <2>2. RequestOK(p)'
    BY <1>1, <1>2, <1>3, <1>4, <1>5, <1>8, <1>10, <1>12, GoesOn
  <2> QED  BY <2>1, <2>2
<1>15. ASSUME faults.corruptions = 0 PROVE OnDisk'
  <2>1. OnDisk  BY <1>15 DEF RInv
  <2>2. R!Recoverable' = R!Recoverable  BY <1>8, SameFiles
  <2>3. PICK o : o = [op |-> r.op, id |-> r.id, secret |-> r.secret, todo |-> t]  OBVIOUS
  <2>4. req'[p] = o /\ o.op = r.op /\ o.id = r.id /\ o.todo = t  BY <1>10, <2>3
  <2>5. \A c : /\ Pending(c) => Pending(c)'
               /\ Saving(c) => Saving(c)'
               /\ c = r.id => Pending(c)'
    BY <1>1, <1>5, <1>8, <1>10, <1>12, <2>4 DEF Pending, Saving
  <2>6. \A q \in Proc : Kept(q)'
    <3>1. Kept(p)'  BY <1>9, <1>12, <2>4 DEF Kept
    <3>2. \A q \in Proc \ {p} : Kept(q)'  BY <1>8, <1>9, <1>10, <2>1, <2>2 DEF OnDisk, Kept
    <3> QED  BY <3>1, <3>2
  <2>7. \A c, u : Same(u, manager, c) => Same(u, manager', c) \/ Pending(c)'
    BY <1>9, <2>5 DEF Same
  <2> QED  BY <1>8, <1>9, <2>1, <2>2, <2>5, <2>6, <2>7 DEF OnDisk, Same, R!Answered
<1> QED  BY <1>8, <1>13, <1>14, <1>15 DEF RInv

\* ... the answer, ...
LEMMA Responds == ASSUME RInv, NEW p \in Proc, R!Respond(p) PROVE RInv'
<1>1. PICK r : r = req[p]  OBVIOUS
<1>2. /\ r.todo \in {Re, RS} /\ r.todo # <<>> /\ r # R!Idle /\ RequestOK(p)
      /\ r.todo \in Plan(r.op) /\ req = [q \in Proc |-> req[q]]
  BY <1>1, AtStep DEF R!Respond, RInv, RTables
<1>3. /\ IF r.op \in {"register", "rotate"}
           THEN acked' = [acked EXCEPT ![r.id] = IF @ < r.secret THEN r.secret ELSE @]
           ELSE acked' = acked
      /\ R!Done(p)
      /\ UNCHANGED <<app, listed, manager, main, bak, lock, snapshot, drawn, faults, unsaved>>
  BY <1>1 DEF R!Respond, R!disk, R!store
<1>4. /\ req' = [q \in Proc |-> req'[q]] /\ \A q \in Proc \ {p} : req'[q] = req[q]
      /\ r.todo = Re => req'[p] = R!Idle
      /\ r.todo = RS => req'[p] = [op |-> r.op, id |-> r.id, secret |-> r.secret, todo |-> Sa]
  BY <1>1, <1>2, <1>3, DoneIs, Tails, Apart
<1>5. lock # p /\ r.secret \in 0 .. drawn /\ drawn \in Nat
  BY <1>1, <1>2, Apart, RegistryAssumption DEF RInv, RTables, RequestOK
<1>6. r.op \in {"register", "rotate"} => r.id \in DOMAIN app /\ r.id \in R!Client
  BY <1>1, <1>2, TableFacts DEF RequestOK, RInv, RTables
<1>7. /\ acked' \in [R!Client -> 0 .. drawn]
      /\ \A c \in R!Client : acked'[c] = acked[c] \/ (c = r.id /\ r.op \in {"register", "rotate"})
  <2>1. CASE r.op \in {"register", "rotate"}
    <3>1. PICK n : n = IF acked[r.id] < r.secret THEN r.secret ELSE acked[r.id]  OBVIOUS
    <3>2. acked' = [acked EXCEPT ![r.id] = n] /\ acked \in [R!Client -> 0 .. drawn]
      BY <1>3, <2>1, <3>1 DEF RInv, RTables
    <3>3. n \in 0 .. drawn  BY <1>5, <1>6, <2>1, <3>1, <3>2
    <3> QED  BY <2>1, <3>2, <3>3
  <2>2. CASE r.op \notin {"register", "rotate"}
    <3>1. acked \in [R!Client -> 0 .. drawn]  BY DEF RInv, RTables
    <3>2. acked' = acked  BY <1>3, <2>2
    <3>3. acked' \in [R!Client -> 0 .. drawn]  BY <3>1, <3>2
    <3>4. \A c \in R!Client : acked'[c] = acked[c]  BY <3>2
    <3> QED  BY <3>3, <3>4
  <2> QED  BY <2>1, <2>2
<1>8. RTables'
  <2>1. R!IsFile(main)' /\ R!IsFile(bak)' /\ R!IsTable(app)' /\ R!IsTable(snapshot)'
            /\ R!IsTable(manager)'
    BY <1>3 DEF RInv, RTables, R!IsFile, R!IsTable
  <2> QED  BY <1>3, <1>4, <1>7, <2>1 DEF RInv, RTables
<1>9. \A q \in Proc : RequestOK(q)'
  <2>1. \A q \in Proc \ {p} : RequestOK(q)'  BY <1>3, <1>4, <1>5, Others
  <2>2. CASE r.todo = Re  BY <1>3, <1>4, <1>5, <2>1, <2>2, Ends
  <2>3. CASE r.todo = RS
    <3>1. Sa \in Plan(r.op) /\ Sa \notin {WR, WRS, Wr}  BY <1>2, <2>3, Following, Apart
    <3>2. RequestOK(p)'  BY <1>1, <1>2, <1>3, <1>4, <1>5, <2>3, <3>1, GoesOn
    <3> QED  BY <2>1, <3>2
  <2> QED  BY <1>2, <2>2, <2>3
<1>10. ASSUME faults.corruptions = 0 PROVE OnDisk'
  <2>1. OnDisk  BY <1>10 DEF RInv
  <2>2. R!Recoverable' = R!Recoverable  BY <1>3, SameFiles
  <2>3. r.op \in {"register", "rotate"} => r.id \in DOMAIN R!Recoverable \cup unsaved
            /\ r.id \in DOMAIN manager
    BY <1>1, <1>2, <2>1, Apart DEF OnDisk, Kept
  <2>4. PICK o : o = [op |-> r.op, id |-> r.id, secret |-> r.secret, todo |-> Sa]  OBVIOUS
  <2>5. o.op = r.op /\ o.id = r.id /\ o.todo = Sa /\ (r.todo = RS => req'[p] = o)  BY <1>4, <2>4
  <2>6. Saves(Sa) /\ ~Saves(Re)  BY Apart DEF Saves
  <2>7. \A c : /\ Pending(c) => Pending(c)'
               /\ Saving(c) => Saving(c)'
    BY <1>1, <1>2, <1>3, <1>4, <1>5, <2>5, <2>6 DEF Pending, Saving
  <2>8. Kept(p)'
    <3>1. CASE r.todo = Re
      BY <1>4, <3>1, IdleIs DEF Kept
    <3>2. CASE r.todo = RS
      BY <1>3, <2>3, <2>5, <3>2, Apart DEF Kept
    <3> QED  BY <1>2, <3>1, <3>2
  <2>9. \A q \in Proc : Kept(q)'
    <3>1. \A q \in Proc \ {p} : Kept(q)'  BY <1>3, <1>4, <2>1, <2>2 DEF OnDisk, Kept
    <3> QED  BY <2>8, <3>1
  <2>10. \A c \in R!Client : R!Answered(c)' => c \in DOMAIN R!Recoverable \cup unsaved
    BY <1>7, <2>1, <2>3 DEF OnDisk, R!Answered
  <2> QED  BY <1>3, <2>1, <2>2, <2>7, <2>9, <2>10 DEF OnDisk, Same
<1> QED  BY <1>3, <1>8, <1>9, <1>10 DEF RInv

\* ... the lock with the files renamed, ...
LEMMA SaveStarts == ASSUME RInv, NEW p \in Proc, R!SaveStart(p) PROVE RInv'
<1>1. PICK r : r = req[p]  OBVIOUS
<1>2. /\ r.todo \in {SR, SRS, Sa} /\ r.todo # <<>> /\ r # R!Idle /\ RequestOK(p)
      /\ r.todo \in Plan(r.op) /\ req = [q \in Proc |-> req[q]]
  BY <1>1, AtStep DEF R!SaveStart, RInv, RTables
<1>3. PICK w : w = <<"write">> \o Tail(r.todo)  OBVIOUS
<1>4. w \in Plan(r.op) /\ w \in {WR, WRS, Wr}
  <2>1. CASE r.todo = SR  BY <1>2, <1>3, <2>1, Following, Writes
  <2>2. CASE r.todo = SRS  BY <1>2, <1>3, <2>2, Following, Writes
  <2>3. CASE r.todo = Sa  BY <1>2, <1>3, <2>3, Following, Writes
  <2> QED  BY <1>2, <2>1, <2>2, <2>3
<1>5. PICK o : o = [op |-> r.op, id |-> r.id, secret |-> r.secret, todo |-> w]  OBVIOUS
<1>6. o.op = r.op /\ o.id = r.id /\ o.secret = r.secret /\ o.todo = w  BY <1>5
<1>7. /\ lock = NoProc /\ lock' = p /\ snapshot' = manager /\ R!Backup
      /\ UNCHANGED <<app, listed, manager, drawn, faults, acked, unsaved>>
  BY DEF R!SaveStart, R!Snapshot, R!history
<1>8. /\ req' = [q \in Proc |-> req'[q]] /\ \A q \in Proc \ {p} : req'[q] = req[q]
      /\ req'[p] = o
  <2>1. r = [op |-> r.op, id |-> r.id, secret |-> r.secret, todo |-> r.todo]  BY <1>1, <1>2, Busy
  <2>2. [r EXCEPT !.todo = w] = o  BY <1>5, <2>1
  <2>3. req' = [req EXCEPT ![p].todo = w]  BY <1>1, <1>2, <1>3 DEF R!SaveStart
  <2> QED  BY <1>1, <1>2, <2>2, <2>3
<1>9. drawn \in Nat /\ NoProc \notin Proc  BY RegistryAssumption DEF RInv, RTables
<1>10. /\ R!IsFile(main)' /\ R!IsFile(bak)'
       /\ main # Corrupt /\ bak # Corrupt =>
             R!Recoverable' = R!Recoverable /\ main' # Corrupt /\ bak' # Corrupt
  BY <1>7, Renamed DEF RInv, RTables
<1>11. RTables'
  <2>1. R!IsTable(app)' /\ R!IsTable(snapshot)' /\ R!IsTable(manager)'
    BY <1>7 DEF RInv, RTables, R!IsTable
  <2> QED  BY <1>7, <1>8, <1>10, <2>1 DEF RInv, RTables
<1>12. \A q \in Proc : RequestOK(q)'
  <2>1. \A q \in Proc \ {p} : RequestOK(q)'  BY <1>7, <1>8, <1>9, Others
  <2>2. RequestOK(p)'  BY <1>1, <1>2, <1>4, <1>5, <1>7, <1>8, GoesOn
  <2> QED  BY <2>1, <2>2
<1>13. ASSUME faults.corruptions = 0 PROVE OnDisk'
  <2>1. OnDisk  BY <1>13 DEF RInv
  <2>2. R!Recoverable' = R!Recoverable /\ main' # Corrupt /\ bak' # Corrupt
    BY <1>10, <2>1 DEF OnDisk
  <2>3. \A c : Pending(c) => Pending(c)' \/ Saving(c)'
    <3>1. ASSUME NEW c, Pending(c) PROVE Pending(c)' \/ Saving(c)'
      <4>1. PICK q \in Proc : req[q].id = c /\ Saves(req[q].todo)  BY <3>1 DEF Pending
      <4>2. CASE q = p  BY <1>1, <1>6, <1>7, <1>8, <4>1, <4>2 DEF Saving
      <4>3. CASE q # p  BY <1>8, <4>1, <4>3 DEF Pending
      <4> QED  BY <4>2, <4>3
    <3> QED  BY <3>1
  <2>4. \A c : ~Saving(c)  BY <1>7, <1>9 DEF Saving
  <2>5. \A q \in Proc : Kept(q)'
    <3>1. Kept(p)'
      <4>1. r.op \in {"register", "rotate"} => r.id \in DOMAIN manager
        BY <1>1, <1>2, <2>1, Apart DEF OnDisk, Kept
      <4>2. w \notin {Re, RS}  BY <1>4, Apart
      <4> QED  BY <1>6, <1>7, <1>8, <4>1, <4>2 DEF Kept
    <3>2. ASSUME NEW q \in Proc \ {p} PROVE Kept(q)'
      <4>1. req[q].todo \notin {WR, WRS, Wr}
        BY <1>7, <1>9 DEF RInv, RequestOK
      <4>2. Kept(q) /\ req'[q] = req[q]  BY <1>8, <2>1 DEF OnDisk
      <4> QED  BY <1>7, <2>2, <4>1, <4>2 DEF Kept
    <3> QED  BY <3>1, <3>2
  <2>6. \A c : Same(snapshot', manager', c)  BY <1>7 DEF Same
  <2>7. /\ DOMAIN R!Recoverable' \subseteq DOMAIN manager'
        /\ DOMAIN R!Recoverable' \subseteq DOMAIN snapshot'
             /\ DOMAIN snapshot' \subseteq DOMAIN manager'
    BY <1>7, <2>1, <2>2 DEF OnDisk
  <2>8. ASSUME NEW c \in R!Client
        PROVE  /\ Same(R!Recoverable, manager, c)' \/ c \in unsaved' \/ Pending(c)' \/ Saving(c)'
               /\ R!Answered(c)' => c \in DOMAIN R!Recoverable' \cup unsaved'
    <3>1. Same(R!Recoverable, manager, c)' <=> Same(R!Recoverable, manager, c)
      BY <1>7, <2>2 DEF Same
    <3>2. R!Answered(c)' <=> R!Answered(c)  BY <1>7 DEF R!Answered
    <3> QED  BY <1>7, <2>1, <2>2, <2>3, <2>4, <3>1, <3>2 DEF OnDisk
  <2> QED  BY <2>2, <2>5, <2>6, <2>7, <2>8 DEF OnDisk
<1> QED  BY <1>7, <1>11, <1>12, <1>13 DEF RInv

\* A save that ends, however it ends.
LEMMA SaveEnds ==
    ASSUME RInv, NEW p \in Proc, R!Ready(p, "write"), R!Done(p), lock' = NoProc,
               snapshot' = R!EmptyMap,
           UNCHANGED <<app, listed, manager, bak, drawn, acked>>,
           R!IsFile(main)', unsaved' \subseteq R!Client,
           faults' \in [restarts : Nat, failures : Nat, corruptions : Nat]
    PROVE  /\ lock = p /\ RTables' /\ \A q \in Proc : RequestOK(q)'
           /\ \A q \in Proc \ {p} : req'[q] = req[q] /\ req[q].todo \notin {WR, WRS, Wr}
           /\ Saves(req[p].todo) => Saves(req'[p].todo) /\ req'[p].id = req[p].id
           /\ req[p].todo \in {WR, WRS, Wr}
           /\ req'[p].todo \in {Re, RS} => req[p].todo \in {WR, WRS}
                /\ req'[p].id = req[p].id /\ req'[p].op = req[p].op
           /\ req'[p] = R!Idle \/ req'[p].todo \in {Re, RS}
<1>1. PICK r : r = req[p]  OBVIOUS
<1>2. /\ r.todo \in {WR, WRS, Wr} /\ r.todo # <<>> /\ r # R!Idle /\ RequestOK(p)
      /\ r.todo \in Plan(r.op) /\ req = [q \in Proc |-> req[q]]
  BY <1>1, AtStep DEF RInv, RTables
<1>3. lock = p /\ NoProc \notin Proc /\ drawn \in Nat
  BY <1>1, <1>2, RegistryAssumption DEF RequestOK, RInv, RTables
<1>4. PICK t : t = Tail(r.todo)  OBVIOUS
<1>5. r.todo # Wr => t \in {Re, RS} /\ t \in Plan(r.op) /\ t \notin {WR, WRS, Wr}
  <2>1. CASE r.todo = WR  BY <1>2, <1>4, <2>1, Following, Tails, Apart
  <2>2. CASE r.todo = WRS  BY <1>2, <1>4, <2>2, Following, Tails, Apart
  <2> QED  BY <1>2, <2>1, <2>2
<1>6. PICK o : o = [op |-> r.op, id |-> r.id, secret |-> r.secret, todo |-> t]  OBVIOUS
<1>7. o.op = r.op /\ o.id = r.id /\ o.todo = t  BY <1>6
<1>8. /\ req' = [q \in Proc |-> req'[q]] /\ \A q \in Proc \ {p} : req'[q] = req[q]
      /\ req'[p] = IF r.todo = Wr THEN R!Idle ELSE o
  <2>1. r.todo \in {Re, Wr, Sa} <=> r.todo = Wr  BY <1>2, Apart
  <2> QED  BY <1>1, <1>2, <1>4, <1>6, <2>1, DoneIs
<1>9. RTables'
  <2>1. R!IsFile(bak)' /\ R!IsTable(app)' /\ R!IsTable(snapshot)' /\ R!IsTable(manager)'
    <3>1. R!IsTable(snapshot')  BY EmptyTable
    <3>2. R!IsTable(snapshot)'  BY <3>1 DEF R!IsTable
    <3> QED  BY <3>2 DEF RInv, RTables, R!IsFile, R!IsTable
  <2> QED  BY <1>8, <2>1 DEF RInv, RTables
<1>10. \A q \in Proc : RequestOK(q)'
  <2>1. \A q \in Proc \ {p} : RequestOK(q)'  BY <1>3, <1>8, Others
  <2>2. RequestOK(p)'
    <3>1. CASE r.todo = Wr  BY <1>3, <1>8, <3>1, Ends
    <3>2. CASE r.todo # Wr  BY <1>1, <1>2, <1>3, <1>5, <1>6, <1>8, <3>2, GoesOn
    <3> QED  BY <3>1, <3>2
  <2> QED  BY <2>1, <2>2
<1>11. ASSUME NEW q \in Proc \ {p} PROVE req[q].todo \notin {WR, WRS, Wr}
  <2>1. RequestOK(q)  BY DEF RInv
  <2>2. lock # q  BY <1>3
  <2> QED  BY <2>1, <2>2 DEF RequestOK
<1>12. Saves(r.todo) => Saves(req'[p].todo) /\ req'[p].id = r.id
  <2>1. ~Saves(WR) /\ ~Saves(Wr) /\ Wr # WRS /\ Saves(RS)  BY Apart DEF Saves
  <2>2. CASE r.todo = WRS
    <3>1. t = RS  BY <1>4, <2>2, Tails
    <3> QED  BY <1>7, <1>8, <2>1, <2>2, <3>1
  <2> QED  BY <1>2, <2>1, <2>2
<1>13. req'[p].todo \in {Re, RS} => r.todo \in {WR, WRS} /\ req'[p].id = r.id /\ req'[p].op = r.op
  <2>1. R!Idle.todo \notin {Re, RS}  BY IdleIs, TodoSteps DEF Todos
  <2> QED  BY <1>2, <1>7, <1>8, <2>1
<1> QED  BY <1>1, <1>2, <1>3, <1>5, <1>7, <1>8, <1>9, <1>10, <1>11, <1>12, <1>13

\* The requests once the save has ended and what was answered is accounted for.
LEMMA KeptAfterSave ==
    ASSUME OnDisk, NEW p \in Proc,
           \A q \in Proc \ {p} : req'[q] = req[q] /\ req[q].todo \notin {WR, WRS, Wr},
           req[p].todo \in {WR, WRS, Wr}, req'[p] = R!Idle \/ req'[p].todo \in {Re, RS},
           req'[p].todo \in {Re, RS} => req[p].todo \in {WR, WRS} /\ req'[p].id = req[p].id
               /\ req'[p].op = req[p].op,
           manager' = manager,
           DOMAIN R!Recoverable \cup unsaved \subseteq DOMAIN R!Recoverable' \cup unsaved',
           DOMAIN snapshot \subseteq DOMAIN R!Recoverable' \cup unsaved'
    PROVE  \A q \in Proc : Kept(q)'
<1>1. Kept(p)'
  <2>1. CASE req'[p] = R!Idle  BY <2>1, IdleIs DEF Kept
  <2>2. CASE req'[p].todo \in {Re, RS}
    <3>1. Kept(p) /\ req[p].todo \notin {MSR, MSRS}  BY Apart DEF OnDisk
    <3>2. req'[p].todo \notin {WR, WRS, Wr}  BY <2>2, Apart
    <3> QED  BY <2>2, <3>1, <3>2 DEF Kept
  <2> QED  BY <2>1, <2>2
<1>2. ASSUME NEW q \in Proc \ {p} PROVE Kept(q)'
  <2>1. Kept(q) /\ req'[q] = req[q] /\ req[q].todo \notin {WR, WRS, Wr}  BY DEF OnDisk
  <2> QED  BY <2>1 DEF Kept
<1> QED  BY <1>1, <1>2

\* ... the new file, or ...
LEMMA SaveWrites == ASSUME RInv, NEW p \in Proc, R!SaveWrite(p) PROVE RInv'
<1>1. /\ R!Ready(p, "write") /\ R!Done(p) /\ lock' = NoProc /\ snapshot' = R!EmptyMap
      /\ main' = snapshot /\ unsaved' = unsaved \ DOMAIN snapshot
      /\ UNCHANGED <<app, listed, manager, bak, drawn, faults, acked>>
  BY DEF R!SaveWrite
<1>2. R!Recoverable' = snapshot /\ main' # Corrupt /\ R!IsFile(main)'
  BY <1>1, Replaced DEF RInv, RTables
<1>3. unsaved' \subseteq R!Client /\ faults' \in [restarts : Nat, failures : Nat, corruptions : Nat]
  BY <1>1 DEF RInv, RTables
<1>4. /\ lock = p /\ RTables' /\ \A q \in Proc : RequestOK(q)'
      /\ \A q \in Proc \ {p} : req'[q] = req[q] /\ req[q].todo \notin {WR, WRS, Wr}
      /\ Saves(req[p].todo) => Saves(req'[p].todo) /\ req'[p].id = req[p].id
      /\ req[p].todo \in {WR, WRS, Wr}
      /\ req'[p].todo \in {Re, RS} => req[p].todo \in {WR, WRS} /\ req'[p].id = req[p].id
           /\ req'[p].op = req[p].op
      /\ req'[p] = R!Idle \/ req'[p].todo \in {Re, RS}
  BY <1>1, <1>2, <1>3, SaveEnds
<1>5. ASSUME faults.corruptions = 0 PROVE OnDisk'
  <2>1. OnDisk  BY <1>5 DEF RInv
  <2>2. \A c : Pending(c) => Pending(c)'  BY <1>4 DEF Pending
  <2>3. lock # NoProc  BY <1>4, RegistryAssumption
  <2>4. /\ DOMAIN R!Recoverable \subseteq DOMAIN snapshot
             /\ DOMAIN snapshot \subseteq DOMAIN manager
        /\ \A c \in R!Client : Same(snapshot, manager, c) \/ Pending(c)
        /\ bak # Corrupt
    BY <2>1, <2>3 DEF OnDisk
  <2>5. \A q \in Proc : Kept(q)'
    <3>1. /\ DOMAIN R!Recoverable \cup unsaved \subseteq DOMAIN R!Recoverable' \cup unsaved'
          /\ DOMAIN snapshot \subseteq DOMAIN R!Recoverable' \cup unsaved'
      BY <1>1, <1>2, <2>4
    <3> QED  BY <1>1, <1>4, <2>1, <3>1, KeptAfterSave
  <2>6. ASSUME NEW c \in R!Client
        PROVE  /\ Same(R!Recoverable, manager, c)' \/ Pending(c)'
               /\ R!Answered(c)' => c \in DOMAIN R!Recoverable' \cup unsaved'
    <3>1. Same(R!Recoverable, manager, c)' <=> Same(snapshot, manager, c)
      BY <1>1, <1>2 DEF Same
    <3>2. R!Answered(c)' <=> R!Answered(c)  BY <1>1 DEF R!Answered
    <3>3. R!Answered(c) => c \in DOMAIN R!Recoverable \cup unsaved  BY <2>1 DEF OnDisk
    <3> QED  BY <1>1, <1>2, <2>2, <2>4, <3>1, <3>2, <3>3
  <2> QED  BY <1>1, <1>2, <2>4, <2>5, <2>6 DEF OnDisk
<1> QED  BY <1>1, <1>4, <1>5 DEF RInv

\* ... the write that fails.
LEMMA SaveFailing == ASSUME RInv, NEW p \in Proc, R!SaveFails(p) PROVE RInv'
<1>1. /\ R!Ready(p, "write") /\ R!Done(p) /\ lock' = NoProc /\ snapshot' = R!EmptyMap
      /\ unsaved' = unsaved \cup {c \in DOMAIN snapshot :
                                     c \notin DOMAIN R!Recoverable
                                         \/ R!Recoverable[c] # snapshot[c]}
      /\ faults' = [faults EXCEPT !.failures = @ + 1]
      /\ UNCHANGED <<app, listed, manager, main, bak, drawn, acked>>
  BY DEF R!SaveFails, R!disk
<1>2. R!Recoverable' = R!Recoverable /\ R!IsFile(main)'
  BY <1>1, SameFiles DEF RInv, RTables, R!IsFile, R!IsTable
<1>3. /\ unsaved' \subseteq R!Client
           /\ faults' \in [restarts : Nat, failures : Nat, corruptions : Nat]
      /\ faults'.corruptions = faults.corruptions
  <2>1. DOMAIN snapshot \subseteq R!Client  BY TableFacts DEF RInv, RTables
  <2>2. /\ faults' \in [restarts : Nat, failures : Nat, corruptions : Nat]
        /\ faults'.corruptions = faults.corruptions
    BY <1>1 DEF RInv, RTables
  <2> QED  BY <1>1, <2>1, <2>2 DEF RInv, RTables
<1>4. /\ lock = p /\ RTables' /\ \A q \in Proc : RequestOK(q)'
      /\ \A q \in Proc \ {p} : req'[q] = req[q] /\ req[q].todo \notin {WR, WRS, Wr}
      /\ Saves(req[p].todo) => Saves(req'[p].todo) /\ req'[p].id = req[p].id
      /\ req[p].todo \in {WR, WRS, Wr}
      /\ req'[p].todo \in {Re, RS} => req[p].todo \in {WR, WRS} /\ req'[p].id = req[p].id
           /\ req'[p].op = req[p].op
      /\ req'[p] = R!Idle \/ req'[p].todo \in {Re, RS}
  BY <1>1, <1>2, <1>3, SaveEnds
<1>5. ASSUME faults.corruptions = 0 PROVE OnDisk'
  <2>1. OnDisk  BY <1>5 DEF RInv
  <2>2. \A c : Pending(c) => Pending(c)'  BY <1>4 DEF Pending
  <2>3. lock # NoProc  BY <1>4, RegistryAssumption
  <2>4. /\ DOMAIN R!Recoverable \subseteq DOMAIN snapshot
             /\ DOMAIN snapshot \subseteq DOMAIN manager
        /\ \A c \in R!Client : Same(snapshot, manager, c) \/ Pending(c)
        /\ main # Corrupt /\ bak # Corrupt /\ DOMAIN R!Recoverable \subseteq DOMAIN manager
    BY <2>1, <2>3 DEF OnDisk
  <2>5. \A q \in Proc : Kept(q)'
    <3>1. /\ DOMAIN R!Recoverable \cup unsaved \subseteq DOMAIN R!Recoverable' \cup unsaved'
          /\ DOMAIN snapshot \subseteq DOMAIN R!Recoverable' \cup unsaved'
      BY <1>1, <1>2
    <3> QED  BY <1>1, <1>4, <2>1, <3>1, KeptAfterSave
  <2>6. ASSUME NEW c \in R!Client
        PROVE  /\ Same(R!Recoverable, manager, c)' \/ c \in unsaved' \/ Pending(c)'
               /\ R!Answered(c)' => c \in DOMAIN R!Recoverable' \cup unsaved'
    <3>1. Same(R!Recoverable, manager, c)' <=> Same(R!Recoverable, manager, c)
      BY <1>1, <1>2 DEF Same
    <3>2. R!Answered(c)' <=> R!Answered(c)  BY <1>1 DEF R!Answered
    <3>3. R!Answered(c) => c \in DOMAIN R!Recoverable \cup unsaved  BY <2>1 DEF OnDisk
    <3>4. Same(snapshot, manager, c) => Same(R!Recoverable, manager, c) \/ c \in unsaved'
      BY <1>1, <2>4 DEF Same
    <3> QED  BY <1>1, <1>2, <2>2, <2>4, <3>1, <3>2, <3>3, <3>4
  <2> QED  BY <1>1, <1>2, <2>4, <2>5, <2>6 DEF OnDisk
<1> QED  BY <1>3, <1>4, <1>5 DEF RInv

\* The process starts with what can be read back; a file is damaged.
LEMMA Restarts == ASSUME RInv, R!Restart PROVE RInv'
<1>1. /\ manager' = R!Recoverable /\ app' = R!EmptyMap /\ listed' = {} /\ lock' = NoProc
      /\ snapshot' = R!EmptyMap /\ req' = [p \in Proc |-> R!Idle]
      /\ faults' = [faults EXCEPT !.restarts = @ + 1]
      /\ UNCHANGED <<main, bak, drawn, acked, unsaved>>
  BY DEF R!Restart, R!disk
<1>2. R!IsTable(R!Recoverable) /\ R!Recoverable' = R!Recoverable
  BY <1>1, Readable, SameFiles DEF RInv, RTables
<1>3. /\ faults' \in [restarts : Nat, failures : Nat, corruptions : Nat]
      /\ faults'.corruptions = faults.corruptions
  BY <1>1 DEF RInv, RTables
<1>4. RTables'
  <2>1. R!IsTable(app') /\ R!IsTable(snapshot') /\ R!IsTable(manager')  BY <1>1, <1>2, EmptyTable
  <2>2. R!IsTable(app)' /\ R!IsTable(snapshot)' /\ R!IsTable(manager)'  BY <2>1 DEF R!IsTable
  <2>3. R!IsFile(main)' /\ R!IsFile(bak)'  BY <1>1 DEF RInv, RTables, R!IsFile, R!IsTable
  <2>4. req' = [p \in Proc |-> req'[p]]  BY <1>1
  <2> QED  BY <1>1, <1>3, <2>2, <2>3, <2>4 DEF RInv, RTables
<1>5. ASSUME NEW p \in Proc PROVE RequestOK(p)'
  BY <1>1, <1>4, RegistryAssumption, Ends DEF RTables
<1>6. ASSUME faults.corruptions = 0 PROVE OnDisk'
  <2>1. OnDisk  BY <1>6 DEF RInv
  <2>2. \A p \in Proc : Kept(p)'  BY <1>1, IdleIs DEF Kept
  <2>3. \A c : Same(R!Recoverable, manager, c)'  BY <1>1, <1>2 DEF Same
  <2>4. \A c \in R!Client : R!Answered(c)' => c \in DOMAIN R!Recoverable' \cup unsaved'
    BY <1>1, <1>2, <2>1 DEF OnDisk, R!Answered
  <2> QED  BY <1>1, <1>2, <2>1, <2>2, <2>3, <2>4 DEF OnDisk
<1> QED  BY <1>3, <1>4, <1>5, <1>6 DEF RInv

LEMMA Corrupts == ASSUME RInv, R!CorruptFile PROVE RInv' /\ faults'.corruptions # 0
<1>1. /\ main' = Corrupt /\ faults' = [faults EXCEPT !.corruptions = @ + 1]
      /\ UNCHANGED <<app, listed, manager, bak, lock, snapshot, req, drawn, acked, unsaved>>
  BY DEF R!CorruptFile, R!store, R!history
<1>2. faults' \in [restarts : Nat, failures : Nat, corruptions : Nat] /\ faults'.corruptions # 0
  BY <1>1 DEF RInv, RTables
<1>3. RTables'
  <2>1. R!IsTable(app)' /\ R!IsTable(snapshot)' /\ R!IsTable(manager)' /\ R!IsFile(bak)'
    BY <1>1 DEF RInv, RTables, R!IsFile, R!IsTable
  <2>2. R!IsFile(main)'  BY <1>1 DEF R!IsFile
  <2> QED  BY <1>1, <1>2, <2>1, <2>2 DEF RInv, RTables
<1>4. \A p \in Proc : RequestOK(p)'  BY <1>1 DEF RInv, RequestOK
<1> QED  BY <1>2, <1>3, <1>4 DEF RInv

LEMMA RegistryStep == ASSUME RInv, R!Next PROVE RInv'
<1>1. \/ \E p \in Proc :
            \/ \/ \E meta \in Meta : R!Register(p, meta)
               \/ \E c \in R!Client : R!RotateSecret(p, c) \/ R!Delete(p, c)
                    \/ \E meta \in Meta : R!Update(p, c, meta)
               \/ R!Shutdown(p)
            \/ R!RegisterClient(p) \/ R!Respond(p) \/ R!SaveStart(p) \/ R!SaveWrite(p)
                 \/ R!SaveFails(p)
      \/ R!Restart \/ R!CorruptFile
  BY DEF R!Next
<1> QED
  BY <1>1, Begins, RegistersClient, Responds, SaveStarts, SaveWrites, SaveFailing, Restarts,
     Corrupts

\* No step takes a client from what can be read back; the new file holds the
\* manager's clients of the time the lock was taken, and these only grow.
LEMMA RegistryKeeps == ASSUME RInv, R!Next PROVE R!KeepsClients
<1> SUFFICES ASSUME faults'.corruptions = 0
             PROVE  DOMAIN R!Recoverable \subseteq DOMAIN R!Recoverable'
  BY DEF R!KeepsClients
<1>1. ~R!CorruptFile  BY Corrupts
<1>2. ASSUME NEW p \in Proc, R!SaveStart(p)
      PROVE  DOMAIN R!Recoverable \subseteq DOMAIN R!Recoverable'
  <2>1. faults.corruptions = 0 /\ R!Backup  BY <1>2 DEF R!SaveStart
  <2> QED  BY <2>1, Renamed DEF RInv, RTables, OnDisk
<1>3. ASSUME NEW p \in Proc, R!SaveWrite(p)
      PROVE  DOMAIN R!Recoverable \subseteq DOMAIN R!Recoverable'
  <2>1. faults.corruptions = 0 /\ main' = snapshot /\ R!Ready(p, "write")  BY <1>3 DEF R!SaveWrite
  <2>2. R!Recoverable' = snapshot  BY <2>1, Replaced DEF RInv, RTables
  <2>3. lock = p  BY <2>1, AtStep DEF RequestOK
  <2> QED  BY <2>1, <2>2, <2>3, RegistryAssumption DEF RInv, OnDisk
<1>4. CASE UNCHANGED <<main, bak>>  BY <1>4, SameFiles
<1>5. \/ UNCHANGED <<main, bak>> \/ R!CorruptFile
      \/ \E p \in Proc : R!SaveStart(p) \/ R!SaveWrite(p)
  BY DEF R!Next, R!Register, R!RotateSecret, R!Update, R!Delete, R!Shutdown, R!RegisterClient,
     R!Respond, R!SaveFails, R!Restart, R!disk
<1> QED  BY <1>1, <1>2, <1>3, <1>4, <1>5

-----------------------------------------------------------------------------
(* FileStore: a tenant's key-value file. *)

\* There is one instance at most, and a call has it.
CallOK(p) ==
    LET c == storeCall[p]
    IN c # F!Idle =>
       /\ c = [pc |-> c.pc, store |-> c.store, key |-> c.key, value |-> c.value]
       /\ c.pc \in {"open", "change", "write", "rename"}
       /\ c.pc # "open" => tenant = 1 /\ c.store = 1
       /\ c.pc \in {"open", "change"} => c.key \in StoreKey
       /\ c.key \in StoreKey \cup {F!NoKey} /\ c.value \in F!Value
       /\ c.pc \in {"write", "rename"} =>
             /\ storeLock[1] = p
             /\ c.key \in StoreKey => F!At(memory[1], c.key) = c.value

FInv ==
    /\ F!TypeOK
    /\ \/ memory = <<>> /\ storeLock = <<>> /\ tenant = 0
       \/ memory = <<memory[1]>> /\ storeLock = <<storeLock[1]>> /\ tenant = 1
    /\ storeCall = [p \in Proc |-> storeCall[p]]
    /\ storeFaults \in Nat
    /\ \A p \in Proc : CallOK(p)
    /\ F!AnsweredIsOnDisk
    /\ tenant # 0 =>
          \A k \in StoreKey : F!At(memory[1], k) \in {storeAcked[k]} \cup tried[k]

LEMMA StoreIdle == F!Idle.pc = "idle"
  BY DEF F!Idle

\* What a change of the map does to what a key has.
LEMMA PutAt ==
    ASSUME NEW m, NEW k, NEW v
    PROVE  \A j : F!At(F!Put(m, k, v), j) = IF j = k THEN v ELSE F!At(m, j)
  BY DEF F!At, F!Get, F!Put

LEMMA DropAt ==
    ASSUME NEW m, NEW k
    PROVE  \A j : F!At(F!Drop(m, {k}), j) = IF j = k THEN F!NoValue ELSE F!At(m, j)
  BY DEF F!At, F!Get, F!Drop, F!Restrict

LEMMA MapChanged ==
    ASSUME NEW m, F!IsMap(m), NEW k \in StoreKey, NEW v \in F!Value
    PROVE  F!IsMap(IF v = F!NoValue THEN F!Drop(m, {k}) ELSE F!Put(m, k, v))
  BY DEF F!IsMap, F!Put, F!Drop, F!Restrict

LEMMA OneCell == ASSUME NEW x, NEW y PROVE [<<x>> EXCEPT ![1] = y] = <<y>>
  OBVIOUS

FShape ==
    /\ \/ memory = <<>> /\ storeLock = <<>> /\ tenant = 0
       \/ /\ memory = <<memory[1]>> /\ storeLock = <<storeLock[1]>> /\ tenant = 1
          /\ F!IsMap(memory[1]) /\ storeLock[1] \in Proc \cup {NoProc}
    /\ F!IsMap(disk)
    /\ storeCall = [p \in Proc |-> storeCall[p]]
    /\ storeAcked \in [StoreKey -> F!Value] /\ tried \in [StoreKey -> SUBSET F!Value]
    /\ storeFaults \in Nat

FContents ==
    \A k \in StoreKey :
        /\ F!At(disk, k) \in {storeAcked[k]} \cup tried[k]
        /\ tenant # 0 =>
              /\ F!At(memory[1], k) \in {storeAcked[k]} \cup tried[k]
              /\ F!At(memory[1], k) # F!At(disk, k) => tried[k] # {}

StoreOK == FShape /\ FContents /\ \A p \in Proc : CallOK(p)

LEMMA StoreInvIs == FInv <=> StoreOK
<1>1. ASSUME FInv PROVE FShape /\ FContents
  BY <1>1 DEF FInv, FShape, FContents, F!TypeOK, F!AnsweredIsOnDisk
<1>2. ASSUME FShape, FContents, \A p \in Proc : CallOK(p) PROVE FInv
  <2>1. F!AnsweredIsOnDisk
    BY <1>2 DEF FShape, FContents, F!AnsweredIsOnDisk
  <2>2. \A p \in Proc : storeCall[p].pc \in {"idle", "open", "change", "write", "rename"}
    BY StoreIdle, <1>2 DEF CallOK
  <2>3. tenant \in 0 .. Len(memory) /\ Len(storeLock) = Len(memory)
    BY <1>2 DEF FShape
  <2>4. \A i \in DOMAIN memory : F!IsMap(memory[i]) /\ storeLock[i] \in Proc \cup {NoProc}
    BY <1>2 DEF FShape
  <2> QED  BY <1>2, <2>1, <2>2, <2>3, <2>4 DEF FInv, FShape, FContents, F!TypeOK
<1> QED  BY <1>1, <1>2 DEF FInv, StoreOK

LEMMA StoreInit == ASSUME F!Init PROVE FInv
<1>1. FShape /\ FContents
  BY DEF F!Init, FShape, FContents, F!IsMap, F!EmptyMap, F!At, F!Get, F!Value, F!NoValue
<1>2. \A p \in Proc : CallOK(p)  BY DEF F!Init, CallOK
<1> QED  BY <1>1, <1>2, StoreInvIs DEF StoreOK

LEMMA StoreStep == ASSUME FInv, F!Next PROVE FInv'
<1>a. FShape /\ FContents /\ \A p \in Proc : CallOK(p)  BY StoreInvIs DEF StoreOK
<1>b. NoProc \notin Proc /\ F!NoKey \notin StoreKey
  BY RegistryAssumption, UpkeepAssumption DEF F!NoKey
<1>c. StoreOK' => FInv'  BY StoreInvIs, PTL
<1>1. ASSUME NEW p \in Proc, NEW k \in StoreKey, NEW v \in F!Value, F!For(p, k, v)
      PROVE  StoreOK'
  <2>1. UNCHANGED <<tenant, memory, disk, storeLock, storeAcked, tried, storeFaults>>
    BY <1>1 DEF F!For
  <2>2. FShape' /\ FContents'
    BY <1>1, <1>a, <2>1 DEF FShape, FContents, F!For, F!At, F!Get, F!IsMap
  <2>3. PICK pc \in {"open", "change"} : pc = IF tenant = 0 THEN "open" ELSE "change"  OBVIOUS
  <2>4. \A q \in Proc : storeCall'[q] =
            IF q = p THEN [pc |-> pc, store |-> tenant, key |-> k, value |-> v] ELSE storeCall[q]
    BY <1>1, <1>a, <2>3 DEF F!For, FShape
  <2>5. pc # "open" => tenant = 1  BY <1>a, <2>3 DEF FShape
  <2> QED  BY <1>a, <2>1, <2>2, <2>4, <2>5 DEF CallOK, StoreOK, F!At, F!Get
<1>2. ASSUME NEW p \in Proc, F!Open(p)
      PROVE  StoreOK'
  <2>1. PICK c : c = storeCall[p]  OBVIOUS
  <2>2. c.pc = "open" /\ c.key \in StoreKey /\ c.value \in F!Value
    BY StoreIdle, <1>2, <1>a, <2>1 DEF F!Open, CallOK
  <2>3. UNCHANGED <<disk, storeAcked, tried, storeFaults>>  BY <1>2 DEF F!Open
  <2>4. CASE tenant # 0
    <3>1. UNCHANGED <<tenant, memory, storeLock>>  BY <1>2, <2>4 DEF F!Open, F!Opened
    <3>2. storeCall' = [storeCall EXCEPT ![p] = [pc |-> "change", store |-> tenant,
              key |-> c.key, value |-> c.value]]
      BY <1>2, <2>1, <2>4 DEF F!Open, F!Opened, F!Found
    <3>3. \A q \in Proc : storeCall'[q] =
              IF q = p THEN [pc |-> "change", store |-> tenant, key |-> c.key, value |-> c.value]
                                              ELSE storeCall[q]
      BY <3>2, <1>a DEF FShape
    <3>4. FShape' /\ FContents'
      BY <1>a, <2>3, <3>1, <3>2 DEF FShape, FContents, F!At, F!Get, F!IsMap
    <3>5. tenant = 1  BY <1>a, <2>4 DEF FShape
    <3> QED  BY <1>a, <2>2, <3>1, <3>3, <3>4, <3>5 DEF CallOK, StoreOK, F!At, F!Get
  <2>5. CASE tenant = 0
    <3>1. memory = <<>> /\ storeLock = <<>>  BY <1>a, <2>5 DEF FShape
    <3>2. memory' = <<disk>> /\ storeLock' = <<NoProc>> /\ tenant' = 1
      BY <1>2, <2>5, <3>1 DEF F!Open, F!Opened
    <3>3. storeCall' = [storeCall EXCEPT ![p] = [pc |-> "change", store |-> 1, key |-> c.key,
              value |-> c.value]]
      BY <1>2, <2>1, <2>5, <3>1 DEF F!Open, F!Opened, F!Found
    <3>4. \A q \in Proc : storeCall'[q] =
              IF q = p THEN [pc |-> "change", store |-> 1, key |-> c.key, value |-> c.value]
                                              ELSE storeCall[q]
      BY <3>3, <1>a DEF FShape
    <3>5. FShape'
      BY <1>a, <2>3, <3>2, <3>3 DEF FShape, F!IsMap
    <3>6. FContents'
      BY <1>a, <2>3, <3>2 DEF FContents, F!At, F!Get
    <3>7. \A q \in Proc : storeCall[q] # F!Idle => storeCall[q].pc = "open"
      <4>1. ASSUME NEW q \in Proc, storeCall[q] # F!Idle, CallOK(q) PROVE storeCall[q].pc = "open"
        BY <2>5, <4>1 DEF CallOK
      <4> QED  BY <1>a, <4>1
    <3> QED  BY <1>a, <2>2, <3>2, <3>4, <3>5, <3>6, <3>7 DEF CallOK, StoreOK
  <2> QED  BY <2>4, <2>5
<1>3. ASSUME NEW p \in Proc, F!Change(p)
      PROVE  StoreOK'
  <2>1. PICK c : c = storeCall[p]  OBVIOUS
  <2>2. /\ c.pc = "change" /\ c.store = 1 /\ tenant = 1 /\ c.key \in StoreKey /\ c.value \in F!Value
        /\ c = [pc |-> "change", store |-> 1, key |-> c.key, value |-> c.value]
    BY StoreIdle, <1>3, <1>a, <2>1 DEF F!Change, CallOK
  <2>3. PICK m : m = IF c.value = F!NoValue THEN F!Drop(memory[1], {c.key})
                 ELSE F!Put(memory[1], c.key, c.value)
    OBVIOUS
  <2>4. memory = <<memory[1]>> /\ storeLock = <<storeLock[1]>> /\ F!IsMap(memory[1])
    BY <1>a, <2>2 DEF FShape
  <2>5. /\ memory' = [memory EXCEPT ![1] = m] /\ storeLock' = [storeLock EXCEPT ![1] = p]
        /\ storeLock[1] = NoProc
    BY <1>3, <2>1, <2>2, <2>3 DEF F!Change
  <2>6. memory' = <<m>> /\ storeLock' = <<p>>  BY <2>4, <2>5, OneCell
  <2>7. /\ UNCHANGED <<tenant, disk, storeAcked, storeFaults>>
        /\ tried' = [tried EXCEPT ![c.key] = @ \cup {c.value}]
        /\ storeCall' = [storeCall EXCEPT ![p].pc = "write"]
    BY <1>3, <2>1 DEF F!Change
  <2>8. \A q \in Proc : storeCall'[q] =
            IF q = p THEN [pc |-> "write", store |-> 1, key |-> c.key, value |-> c.value]
                                            ELSE storeCall[q]
    BY <2>1, <2>2, <2>7, <1>a DEF FShape
  <2>9. F!IsMap(m)  BY <2>2, <2>3, <2>4, MapChanged
  <2>10. \A k : F!At(m, k) = IF k = c.key THEN c.value ELSE F!At(memory[1], k)
    <3>1. CASE c.value = F!NoValue
      <4>1. m = F!Drop(memory[1], {c.key})  BY <2>3, <3>1
      <4>2. \A j : F!At(F!Drop(memory[1], {c.key}), j) = IF j = c.key THEN F!NoValue
                ELSE F!At(memory[1], j)
        BY DropAt
      <4> QED  BY <3>1, <4>1, <4>2
    <3>2. CASE c.value # F!NoValue
      <4>1. m = F!Put(memory[1], c.key, c.value)  BY <2>3, <3>2
      <4> QED  BY <4>1, PutAt
    <3> QED  BY <3>1, <3>2
  <2>11. \A k \in StoreKey : tried'[k] = IF k = c.key THEN tried[k] \cup {c.value} ELSE tried[k]
    BY <2>7, <1>a DEF FShape
  <2>12. FShape'
    <3>1. tried' \in [StoreKey -> SUBSET F!Value]  BY <2>2, <2>7, <1>a DEF FShape
    <3>2. storeCall' = [q \in Proc |-> storeCall'[q]]  BY <2>7, <1>a DEF FShape
    <3>3. memory' = <<memory'[1]>> /\ storeLock' = <<storeLock'[1]>> /\ memory'[1] = m
              /\ storeLock'[1] = p
      BY <2>6
    <3>4. F!IsMap(memory'[1]) /\ F!IsMap(disk')  BY <2>7, <2>9, <3>3, <1>a DEF FShape
    <3> QED  BY <1>a, <2>2, <2>7, <3>1, <3>2, <3>3, <3>4 DEF FShape, F!IsMap
  <2>13. FContents'
    <3>1. memory'[1] = m  BY <2>6
    <3>2. ASSUME NEW k \in StoreKey
          PROVE  /\ F!At(disk, k) \in {storeAcked[k]} \cup tried'[k]
                 /\ F!At(m, k) \in {storeAcked[k]} \cup tried'[k]
                 /\ F!At(m, k) # F!At(disk, k) => tried'[k] # {}
      <4>1. CASE k = c.key  BY <2>2, <2>10, <2>11, <4>1, <1>a DEF FContents
      <4>2. CASE k # c.key
        <5>1. tried'[k] = tried[k] /\ F!At(m, k) = F!At(memory[1], k)  BY <2>10, <2>11, <4>2
        <5> QED  BY <2>2, <5>1, <1>a DEF FContents
      <4> QED  BY <4>1, <4>2
    <3> QED  BY <2>7, <3>1, <3>2 DEF FContents, F!At, F!Get
  <2>14. \A q \in Proc : storeCall[q].pc \notin {"write", "rename"}
    BY StoreIdle, <1>a, <1>b, <2>5 DEF CallOK
  <2>15. memory'[1] = m /\ storeLock'[1] = p /\ F!At(m, c.key) = c.value  BY <2>6, <2>10
  <2> QED  BY <1>a, <2>2, <2>7, <2>8, <2>12, <2>13, <2>14, <2>15 DEF CallOK, StoreOK, F!At, F!Get
<1>4. ASSUME NEW p \in Proc, F!Close(p)
      PROVE  StoreOK'
  <2>1. tenant = 1 /\ memory = <<memory[1]>> /\ storeLock = <<storeLock[1]>>
    BY <1>4, <1>a DEF F!Close, FShape
  <2>2. /\ storeLock' = <<p>> /\ storeLock[1] = NoProc
        /\ UNCHANGED <<tenant, memory, disk, storeAcked, tried, storeFaults>>
    BY <1>4, <2>1, OneCell DEF F!Close
  <2>3. storeCall' = [storeCall EXCEPT ![p] = [pc |-> "write", store |-> 1, key |-> F!NoKey,
            value |-> F!NoValue]]
    BY <1>4, <2>1 DEF F!Close
  <2>4. \A q \in Proc : storeCall'[q] =
            IF q = p THEN [pc |-> "write", store |-> 1, key |-> F!NoKey, value |-> F!NoValue]
                                            ELSE storeCall[q]
    BY <2>3, <1>a DEF FShape
  <2>5. FShape' /\ FContents'
    BY <1>a, <2>1, <2>2, <2>3 DEF FShape, FContents, F!At, F!Get, F!IsMap
  <2>6. \A q \in Proc : storeCall[q].pc \notin {"write", "rename"}
    BY StoreIdle, <1>a, <1>b, <2>2 DEF CallOK
  <2>7. storeLock'[1] = p /\ F!NoValue \in F!Value  BY <2>2 DEF F!Value
  <2> QED  BY <1>a, <1>b, <2>1, <2>2, <2>4, <2>5, <2>6, <2>7 DEF CallOK, StoreOK, F!At, F!Get
<1>5. ASSUME NEW p \in Proc, F!Write(p)
      PROVE  StoreOK'
  <2>1. PICK c : c = storeCall[p]  OBVIOUS
  <2>2. c.pc = "write" /\ c = [pc |-> "write", store |-> c.store, key |-> c.key, value |-> c.value]
    BY StoreIdle, <1>5, <1>a, <2>1 DEF F!Write, CallOK
  <2>3. UNCHANGED <<tenant, memory, disk, storeLock, storeAcked, tried, storeFaults>>
    BY <1>5 DEF F!Write, F!WriteTmp
  <2>4. \A q \in Proc : storeCall'[q] =
            IF q = p THEN [pc |-> "rename", store |-> c.store, key |-> c.key, value |-> c.value]
                                            ELSE storeCall[q]
    BY <1>5, <1>a, <2>1, <2>2 DEF F!Write, FShape
  <2>5. FShape' /\ FContents'
    BY <1>5, <1>a, <2>3 DEF F!Write, FShape, FContents, F!At, F!Get, F!IsMap
  <2>6. storeLock[1] = p /\ CallOK(p)  BY StoreIdle, <1>a, <2>1, <2>2 DEF CallOK
  <2> QED  BY StoreIdle, <1>a, <2>1, <2>2, <2>3, <2>4, <2>5, <2>6 DEF CallOK, StoreOK, F!At, F!Get
<1>6. ASSUME NEW p \in Proc, F!Rename(p)
      PROVE  StoreOK'
  <2>1. PICK c : c = storeCall[p]  OBVIOUS
  <2>2. /\ c.pc = "rename" /\ c.store = 1 /\ tenant = 1 /\ storeLock[1] = p /\ c.value \in F!Value
        /\ c.key \in StoreKey \cup {F!NoKey}
        /\ c.key \in StoreKey => F!At(memory[1], c.key) = c.value
    BY StoreIdle, <1>6, <1>a, <2>1 DEF F!Rename, CallOK
  <2>3. /\ memory = <<memory[1]>> /\ storeLock = <<storeLock[1]>> /\ F!IsMap(memory[1])
    BY <1>a, <2>2 DEF FShape
  <2>4. /\ disk' = memory[1] /\ storeLock' = <<NoProc>>
        /\ UNCHANGED <<tenant, memory, storeFaults>>
    BY <1>6, <2>1, <2>2, <2>3, OneCell DEF F!Rename
  <2>5. /\ storeAcked' = [k \in StoreKey |-> IF k = c.key THEN c.value ELSE storeAcked[k]]
        /\ tried' = [k \in StoreKey |-> IF k = c.key THEN {} ELSE tried[k]]
        /\ storeCall' = [storeCall EXCEPT ![p] = F!Idle]
    BY <1>6, <2>1 DEF F!Rename
  <2>6. \A q \in Proc : storeCall'[q] = IF q = p THEN F!Idle ELSE storeCall[q]
    BY <2>5, <1>a DEF FShape
  <2>7. \A q \in Proc \ {p} : storeCall[q].pc \notin {"write", "rename"}
    BY StoreIdle, <1>a, <2>2 DEF CallOK
  <2>8. FShape'
    <3>1. storeAcked' \in [StoreKey -> F!Value] /\ tried' \in [StoreKey -> SUBSET F!Value]
      BY <1>a, <2>2, <2>5 DEF FShape
    <3>2. storeCall' = [q \in Proc |-> storeCall'[q]]  BY <2>5, <1>a DEF FShape
    <3>3. storeLock' = <<storeLock'[1]>> /\ storeLock'[1] = NoProc  BY <2>4
    <3>4. F!IsMap(memory'[1]) /\ F!IsMap(disk')  BY <2>3, <2>4
    <3> QED  BY <1>a, <2>2, <2>3, <2>4, <3>1, <3>2, <3>3, <3>4 DEF FShape, F!IsMap
  <2>9. FContents'
    <3>1. \A k \in StoreKey : F!At(memory[1], k) \in {storeAcked'[k]} \cup tried'[k]
      BY <1>a, <2>2, <2>5 DEF FContents
    <3> QED  BY <2>4, <3>1 DEF FContents, F!At, F!Get
  <2> QED  BY StoreIdle, <1>a, <2>4, <2>6, <2>7, <2>8, <2>9 DEF CallOK, StoreOK
<1>7. ASSUME NEW p \in Proc, F!Fail(p)
      PROVE  StoreOK'
  <2>1. storeCall[p].store = 1 /\ tenant = 1 /\ storeLock[1] = p
    BY StoreIdle, <1>7, <1>a DEF F!Fail, CallOK
  <2>2. memory = <<memory[1]>> /\ storeLock = <<storeLock[1]>>  BY <1>a, <2>1 DEF FShape
  <2>3. /\ storeLock' = <<NoProc>> /\ storeFaults' = storeFaults + 1
        /\ UNCHANGED <<tenant, memory, disk, storeAcked, tried>>
    BY <1>7, <2>1, <2>2, OneCell DEF F!Fail
  <2>4. \A q \in Proc : storeCall'[q] = IF q = p THEN F!Idle ELSE storeCall[q]
    BY <1>7, <1>a DEF F!Fail, FShape
  <2>5. storeCall' = [q \in Proc |-> storeCall'[q]]  BY <1>7, <1>a DEF F!Fail, FShape
  <2>6. FShape' /\ FContents'
    BY <1>a, <2>1, <2>2, <2>3, <2>5 DEF FShape, FContents, F!At, F!Get, F!IsMap
  <2>7. \A q \in Proc \ {p} : storeCall[q].pc \notin {"write", "rename"}
    BY StoreIdle, <1>a, <2>1 DEF CallOK
  <2> QED  BY StoreIdle, <1>a, <2>3, <2>4, <2>6, <2>7 DEF CallOK, StoreOK
<1>8. ASSUME F!Restart PROVE StoreOK'
  <2>1. FShape' /\ FContents'
    BY <1>8, <1>a DEF F!Restart, FShape, FContents, F!At, F!Get, F!IsMap
  <2>2. \A p \in Proc : storeCall'[p] = F!Idle  BY <1>8 DEF F!Restart
  <2>3. \A p \in Proc : CallOK(p)'  BY <2>2, Zenon DEF CallOK
  <2> QED  BY <2>1, <2>3 DEF StoreOK
<1>9. StoreOK'
  <2>1. ASSUME NEW p \in Proc,
               \/ \E k \in StoreKey, v \in F!Value : F!For(p, k, v)
               \/ F!Open(p) \/ F!Change(p) \/ F!Close(p) \/ F!Write(p) \/ F!Rename(p) \/ F!Fail(p)
        PROVE  StoreOK'
    BY <1>1, <1>2, <1>3, <1>4, <1>5, <1>6, <1>7, <2>1
  <2> QED  BY <1>8, <2>1 DEF F!Next
<1> QED  BY <1>c, <1>9

-----------------------------------------------------------------------------
(* Notifier: the webhooks. *)

Senders == {p \in Proc : call[p] = "send"}
Gone == Len(accepted) - Len(ch)          \* events that drain has taken

NInv ==
    /\ N!TypeOK
    /\ ch \in Seq(Nat) /\ accepted \in Seq(Nat)
         /\ attempts \in Seq(Nat \X {Urls[i] : i \in DOMAIN Urls})
    /\ stopped \in BOOLEAN /\ closed \in BOOLEAN /\ done \in BOOLEAN
    /\ panics \in Nat
    /\ call \in [Proc -> {"idle", "send", "close", "wait"}]
    /\ IsFiniteSet(Senders) /\ panics + Cardinality(Senders) <= emitted
    /\ \A p \in Proc : /\ call[p] = "close" => stopped
                       /\ call[p] = "send" => Urls # <<>>
    /\ accepted # <<>> => Urls # <<>>
    /\ Len(ch) <= Len(accepted)
    /\ \A i \in DOMAIN accepted : accepted[i] = i
    /\ \A i \in DOMAIN ch : ch[i] = Gone + i
    /\ \/ post = N!NoPost /\ Len(attempts) = Len(Urls) * Gone
       \/ /\ post \in [event : Nat, url : Nat] /\ post.event = Gone /\ Gone > 0
          /\ post.url \in DOMAIN Urls
          /\ Len(attempts) = Len(Urls) * (Gone - 1) + post.url - 1
    /\ N!AttemptedOnceInOrder

\* Events and webhooks make the rows and columns of a table; attempts fill it
\* row by row.
LEMMA TimesGrows == ASSUME NEW n \in Nat, NEW a \in Nat, NEW b \in Nat, a <= b PROVE n * a <= n * b
<1>1. PICK d \in Nat : b = a + d
  <2>1. b - a \in Nat /\ b = a + (b - a)  OBVIOUS
  <2> QED  BY <2>1
<1>2. n * b = n * a + n * d  BY <1>1
<1>3. n * d \in Nat /\ n * a \in Nat  OBVIOUS
<1> QED  BY <1>2, <1>3

\* A row of n places is left before the next begins.
LEMMA RowsApart ==
    ASSUME NEW n \in Nat, NEW a \in Nat \ {0}, NEW b \in Nat \ {0}, NEW u \in 1 .. n,
               NEW v \in 1 .. n, a < b
    PROVE  n * (a - 1) + u < n * (b - 1) + v
<1>1. a <= b - 1 /\ b - 1 \in Nat /\ a \in Nat /\ a - 1 \in Nat  OBVIOUS
<1>2. n * a <= n * (b - 1)  BY <1>1, TimesGrows
<1>3. n * a = n * (a - 1) + n  BY <1>1
<1>4. n * (a - 1) \in Nat /\ n * (b - 1) \in Nat /\ n * a \in Nat  BY <1>1
<1> QED  BY <1>2, <1>3, <1>4

LEMMA OneRow ==
    ASSUME NEW n \in Nat, NEW a \in Nat \ {0}, NEW b \in Nat \ {0}, NEW u \in 1 .. n,
               NEW v \in 1 .. n,
           n * (a - 1) + u = n * (b - 1) + v
    PROVE  a = b /\ u = v
<1>1. n * (a - 1) \in Nat /\ n * (b - 1) \in Nat
  <2>1. a - 1 \in Nat /\ b - 1 \in Nat  OBVIOUS
  <2> QED  BY <2>1
<1>2. ~(a < b)  BY <1>1, RowsApart
<1>3. ~(b < a)  BY <1>1, RowsApart
<1> QED  BY <1>1, <1>2, <1>3

LEMMA UrlsAre ==
    /\ Len(Urls) \in Nat /\ DOMAIN Urls = 1 .. Len(Urls)
    /\ Urls # <<>> => Len(Urls) >= 1
    /\ Urls \in Seq({Urls[i] : i \in DOMAIN Urls})
  BY UrlsAssumption

LEMMA CallsMove ==
    ASSUME NInv, NEW p \in Proc, NEW x \in {"idle", "send", "close", "wait"},
               call' = [call EXCEPT ![p] = x]
    PROVE  /\ call' \in [Proc -> {"idle", "send", "close", "wait"}]
           /\ call'[p] = x /\ \A q \in Proc \ {p} : call'[q] = call[q]
           /\ IsFiniteSet(Senders')
           /\ x = "send" /\ call[p] # "send" => Cardinality(Senders') = Cardinality(Senders) + 1
           /\ x # "send" /\ call[p] = "send" => Cardinality(Senders') = Cardinality(Senders) - 1
           /\ x # "send" /\ call[p] # "send" => Cardinality(Senders') = Cardinality(Senders)
           /\ Cardinality(Senders) \in Nat /\ Cardinality(Senders') \in Nat
<1>1. call \in [Proc -> {"idle", "send", "close", "wait"}] /\ IsFiniteSet(Senders)  BY DEF NInv
<1>2. /\ call' \in [Proc -> {"idle", "send", "close", "wait"}]
      /\ call'[p] = x /\ \A q \in Proc \ {p} : call'[q] = call[q]
  BY <1>1
<1>3. p \in Senders <=> call[p] = "send"  BY DEF Senders
<1>4. CASE x = "send"
  <2>1. Senders' = Senders \cup {p}  BY <1>2, <1>4 DEF Senders
  <2> QED  BY <1>1, <1>2, <1>3, <1>4, <2>1, FS_AddElement, FS_CardinalityType
<1>5. CASE x # "send"
  <2>1. Senders' = Senders \ {p}  BY <1>2, <1>5 DEF Senders
  <2>2. Senders \ {p} = Senders \/ p \in Senders  OBVIOUS
  <2> QED  BY <1>1, <1>2, <1>3, <1>5, <2>1, <2>2, FS_RemoveElement, FS_CardinalityType
<1> QED  BY <1>4, <1>5

LEMMA NotifierInit == ASSUME N!Init PROVE NInv
<1>1. /\ ch = <<>> /\ stopped = FALSE /\ closed = FALSE /\ done = FALSE /\ post = N!NoPost
      /\ call = [p \in Proc |-> "idle"] /\ accepted = <<>> /\ attempts = <<>> /\ panics = 0
           /\ emitted = 0
  BY DEF N!Init
<1>2. QueueSize \in Nat /\ MaxEvents \in Nat  BY UpkeepAssumption
<1>3. N!TypeOK  BY <1>1, <1>2 DEF N!TypeOK
<1>4. Senders = {}  BY <1>1 DEF Senders
<1>5. IsFiniteSet(Senders) /\ Cardinality(Senders) = 0  BY <1>4, FS_EmptySet
<1>6. Gone = 0  BY <1>1 DEF Gone
<1>7. Len(Urls) * 0 = 0  BY UrlsAre
<1>8. N!AttemptedOnceInOrder
  <2>1. DOMAIN accepted = {} /\ Len(attempts) = 0 /\ Len(accepted) = 0  BY <1>1
  <2> QED  BY <1>1, <1>7, <2>1 DEF N!AttemptedOnceInOrder
<1>9. Len(attempts) = Len(Urls) * Gone  BY <1>1, <1>6, <1>7
<1>10. /\ ch \in Seq(Nat) /\ accepted \in Seq(Nat)
            /\ attempts \in Seq(Nat \X {Urls[i] : i \in DOMAIN Urls})
       /\ DOMAIN ch = {} /\ DOMAIN accepted = {} /\ Len(ch) <= Len(accepted)
  BY <1>1
<1>11. call \in [Proc -> {"idle", "send", "close", "wait"}]  BY <1>1
<1>12. \A p \in Proc : call[p] = "idle"  BY <1>1
<1>13. panics + Cardinality(Senders) <= emitted /\ panics \in Nat  BY <1>1, <1>5
<1>14. closed \in BOOLEAN /\ done \in BOOLEAN /\ stopped \in BOOLEAN /\ ~(accepted # <<>>)  BY <1>1
<1> QED  BY <1>1, <1>3, <1>5, <1>8, <1>9, <1>10, <1>11, <1>12, <1>13, <1>14 DEF NInv

-----------------------------------------------------------------------------
\* What NInv says of the channel, the posts and the calls.
LEMMA CallSteps ==
    ASSUME NInv, NEW p \in Proc, N!Emit(p) \/ N!Stop(p) \/ N!Close(p) \/ N!Stopped(p)
    PROVE  NInv'
<1>1. UNCHANGED <<ch, done, post, accepted, attempts, panics>>
  BY DEF N!Emit, N!Stop, N!Close, N!Stopped, N!flags
<1>2. PICK x \in {"idle", "send", "close", "wait"} :
        /\ call' = [call EXCEPT ![p] = x]
        /\ \/ x = "send" /\ call[p] = "idle" /\ emitted' = emitted + 1 /\ emitted < MaxEvents
                /\ Urls # <<>>
                 /\ UNCHANGED <<stopped, closed>>
           \/ /\ x = "close" /\ call[p] = "idle" /\ stopped' = TRUE /\ UNCHANGED <<emitted, closed>>
           \/ /\ x = "wait" /\ call[p] = "close" /\ closed' = TRUE /\ UNCHANGED <<emitted, stopped>>
           \/ /\ x = "idle" /\ call[p] = "wait" /\ UNCHANGED <<emitted, stopped, closed>>
  BY DEF N!Emit, N!Stop, N!Close, N!Stopped, N!flags
<1>3. /\ call' \in [Proc -> {"idle", "send", "close", "wait"}]
      /\ call'[p] = x /\ \A q \in Proc \ {p} : call'[q] = call[q]
      /\ IsFiniteSet(Senders')
      /\ x = "send" /\ call[p] # "send" => Cardinality(Senders') = Cardinality(Senders) + 1
      /\ x # "send" /\ call[p] # "send" => Cardinality(Senders') = Cardinality(Senders)
      /\ Cardinality(Senders) \in Nat /\ Cardinality(Senders') \in Nat
  BY <1>2, CallsMove
<1>4. panics \in Nat /\ emitted \in 0 .. MaxEvents
          /\ panics + Cardinality(Senders) <= emitted /\ MaxEvents \in Nat
  BY UpkeepAssumption DEF NInv, N!TypeOK
<1>5. emitted' \in 0 .. MaxEvents /\ panics' + Cardinality(Senders') <= emitted'
  BY <1>1, <1>2, <1>3, <1>4
<1>6. stopped' \in BOOLEAN /\ closed' \in BOOLEAN /\ (closed' => stopped')
          /\ (closed => closed') /\ (stopped => stopped')
  <2>1. closed \in BOOLEAN /\ stopped \in BOOLEAN /\ (closed => stopped)
            /\ (call[p] = "close" => stopped)
    BY DEF NInv, N!TypeOK
  <2>2. CASE x = "send"
    <3>1. stopped' = stopped /\ closed' = closed  BY <1>2, <2>2
    <3> QED  BY <2>1, <3>1
  <2>3. CASE x = "close"
    <3>1. stopped' = TRUE /\ closed' = closed  BY <1>2, <2>3
    <3> QED  BY <2>1, <3>1
  <2>4. CASE x = "wait"
    <3>1. closed' = TRUE /\ stopped' = stopped /\ stopped  BY <1>2, <2>1, <2>4
    <3> QED  BY <2>1, <3>1
  <2>5. CASE x = "idle"
    <3>1. stopped' = stopped /\ closed' = closed  BY <1>2, <2>5
    <3> QED  BY <2>1, <3>1
  <2> QED  BY <1>2, <2>2, <2>3, <2>4, <2>5
<1>7. \A q \in Proc : /\ call'[q] = "close" => stopped'
                      /\ call'[q] = "send" => Urls # <<>>
  BY <1>2, <1>3, <1>6 DEF NInv
<1>8. N!TypeOK'
  <2>1. \A q \in Proc : call'[q] \in {"idle", "send", "close", "wait"}  BY <1>3
  <2>2. panics' <= emitted'  BY <1>1, <1>3, <1>4, <1>5
  <2>3. Len(ch)' <= QueueSize /\ (done' => closed' /\ ch' = <<>> /\ post' = N!NoPost)
    BY <1>1, <1>6 DEF NInv, N!TypeOK
  <2> QED  BY <1>5, <1>6, <2>1, <2>2, <2>3 DEF N!TypeOK
<1>9. Gone' = Gone /\ (N!AttemptedOnceInOrder' <=> N!AttemptedOnceInOrder)
  BY <1>1 DEF Gone, N!AttemptedOnceInOrder
<1> QED  BY <1>1, <1>3, <1>5, <1>6, <1>7, <1>8, <1>9 DEF NInv

LEMMA Sends == ASSUME NInv, NEW p \in Proc, N!Send(p) PROVE NInv'
<1>1. PICK e : e = Len(accepted) + 1  OBVIOUS
<1>2. /\ call[p] = "send" /\ call' = [call EXCEPT ![p] = "idle"]
      /\ UNCHANGED <<stopped, closed, done, post, attempts, emitted>>
      /\ \/ panics' = panics + 1 /\ UNCHANGED <<ch, accepted>>
         \/ /\ ~closed /\ Len(ch) < QueueSize /\ ch' = Append(ch, e)
            /\ accepted' = Append(accepted, e) /\ UNCHANGED panics
         \/ UNCHANGED <<ch, accepted, panics>>
  BY <1>1 DEF N!Send, N!flags
<1>3. /\ call' \in [Proc -> {"idle", "send", "close", "wait"}]
      /\ call'[p] = "idle" /\ \A q \in Proc \ {p} : call'[q] = call[q]
      /\ IsFiniteSet(Senders')
      /\ Cardinality(Senders') = Cardinality(Senders) - 1
      /\ Cardinality(Senders) \in Nat /\ Cardinality(Senders') \in Nat
  BY <1>2, CallsMove
<1>4. /\ panics \in Nat /\ emitted \in 0 .. MaxEvents /\ panics + Cardinality(Senders) <= emitted
      /\ MaxEvents \in Nat /\ QueueSize \in Nat /\ Urls # <<>>
  BY <1>2, UpkeepAssumption DEF NInv, N!TypeOK
<1>5. panics' \in Nat /\ panics' + Cardinality(Senders') <= emitted' /\ panics' <= emitted'
  BY <1>2, <1>3, <1>4
<1>6. \A q \in Proc : /\ call'[q] = "close" => stopped'
                      /\ call'[q] = "send" => Urls # <<>>
  BY <1>2, <1>3 DEF NInv
<1>7. /\ ch \in Seq(Nat) /\ accepted \in Seq(Nat) /\ e \in Nat /\ Len(ch) <= Len(accepted)
      /\ Len(accepted) \in Nat /\ Len(ch) \in Nat /\ Len(ch) <= QueueSize
      /\ \A i \in DOMAIN accepted : accepted[i] = i
      /\ \A i \in DOMAIN ch : ch[i] = Len(accepted) - Len(ch) + i
  BY <1>1 DEF NInv, Gone, N!TypeOK
<1>8. CASE UNCHANGED <<ch, accepted>>
  <2>1. N!TypeOK'
    <3>1. \A q \in Proc : call'[q] \in {"idle", "send", "close", "wait"}  BY <1>3
    <3>2. emitted' \in 0 .. MaxEvents /\ Len(ch)' <= QueueSize /\ (closed' => stopped')
          /\ (done' => closed' /\ ch' = <<>> /\ post' = N!NoPost)
      BY <1>2, <1>8 DEF NInv, N!TypeOK
    <3> QED  BY <1>5, <3>1, <3>2 DEF N!TypeOK
  <2>2. Gone' = Gone /\ (N!AttemptedOnceInOrder' <=> N!AttemptedOnceInOrder)
    BY <1>2, <1>8 DEF Gone, N!AttemptedOnceInOrder
  <2> QED  BY <1>2, <1>3, <1>5, <1>6, <1>8, <2>1, <2>2 DEF NInv
<1>9. CASE ~UNCHANGED <<ch, accepted>>
  <2>1. ~closed /\ Len(ch) < QueueSize /\ ch' = Append(ch, e) /\ accepted' = Append(accepted, e)
    BY <1>2, <1>9
  <2>2. /\ ch' \in Seq(Nat) /\ accepted' \in Seq(Nat) /\ Len(ch') = Len(ch) + 1
             /\ Len(accepted') = e
        /\ DOMAIN accepted' = 1 .. e /\ DOMAIN ch' = 1 .. Len(ch) + 1
        /\ accepted'[e] = e /\ ch'[Len(ch) + 1] = e
        /\ \A i \in 1 .. Len(accepted) : accepted'[i] = accepted[i]
        /\ \A i \in 1 .. Len(ch) : ch'[i] = ch[i]
    BY <1>1, <1>7, <2>1
  <2>3. Gone' = Gone /\ Gone = Len(accepted) - Len(ch)
    <3>1. /\ Len(accepted') = Len(accepted) + 1 /\ Len(ch') = Len(ch) + 1
          /\ Len(accepted) \in Nat /\ Len(ch) \in Nat
      BY <1>1, <1>7, <2>2
    <3> QED  BY <3>1 DEF Gone
  <2>a. \A i \in 1 .. e : i = e \/ i \in 1 .. Len(accepted)  BY <1>1, <1>7
  <2>b. \A i \in 1 .. Len(ch) + 1 : i = Len(ch) + 1 \/ i \in 1 .. Len(ch)  BY <1>7
  <2>c. DOMAIN accepted = 1 .. Len(accepted) /\ DOMAIN ch = 1 .. Len(ch)  BY <1>7
  <2>4. \A i \in DOMAIN accepted' : accepted'[i] = i  BY <1>7, <2>2, <2>a, <2>c
  <2>5. \A i \in DOMAIN ch' : ch'[i] = Gone' + i
    <3>1. ASSUME NEW i \in 1 .. Len(ch) + 1 PROVE ch'[i] = Len(accepted) - Len(ch) + i
      <4>1. CASE i = Len(ch) + 1
        <5>1. ch'[i] = Len(accepted) + 1  BY <1>1, <2>2, <4>1
        <5>2. Len(ch) \in Nat /\ Len(accepted) \in Nat  BY <1>7
        <5> QED  BY <4>1, <5>1, <5>2
      <4>2. CASE i # Len(ch) + 1
        <5>1. i \in 1 .. Len(ch)  BY <2>b, <4>2
        <5>2. ch'[i] = ch[i]  BY <2>2, <5>1
        <5> QED  BY <1>7, <2>c, <5>1, <5>2
      <4> QED  BY <4>1, <4>2
    <3> QED  BY <2>2, <2>3, <3>1
  <2>6. ~done  BY <2>1 DEF NInv, N!TypeOK
  <2>7. N!TypeOK'
    <3>1. \A q \in Proc : call'[q] \in {"idle", "send", "close", "wait"}  BY <1>3
    <3>2. emitted' \in 0 .. MaxEvents /\ (closed' => stopped') /\ ~done'
      BY <1>2, <2>6 DEF NInv, N!TypeOK
    <3>3. Len(ch)' <= QueueSize  BY <1>4, <1>7, <2>1, <2>2
    <3> QED  BY <1>5, <3>1, <3>2, <3>3 DEF N!TypeOK
  <2>8. N!AttemptedOnceInOrder'
    <3>1. PICK n : n = Len(Urls)  OBVIOUS
    <3>2. n \in Nat /\ Len(attempts) \in Nat /\ Len(attempts) <= n * Len(accepted)
              /\ n * Len(accepted) \in Nat
      <4>1. n \in Nat /\ Len(attempts) \in Nat /\ Len(attempts) <= n * Len(accepted)
        BY <3>1, UrlsAre DEF NInv, N!AttemptedOnceInOrder
      <4> QED  BY <1>7, <4>1
    <3>3. Len(attempts) <= n * e
      <4>1. n * e \in Nat  BY <1>7, <3>2
      <4>2. n * Len(accepted) <= n * e  BY <1>1, <1>7, <3>2, TimesGrows
      <4> QED  BY <3>2, <4>1, <4>2
    <3>4. ASSUME NEW d \in DOMAIN accepted', NEW u \in DOMAIN Urls, n * (d - 1) + u <= Len(attempts)
          PROVE  attempts[n * (d - 1) + u] = <<accepted'[d], Urls[u]>>
      <4>1. u \in 1 .. n  BY <3>1, UrlsAre
      <4>2. d # e
        <5>1. SUFFICES ASSUME d = e PROVE FALSE  OBVIOUS
        <5>2. d - 1 = Len(accepted)  BY <1>1, <1>7, <5>1
        <5>3. n * (d - 1) = n * Len(accepted)  BY <5>2
        <5>4. n * (d - 1) + u > Len(attempts)  BY <3>2, <4>1, <5>3
        <5> QED  BY <3>2, <3>4, <4>1, <5>3, <5>4
      <4>3. d \in DOMAIN accepted /\ accepted'[d] = accepted[d]  BY <2>2, <2>a, <2>c, <4>2
      <4> QED  BY <3>1, <3>4, <4>3 DEF NInv, N!AttemptedOnceInOrder
    <3>5. attempts' = attempts /\ Len(accepted') = e /\ ~done'  BY <1>2, <2>2, <2>6
    <3>6. Len(attempts') <= n * Len(accepted')  BY <3>3, <3>5
    <3>7. \A d \in DOMAIN accepted', u \in DOMAIN Urls :
             n * (d - 1) + u <= Len(attempts') =>
                 attempts'[n * (d - 1) + u] = <<accepted'[d], Urls[u]>>
      BY <3>4, <3>5
    <3> QED  BY <3>1, <3>5, <3>6, <3>7 DEF N!AttemptedOnceInOrder
  <2>9. /\ stopped' \in BOOLEAN /\ closed' \in BOOLEAN /\ done' \in BOOLEAN
        /\ attempts' \in Seq(Nat \X {Urls[i] : i \in DOMAIN Urls})
    BY <1>2 DEF NInv
  <2>10. Len(ch') <= Len(accepted')  BY <1>1, <1>7, <2>2
  <2>11. \/ post' = N!NoPost /\ Len(attempts') = Len(Urls) * Gone'
         \/ /\ post' \in [event : Nat, url : Nat] /\ post'.event = Gone' /\ Gone' > 0
            /\ post'.url \in DOMAIN Urls
            /\ Len(attempts') = Len(Urls) * (Gone' - 1) + post'.url - 1
    BY <1>2, <2>3 DEF NInv
  <2> QED  BY <1>3, <1>4, <1>5, <1>6, <2>2, <2>4, <2>5, <2>7, <2>8, <2>9, <2>10, <2>11 DEF NInv
<1> QED  BY <1>8, <1>9

LEMMA Receives == ASSUME NInv, N!Receive PROVE NInv'
<1>1. /\ post = N!NoPost /\ ch # <<>> /\ post' = [event |-> Head(ch), url |-> 1] /\ ch' = Tail(ch)
      /\ UNCHANGED <<stopped, closed, done, call, accepted, attempts, panics, emitted>>
  BY DEF N!Receive, N!flags
<1>2. /\ ch \in Seq(Nat) /\ accepted \in Seq(Nat) /\ Len(ch) <= Len(accepted)
      /\ Len(accepted) \in Nat /\ Len(ch) \in Nat /\ Len(ch) <= QueueSize /\ QueueSize \in Nat
      /\ \A i \in 1 .. Len(ch) : ch[i] = Gone + i
      /\ Gone = Len(accepted) - Len(ch)
  BY UpkeepAssumption DEF NInv, Gone, N!TypeOK
<1>3. /\ Len(ch) >= 1 /\ Tail(ch) \in Seq(Nat) /\ Len(Tail(ch)) = Len(ch) - 1 /\ Head(ch) = ch[1]
      /\ \A i \in 1 .. Len(ch) - 1 : Tail(ch)[i] = ch[i + 1]
  BY <1>1, <1>2
<1>4. /\ ch' \in Seq(Nat) /\ Len(ch') = Len(ch) - 1 /\ Gone' = Gone + 1 /\ Gone \in Nat
  BY <1>1, <1>2, <1>3 DEF Gone
<1>5. \A i \in DOMAIN ch' : ch'[i] = Gone' + i
  <2>1. ASSUME NEW i \in 1 .. Len(ch) - 1 PROVE ch'[i] = Gone + 1 + i
    <3>1. i + 1 \in 1 .. Len(ch)  BY <1>2
    <3>2. ch'[i] = ch[i + 1]  BY <1>1, <1>3
    <3> QED  BY <1>2, <1>4, <3>1, <3>2
  <2>2. DOMAIN ch' = 1 .. Len(ch) - 1  BY <1>4
  <2> QED  BY <1>4, <2>1, <2>2
<1>6. Head(ch) = Gone'
  <2>1. 1 \in 1 .. Len(ch)  BY <1>2, <1>3
  <2> QED  BY <1>2, <1>3, <1>4, <2>1
<1>7. accepted # <<>> /\ Urls # <<>>
  <2>1. accepted # <<>>  BY <1>2, <1>3
  <2> QED  BY <2>1 DEF NInv
<1>8. PICK h \in Nat : h = Head(ch)  BY <1>4, <1>6
<1>9. post' = [event |-> h, url |-> 1]  BY <1>1, <1>8
<1>10. post' \in [event : Nat, url : Nat] /\ post'.event = Gone' /\ post'.url = 1
  BY <1>6, <1>8, <1>9
<1>11. 1 \in DOMAIN Urls /\ Gone' > 0  BY <1>4, <1>7, UrlsAre
<1>12. Len(attempts) = Len(Urls) * (Gone' - 1) + 1 - 1
  <2>1. post.event = 0  BY <1>1 DEF N!NoPost
  <2>2. Len(attempts) = Len(Urls) * Gone  BY <1>4, <2>1 DEF NInv
  <2>3. Gone' - 1 = Gone /\ Len(Urls) * Gone \in Nat  BY <1>4, UrlsAre
  <2> QED  BY <2>2, <2>3
<1>13. ~done  BY <1>1 DEF NInv, N!TypeOK
<1>14. N!TypeOK'
  <2>1. Len(ch') <= QueueSize  BY <1>2, <1>4
  <2> QED  BY <1>1, <1>13, <2>1 DEF NInv, N!TypeOK
<1>15. N!AttemptedOnceInOrder'  BY <1>1 DEF NInv, N!AttemptedOnceInOrder
<1>16. Senders' = Senders  BY <1>1 DEF Senders
<1>17. Len(ch') <= Len(accepted')  BY <1>1, <1>2, <1>4
<1>18. post'.url \in DOMAIN Urls /\ Len(attempts') = Len(Urls) * (Gone' - 1) + post'.url - 1
  BY <1>1, <1>10, <1>11, <1>12
<1> QED  BY <1>1, <1>4, <1>5, <1>10, <1>11, <1>14, <1>15, <1>16, <1>17, <1>18 DEF NInv

LEMMA Posts == ASSUME NInv, N!Post PROVE NInv'
<1>1. PICK n : n = Len(Urls)  OBVIOUS
<1>2. PICK u : u = post.url  OBVIOUS
<1>3. PICK g : g = Gone  OBVIOUS
<1>4. /\ post # N!NoPost /\ attempts' = Append(attempts, <<post.event, Urls[u]>>)
      /\ post' = IF u < n THEN [post EXCEPT !.url = @ + 1] ELSE N!NoPost
      /\ UNCHANGED <<ch, stopped, closed, done, call, accepted, panics, emitted>>
  BY <1>1, <1>2 DEF N!Post, N!NextUrl, N!flags
<1>5. /\ post \in [event : Nat, url : Nat] /\ post.event = g /\ g > 0 /\ u \in DOMAIN Urls
      /\ Len(attempts) = n * (g - 1) + u - 1
  BY <1>1, <1>2, <1>3, <1>4 DEF NInv
<1>6. n \in Nat /\ u \in 1 .. n /\ g \in Nat \ {0}  BY <1>1, <1>5, UrlsAre
<1>7. /\ accepted \in Seq(Nat) /\ Len(accepted) \in Nat /\ g <= Len(accepted)
           /\ DOMAIN accepted = 1 .. Len(accepted)
      /\ \A i \in DOMAIN accepted : accepted[i] = i
  <2>1. /\ ch \in Seq(Nat) /\ accepted \in Seq(Nat) /\ \A i \in DOMAIN accepted : accepted[i] = i
    BY DEF NInv
  <2> QED  BY <1>3, <2>1 DEF Gone
<1>8. PICK a : a = n * (g - 1)  OBVIOUS
<1>9. a \in Nat /\ n * g = a + n /\ n * g <= n * Len(accepted) /\ n * Len(accepted) \in Nat
  <2>1. g - 1 \in Nat  BY <1>6
  <2> QED  BY <1>6, <1>7, <1>8, <2>1, TimesGrows
<1>10. /\ attempts \in Seq(Nat \X {Urls[i] : i \in DOMAIN Urls})
       /\ Len(attempts) \in Nat
  BY DEF NInv
<1>11. PICK x \in Nat \X {Urls[i] : i \in DOMAIN Urls} : x = <<g, Urls[u]>>
  BY <1>5, <1>6
<1>12. attempts' = Append(attempts, x)  BY <1>4, <1>5, <1>11
<1>13. /\ attempts' \in Seq(Nat \X {Urls[i] : i \in DOMAIN Urls})
       /\ Len(attempts') = a + u /\ attempts'[a + u] = <<g, Urls[u]>>
       /\ \A i \in 1 .. Len(attempts) : attempts'[i] = attempts[i]
  <2>1. Len(attempts) + 1 = a + u  BY <1>5, <1>6, <1>8, <1>9
  <2>2. /\ attempts' \in Seq(Nat \X {Urls[i] : i \in DOMAIN Urls})
        /\ Len(attempts') = Len(attempts) + 1 /\ attempts'[Len(attempts) + 1] = x
        /\ \A i \in 1 .. Len(attempts) : attempts'[i] = attempts[i]
    BY <1>10, <1>12
  <2> QED  BY <1>11, <2>1, <2>2
<1>14. Len(attempts) + 1 = a + u  BY <1>5, <1>6, <1>8, <1>9
<1>15. ~done  BY <1>4 DEF NInv, N!TypeOK
<1>16. N!AttemptedOnceInOrder'
  <2>1. Len(attempts') <= n * Len(accepted)
    <3>1. Len(attempts') = a + u  BY <1>13
    <3>2. PICK m \in Nat : m = n * g  BY <1>6
    <3>3. a + u <= m /\ m <= n * Len(accepted)  BY <1>6, <1>9, <3>2
    <3> QED  BY <1>6, <1>9, <3>1, <3>3
  <2>2. ASSUME NEW e \in DOMAIN accepted, NEW v \in DOMAIN Urls, n * (e - 1) + v <= Len(attempts')
        PROVE  attempts'[n * (e - 1) + v] = <<accepted[e], Urls[v]>>
    <3>1. PICK i : i = n * (e - 1) + v  OBVIOUS
    <3>2. v \in 1 .. n /\ e \in Nat \ {0}  BY <1>1, <1>7, UrlsAre
    <3>3. n * (e - 1) \in Nat
      <4>1. e - 1 \in Nat  BY <3>2
      <4> QED  BY <1>6, <4>1
    <3>4. i \in Nat /\ i >= 1 /\ i <= Len(attempts')  BY <2>2, <3>1, <3>2, <3>3
    <3>5. CASE i <= Len(attempts)
      <4>1. attempts[i] = <<accepted[e], Urls[v]>>
        BY <1>1, <3>1, <3>5 DEF NInv, N!AttemptedOnceInOrder
      <4>2. attempts'[i] = attempts[i]  BY <1>10, <1>13, <3>4, <3>5
      <4> QED  BY <3>1, <4>1, <4>2
    <3>6. CASE ~(i <= Len(attempts))
      <4>1. n * (e - 1) + v = n * (g - 1) + u
        BY <1>6, <1>8, <1>9, <1>10, <1>13, <1>14, <3>1, <3>4, <3>6
      <4>2. e = g /\ v = u  BY <1>6, <3>2, <4>1, OneRow
      <4>3. accepted[e] = e  BY <1>7
      <4> QED  BY <1>8, <1>13, <4>1, <4>2, <4>3
    <3> QED  BY <3>5, <3>6
  <2> QED  BY <1>1, <1>4, <1>15, <2>1, <2>2 DEF N!AttemptedOnceInOrder
<1>17. Gone' = g  BY <1>3, <1>4 DEF Gone
<1>18. \/ post' = N!NoPost /\ Len(attempts') = Len(Urls) * Gone'
       \/ /\ post' \in [event : Nat, url : Nat] /\ post'.event = Gone' /\ Gone' > 0
          /\ post'.url \in DOMAIN Urls
          /\ Len(attempts') = Len(Urls) * (Gone' - 1) + post'.url - 1
  <2>1. CASE u < n
    <3>1. post' = [event |-> g, url |-> u + 1]
      <4>1. PICK w : w = u + 1  OBVIOUS
      <4>2. post' = [post EXCEPT !.url = w]  BY <1>2, <1>4, <2>1, <4>1
      <4> QED  BY <1>5, <4>1, <4>2
    <3>2. PICK w \in Nat : w = u + 1  BY <1>6
    <3>3. post' = [event |-> g, url |-> w] /\ w \in 1 .. n  BY <1>6, <2>1, <3>1, <3>2
    <3>4. post' \in [event : Nat, url : Nat] /\ post'.event = g /\ post'.url = w  BY <1>6, <3>3
    <3>5. w \in DOMAIN Urls  BY <1>1, <3>3, UrlsAre
    <3>6. Len(attempts') = a + w - 1  BY <1>6, <1>9, <1>13, <3>2
    <3> QED  BY <1>1, <1>5, <1>8, <1>17, <3>4, <3>5, <3>6
  <2>2. CASE ~(u < n)
    <3>1. u = n /\ post' = N!NoPost  BY <1>4, <1>6, <2>2
    <3> QED  BY <1>1, <1>9, <1>13, <1>17, <3>1
  <2> QED  BY <2>1, <2>2
<1>19. N!TypeOK'  BY <1>4, <1>15 DEF NInv, N!TypeOK
<1>20. Senders' = Senders  BY <1>4 DEF Senders
<1> QED  BY <1>4, <1>3, <1>13, <1>16, <1>17, <1>18, <1>19, <1>20 DEF NInv

LEMMA Returns == ASSUME NInv, N!Return PROVE NInv'
<1>1. /\ post = N!NoPost /\ ~done /\ closed /\ ch = <<>> /\ done' = TRUE
      /\ UNCHANGED <<ch, stopped, closed, post, call, accepted, attempts, panics, emitted>>
  BY DEF N!Return, N!Drained
<1>2. N!TypeOK'  BY <1>1 DEF NInv, N!TypeOK
<1>3. post.event = 0  BY <1>1 DEF N!NoPost
<1>4. Gone = Len(accepted)
  <2>1. Len(ch) = 0 /\ Len(accepted) \in Nat  BY <1>1 DEF NInv
  <2> QED  BY <2>1 DEF Gone
<1>5. Len(attempts) = Len(Urls) * Len(accepted)
  <2>1. Gone \in Nat  BY <1>4 DEF NInv
  <2> QED  BY <1>3, <1>4, <2>1 DEF NInv
<1>6. N!AttemptedOnceInOrder'  BY <1>1, <1>5 DEF NInv, N!AttemptedOnceInOrder
<1>7. Senders' = Senders /\ Gone' = Gone  BY <1>1 DEF Senders, Gone
<1> QED  BY <1>1, <1>2, <1>6, <1>7 DEF NInv

LEMMA NotifierStep == ASSUME NInv, N!Next PROVE NInv'
  BY CallSteps, Sends, Receives, Posts, Returns DEF N!Next, N!Drain

-----------------------------------------------------------------------------
(* AuditLog: the ring and the file. *)

\* The ring holds the newest entries, and each entry is in the file or with a
\* caller at most once.
LInv ==
    /\ L!TypeOK
    /\ ring \in Seq(Nat) /\ logFile \in Seq(Nat)
    /\ Len(ring) = (IF Len(tags) <= RingSize THEN Len(tags) ELSE RingSize)
    /\ \A i \in DOMAIN ring : ring[i] = Len(tags) - Len(ring) + i
    /\ emit = [p \in Proc |-> emit[p]]
    /\ \A i, j \in DOMAIN logFile : logFile[i] = logFile[j] => i = j
    /\ \A p \in Proc :
          /\ emit[p].pc = "store" => emit[p] = [pc |-> "store", tag |-> emit[p].tag]
               /\ emit[p].tag \in Tag
          /\ emit[p].pc = "file" =>
                /\ emit[p] = [pc |-> "file", entry |-> emit[p].entry]
                /\ emit[p].entry \in DOMAIN tags
                /\ \A i \in DOMAIN logFile : logFile[i] # emit[p].entry
                /\ \A q \in Proc : emit[q].pc = "file" /\ emit[q].entry = emit[p].entry => p = q

LEMMA LogIdle == L!Idle.pc = "idle"  BY DEF L!Idle

LEMMA LogInit == ASSUME L!Init PROVE LInv
<1>1. /\ tags = <<>> /\ ring = <<>> /\ logFile = <<>> /\ fileState = "open"
      /\ emit = [p \in Proc |-> L!Idle]
  BY DEF L!Init
<1>2. \A p \in Proc : emit[p].pc = "idle"  BY <1>1, LogIdle
<1>3. /\ tags \in Seq(Tag) /\ ring \in Seq(Nat) /\ logFile \in Seq(Nat) /\ Len(tags) = 0
           /\ Len(ring) = 0
      /\ DOMAIN ring = {} /\ DOMAIN logFile = {} /\ RingSize \in Nat
  BY <1>1, UpkeepAssumption
<1>4. L!TypeOK  BY <1>1, <1>2, <1>3 DEF L!TypeOK
<1> QED  BY <1>1, <1>2, <1>3, <1>4 DEF LInv

LEMMA LogEmits == ASSUME LInv, NEW p \in Proc, NEW tag \in Tag, L!Emit(p, tag) PROVE LInv'
<1>1. PICK o : o = [pc |-> "store", tag |-> tag]  OBVIOUS
<1>2. /\ emit' = [emit EXCEPT ![p] = o] /\ UNCHANGED <<tags, ring, logFile, fileState>>
  BY <1>1 DEF L!Emit
<1>3. emit = [q \in Proc |-> emit[q]]  BY DEF LInv
<1>4. /\ emit' = [q \in Proc |-> emit'[q]] /\ emit'[p] = o
           /\ \A q \in Proc \ {p} : emit'[q] = emit[q]
  BY <1>2, <1>3
<1>5. o.pc = "store" /\ o.tag = tag /\ o = [pc |-> "store", tag |-> o.tag]  BY <1>1
<1>6. L!TypeOK'  BY <1>2, <1>4, <1>5 DEF LInv, L!TypeOK
<1> QED  BY <1>2, <1>4, <1>5, <1>6 DEF LInv

\* The entry goes into the ring, and the oldest one out of it.
LEMMA LogWrites == ASSUME LInv, NEW p \in Proc, L!Write(p) PROVE LInv'
<1>1. PICK tag : tag = emit[p].tag  OBVIOUS
<1>2. PICK n : n = Len(tags)  OBVIOUS
<1>3. PICK r : r = Len(ring)  OBVIOUS
<1>4. PICK s : s = Append(ring, n + 1)  OBVIOUS
<1>5. PICK o : o = [pc |-> "file", entry |-> n + 1]  OBVIOUS
<1>6. /\ emit[p].pc = "store" /\ tags' = Append(tags, tag)
      /\ ring' = IF Len(s) > RingSize THEN SubSeq(s, Len(s) - RingSize + 1, Len(s)) ELSE s
      /\ emit' = [emit EXCEPT ![p] = o] /\ UNCHANGED <<logFile, fileState>>
  BY <1>1, <1>2, <1>4, <1>5 DEF L!Write, L!Trim
<1>7. tag \in Tag /\ tags \in Seq(Tag)  BY <1>1, <1>6 DEF LInv, L!TypeOK
<1>8. /\ ring \in Seq(Nat) /\ n \in Nat /\ r \in Nat /\ RingSize \in Nat \ {0}
      /\ r = IF n <= RingSize THEN n ELSE RingSize
      /\ \A i \in 1 .. r : ring[i] = n - r + i
  <2>1. /\ ring \in Seq(Nat) /\ Len(ring) = (IF Len(tags) <= RingSize THEN Len(tags) ELSE RingSize)
        /\ \A i \in DOMAIN ring : ring[i] = Len(tags) - Len(ring) + i
    BY DEF LInv
  <2>2. n \in Nat /\ r \in Nat /\ RingSize \in Nat \ {0} /\ DOMAIN ring = 1 .. r
    BY <1>2, <1>3, <1>7, <2>1, UpkeepAssumption
  <2> QED  BY <1>2, <1>3, <2>1, <2>2
<1>9. tags' \in Seq(Tag) /\ Len(tags') = n + 1 /\ DOMAIN tags' = 1 .. n + 1 /\ DOMAIN tags = 1 .. n
  BY <1>2, <1>6, <1>7
<1>10. /\ s \in Seq(Nat) /\ Len(s) = r + 1
       /\ \A i \in 1 .. r + 1 : s[i] = n - r + i
  <2>1. /\ s \in Seq(Nat) /\ Len(s) = r + 1 /\ s[r + 1] = n + 1 /\ \A i \in 1 .. r : s[i] = ring[i]
    <3>1. PICK e \in Nat : e = n + 1  BY <1>8
    <3>2. s = Append(ring, e) /\ ring \in Seq(Nat)  BY <1>4, <1>8, <3>1
    <3> QED  BY <1>3, <3>1, <3>2
  <2>2. \A i \in 1 .. r + 1 : i \in 1 .. r \/ i = r + 1  BY <1>8
  <2>3. n - r + (r + 1) = n + 1  BY <1>8
  <2> QED  BY <1>8, <2>1, <2>2, <2>3
<1>11. /\ ring' \in Seq(Nat) /\ Len(ring') = (IF n + 1 <= RingSize THEN n + 1 ELSE RingSize)
       /\ \A i \in 1 .. Len(ring') : ring'[i] = n + 1 - Len(ring') + i
  <2>1. CASE r + 1 > RingSize
    <3>1. r = RingSize /\ r \in Nat \ {0} /\ ~(n + 1 <= RingSize)  BY <1>8, <2>1
    <3>2. ring' = SubSeq(s, 2, r + 1)
      <4>1. Len(s) - RingSize + 1 = 2 /\ Len(s) = r + 1
        <5>1. Len(s) = r + 1 /\ RingSize = r /\ r \in Nat  BY <1>10, <3>1
        <5> QED  BY <5>1
      <4>2. ring' = SubSeq(s, Len(s) - RingSize + 1, Len(s))  BY <1>6, <2>1, <4>1
      <4> QED  BY <4>1, <4>2
    <3>3. ASSUME NEW i \in 2 .. r + 1 PROVE s[i] \in Nat
      <4>1. s \in Seq(Nat) /\ i \in 1 .. Len(s)  BY <1>8, <1>10
      <4> QED  BY <4>1
    <3>4. PICK e \in Int : e = r + 1  BY <1>8
    <3>5. ring' \in Seq(Nat) /\ Len(ring') = r /\ \A i \in 1 .. r : ring'[i] = s[2 + i - 1]
      <4>1. \A i \in 2 .. e : s[i] \in Nat  BY <3>3, <3>4
      <4>2. /\ SubSeq(s, 2, e) \in Seq(Nat) /\ Len(SubSeq(s, 2, e)) =
                 IF 2 <= e THEN e - 2 + 1 ELSE 0
            /\ \A i \in 1 .. e - 2 + 1 : SubSeq(s, 2, e)[i] = s[2 + i - 1]
        BY <4>1, SubSeqProperties
      <4>3. ring' = SubSeq(s, 2, e)  BY <3>2, <3>4
      <4>4. e - 2 + 1 = r /\ 2 <= e  BY <3>1, <3>4
      <4> QED  BY <4>2, <4>3, <4>4
    <3>6. ASSUME NEW i \in 1 .. r PROVE ring'[i] = n + 1 - r + i
      <4>1. 2 + i - 1 \in 1 .. r + 1  BY <3>1
      <4>2. ring'[i] = n - r + (2 + i - 1)  BY <1>10, <3>5, <4>1
      <4> QED  BY <1>8, <4>2
    <3> QED  BY <3>1, <3>5, <3>6
  <2>2. CASE ~(r + 1 > RingSize)
    <3>1. r = n /\ n + 1 <= RingSize  BY <1>8, <2>2
    <3>2. ring' = s  BY <1>6, <1>10, <2>2
    <3>3. \A i \in 1 .. n + 1 : s[i] = i  BY <1>8, <1>10, <3>1
    <3>4. \A i \in 1 .. n + 1 : n + 1 - (n + 1) + i = i  BY <1>8
    <3> QED  BY <1>10, <3>1, <3>2, <3>3, <3>4
  <2> QED  BY <2>1, <2>2
<1>12. /\ emit' = [q \in Proc |-> emit'[q]] /\ emit'[p] = o
            /\ \A q \in Proc \ {p} : emit'[q] = emit[q]
  BY <1>6 DEF LInv
<1>13. PICK e \in Nat : e = n + 1  BY <1>8
<1>14. o.pc = "file" /\ o.entry = e /\ o = [pc |-> "file", entry |-> o.entry]  BY <1>5, <1>13
<1>15. e \in 1 .. e /\ e \notin 1 .. n /\ \A i \in 1 .. n : i \in 1 .. e  BY <1>8, <1>13
<1>16. DOMAIN tags' = 1 .. e  BY <1>9, <1>13
<1>17. L!TypeOK'
  <2>1. Len(ring') <= RingSize  BY <1>8, <1>11
  <2>2. \A q \in Proc : emit'[q].pc \in {"idle", "store", "file"}
    BY <1>12, <1>14 DEF LInv, L!TypeOK
  <2>3. \A i \in DOMAIN logFile : logFile[i] \in 1 .. e  BY <1>9, <1>15 DEF LInv, L!TypeOK
  <2>4. fileState' \in {"open", "closed", "failed"}  BY <1>6 DEF LInv, L!TypeOK
  <2> QED  BY <1>6, <1>9, <1>16, <2>1, <2>2, <2>3, <2>4 DEF L!TypeOK
<1>18. ASSUME NEW q \in Proc
       PROVE  /\ emit'[q].pc = "store" => emit'[q] = [pc |-> "store", tag |-> emit'[q].tag]
                   /\ emit'[q].tag \in Tag
              /\ emit'[q].pc = "file" =>
                    /\ emit'[q] = [pc |-> "file", entry |-> emit'[q].entry]
                    /\ emit'[q].entry \in DOMAIN tags'
                    /\ \A i \in DOMAIN logFile : logFile[i] # emit'[q].entry
                    /\ \A q2 \in Proc : emit'[q2].pc = "file"
                         /\ emit'[q2].entry = emit'[q].entry => q = q2
  <2>0. \A q2 \in Proc \ {p} : emit[q2].pc = "file" => emit[q2].entry \in 1 .. n
    BY <1>9 DEF LInv
  <2>1. CASE q = p
    <3>1. \A i \in DOMAIN logFile : logFile[i] \in 1 .. n  BY <1>9 DEF LInv, L!TypeOK
    <3>2. \A q2 \in Proc \ {p} : emit'[q2].pc = "file" => emit'[q2].entry # e  BY <1>12, <1>15, <2>0
    <3> QED  BY <1>12, <1>14, <1>15, <1>16, <2>1, <3>1, <3>2
  <2>2. CASE q # p
    <3>1. emit'[q] = emit[q]  BY <1>12, <2>2
    <3>2. emit[q].pc = "store" => emit[q] = [pc |-> "store", tag |-> emit[q].tag]
              /\ emit[q].tag \in Tag
      BY DEF LInv
    <3>3. ASSUME emit[q].pc = "file"
          PROVE  /\ emit[q] = [pc |-> "file", entry |-> emit[q].entry]
                 /\ emit[q].entry \in DOMAIN tags'
                 /\ \A i \in DOMAIN logFile : logFile[i] # emit[q].entry
                 /\ \A q2 \in Proc : emit'[q2].pc = "file" /\ emit'[q2].entry = emit[q].entry =>
                      q = q2
      <4>1. /\ emit[q] = [pc |-> "file", entry |-> emit[q].entry]
            /\ \A i \in DOMAIN logFile : logFile[i] # emit[q].entry
            /\ \A q2 \in Proc : emit[q2].pc = "file" /\ emit[q2].entry = emit[q].entry => q = q2
        BY <3>3 DEF LInv
      <4>2. emit[q].entry \in 1 .. n  BY <2>0, <2>2, <3>3
      <4>3. emit[q].entry # e  BY <1>15, <4>2
      <4> QED  BY <1>12, <1>14, <1>15, <1>16, <4>1, <4>2, <4>3
    <3> QED  BY <3>1, <3>2, <3>3
  <2> QED  BY <2>1, <2>2
<1>19. \A i \in DOMAIN ring' : ring'[i] = Len(tags') - Len(ring') + i
  <2>1. DOMAIN ring' = 1 .. Len(ring')  BY <1>11
  <2>2. Len(tags') = n + 1  BY <1>9
  <2>3. \A i \in 1 .. Len(ring') : ring'[i] = n + 1 - Len(ring') + i  BY <1>11
  <2>4. PICK k \in Nat : k = Len(ring')  BY <1>11
  <2>5. PICK m \in Nat : m = n + 1  BY <1>8
  <2>6. ASSUME NEW i \in 1 .. k PROVE ring'[i] = m - k + i
    <3>1. i \in 1 .. Len(ring')  BY <2>4
    <3>2. ring'[i] = n + 1 - Len(ring') + i  BY <2>3, <3>1
    <3>3. n + 1 - Len(ring') = m - k  BY <2>4, <2>5, <1>8
    <3> QED  BY <3>2, <3>3
  <2>7. Len(tags') = m /\ DOMAIN ring' = 1 .. k  BY <2>1, <2>2, <2>4, <2>5
  <2> QED  BY <2>4, <2>6, <2>7
<1> QED  BY <1>6, <1>9, <1>11, <1>12, <1>17, <1>18, <1>19 DEF LInv

\* The entry goes into the file.
LEMMA LogEncodes == ASSUME LInv, NEW p \in Proc, L!Encode(p) PROVE LInv'
<1>1. PICK e : e = emit[p].entry  OBVIOUS
<1>2. /\ emit[p].pc = "file" /\ emit' = [emit EXCEPT ![p] = L!Idle] /\ UNCHANGED <<tags, ring>>
      /\ \/ logFile' = Append(logFile, e) /\ UNCHANGED fileState
         \/ fileState' = "failed" /\ UNCHANGED logFile
  BY <1>1 DEF L!Encode
<1>3. /\ e \in DOMAIN tags /\ \A i \in DOMAIN logFile : logFile[i] # e
      /\ \A q \in Proc \ {p} : emit[q].pc = "file" => emit[q].entry # e
  BY <1>1, <1>2 DEF LInv
<1>4. /\ emit' = [q \in Proc |-> emit'[q]] /\ emit'[p] = L!Idle
           /\ \A q \in Proc \ {p} : emit'[q] = emit[q]
  BY <1>2 DEF LInv
<1>5. e \in Nat /\ logFile \in Seq(Nat) /\ Len(logFile) \in Nat  BY <1>3 DEF LInv, L!TypeOK
<1>6. /\ logFile' \in Seq(Nat)
      /\ \A i \in DOMAIN logFile' : logFile'[i] \in DOMAIN tags
      /\ \A i, j \in DOMAIN logFile' : logFile'[i] = logFile'[j] => i = j
      /\ \A i \in DOMAIN logFile' : logFile'[i] = e
           \/ \E j \in DOMAIN logFile : logFile[j] = logFile'[i]
  <2>0. /\ \A i \in DOMAIN logFile : logFile[i] \in DOMAIN tags
        /\ \A i, j \in DOMAIN logFile : logFile[i] = logFile[j] => i = j
    BY DEF LInv, L!TypeOK
  <2>1. CASE logFile' = Append(logFile, e)
    <3>1. PICK n \in Nat : n = Len(logFile)  BY <1>5
    <3>2. /\ logFile' \in Seq(Nat) /\ DOMAIN logFile' = 1 .. n + 1 /\ DOMAIN logFile = 1 .. n
          /\ logFile'[n + 1] = e /\ \A i \in 1 .. n : logFile'[i] = logFile[i]
      BY <1>5, <2>1, <3>1
    <3>3. \A i \in 1 .. n + 1 : i \in 1 .. n \/ i = n + 1  BY <3>1
    <3> QED  BY <1>3, <2>0, <3>2, <3>3
  <2>2. CASE logFile' = logFile  BY <1>5, <2>0, <2>2
  <2> QED  BY <1>2, <2>1, <2>2
<1>7. L!TypeOK'
  <2>1. \A q \in Proc : emit'[q].pc \in {"idle", "store", "file"}
    BY <1>4, LogIdle DEF LInv, L!TypeOK
  <2>2. tags' = tags /\ Len(ring') <= RingSize /\ tags \in Seq(Tag)  BY <1>2 DEF LInv, L!TypeOK
  <2>3. fileState' \in {"open", "closed", "failed"}  BY <1>2 DEF LInv, L!TypeOK
  <2> QED  BY <1>6, <2>1, <2>2, <2>3 DEF L!TypeOK
<1>8. ASSUME NEW q \in Proc
      PROVE  /\ emit'[q].pc = "store" => emit'[q] = [pc |-> "store", tag |-> emit'[q].tag]
                  /\ emit'[q].tag \in Tag
             /\ emit'[q].pc = "file" =>
                   /\ emit'[q] = [pc |-> "file", entry |-> emit'[q].entry]
                   /\ emit'[q].entry \in DOMAIN tags
                   /\ \A i \in DOMAIN logFile' : logFile'[i] # emit'[q].entry
                   /\ \A q2 \in Proc : emit'[q2].pc = "file"
                        /\ emit'[q2].entry = emit'[q].entry => q = q2
  <2>1. CASE q = p  BY <1>4, <2>1, LogIdle
  <2>2. CASE q # p
    <3>1. emit'[q] = emit[q]  BY <1>4, <2>2
    <3>2. /\ emit[q].pc = "store" => emit[q] = [pc |-> "store", tag |-> emit[q].tag]
               /\ emit[q].tag \in Tag
          /\ emit[q].pc = "file" =>
                /\ emit[q] = [pc |-> "file", entry |-> emit[q].entry]
                /\ emit[q].entry \in DOMAIN tags
                /\ \A i \in DOMAIN logFile : logFile[i] # emit[q].entry
                /\ \A q2 \in Proc : emit[q2].pc = "file" /\ emit[q2].entry = emit[q].entry => q = q2
      BY DEF LInv
    <3>3. \A q2 \in Proc : emit'[q2].pc = "file" => q2 # p /\ emit'[q2] = emit[q2]
      BY <1>4, LogIdle
    <3>4. emit[q].pc = "file" => emit[q].entry # e  BY <1>3, <2>2
    <3> QED  BY <1>6, <3>1, <3>2, <3>3, <3>4
  <2> QED  BY <2>1, <2>2
<1> QED  BY <1>2, <1>4, <1>6, <1>7, <1>8 DEF LInv

LEMMA LogStep == ASSUME LInv, L!Next PROVE LInv'
<1>1. ASSUME L!Close PROVE LInv'
  <2>1. UNCHANGED <<tags, ring, logFile, emit>> /\ fileState' = "closed"  BY <1>1 DEF L!Close
  <2>2. L!TypeOK'  BY <2>1 DEF LInv, L!TypeOK
  <2> QED  BY <2>1, <2>2 DEF LInv
<1> QED  BY <1>1, LogEmits, LogWrites, LogEncodes DEF L!Next

-----------------------------------------------------------------------------
\* Least and greatest of a set of numbers, and the newest k of a set: these are
\* no more than k, with all that are newer, and k if there are as many.
LEMMA LeastOf ==
    ASSUME NEW W, W \subseteq Nat, W # {} PROVE \E x \in W : \A y \in W : x <= y
<1>1. PICK x \in W : \A y \in W : ~(<<y, x>> \in OpToRel(<, Nat))
  BY NatLessThanWellFounded, WFMin
<1>2. \A y \in W : ~(y < x)  BY <1>1 DEF OpToRel
<1> QED  BY <1>2

LEMMA GreatestOf ==
    ASSUME NEW n \in Nat, NEW W, W \subseteq 1 .. n, W # {} PROVE \E x \in W : \A y \in W : y <= x
<1>1. PICK V : V = {n - w : w \in W}  OBVIOUS
<1>2. V \subseteq Nat /\ V # {}
  <2>1. \A w \in W : n - w \in Nat
    <3> SUFFICES ASSUME NEW w \in W PROVE n - w \in Nat  OBVIOUS
    <3>1. w \in 1 .. n  OBVIOUS
    <3> QED  BY <3>1
  <2> QED  BY <1>1, <2>1
<1>3. PICK v \in V : \A y \in V : v <= y  BY <1>2, LeastOf
<1>4. PICK x \in W : v = n - x  BY <1>1
<1>5. ASSUME NEW y \in W PROVE y <= x
  <2>1. n - x <= n - y  BY <1>1, <1>3, <1>4
  <2>2. x \in 1 .. n /\ y \in 1 .. n  OBVIOUS
  <2> QED  BY <2>1, <2>2
<1> QED  BY <1>5

\* The newest of a finite set of entries, as many as may be returned.
NewestOf(M, k) == {e \in M : Cardinality({f \in M : f > e}) < k}

LEMMA Newest ==
    ASSUME NEW n \in Nat, NEW M, M \subseteq 1 .. n, NEW k \in Nat \ {0},
           NEW found, found = NewestOf(M, k)
    PROVE  /\ IsFiniteSet(M) /\ IsFiniteSet(found) /\ Cardinality(found) <= k
           /\ \A e \in found, f \in M : f > e => f \in found
           /\ Cardinality(found) < k => found = M
<1>0. found = {e \in M : Cardinality({f \in M : f > e}) < k}  BY DEF NewestOf
<1>1. IsFiniteSet(M)
  <2>1. IsFiniteSet(1 .. n)  BY FS_Interval
  <2>2. M \in SUBSET (1 .. n)  OBVIOUS
  <2> QED  BY <2>1, <2>2, FS_Subset
<1>2. found \subseteq M  BY <1>0
<1>3. IsFiniteSet(found) /\ Cardinality(found) \in Nat  BY <1>1, <1>2, FS_Subset, FS_CardinalityType
<1>4. ASSUME NEW e \in M
      PROVE  IsFiniteSet({f \in M : f > e}) /\ Cardinality({f \in M : f > e}) \in Nat
  <2>1. {f \in M : f > e} \subseteq M  OBVIOUS
  <2>2. IsFiniteSet({f \in M : f > e})  BY <1>1, <2>1, FS_Subset
  <2> QED  BY <2>2, FS_CardinalityType
<1>5. \A e \in found, f \in M : f > e => f \in found
  <2> SUFFICES ASSUME NEW e \in found, NEW f \in M, f > e PROVE f \in found  OBVIOUS
  <2>1. PICK U : U = {g \in M : g > e}  OBVIOUS
  <2>2. PICK V : V = {g \in M : g > f}  OBVIOUS
  <2>3. V \subseteq U
    <3> SUFFICES ASSUME NEW g \in M, g > f PROVE g > e  BY <2>1, <2>2
    <3>1. g \in Nat /\ f \in Nat /\ e \in Nat  BY <1>2
    <3> QED  BY <3>1
  <2>4. Cardinality(V) <= Cardinality(U) /\ Cardinality(U) < k
    BY <1>0, <1>2, <1>4, <2>1, <2>3, FS_Subset
  <2>5. Cardinality(V) \in Nat /\ Cardinality(U) \in Nat  BY <1>2, <1>4, <2>1, <2>2
  <2>6. Cardinality(V) < k  BY <2>4, <2>5
  <2> QED  BY <1>0, <2>2, <2>6
<1>6. Cardinality(found) <= k
  <2>1. CASE found = {}
    <3>1. Cardinality(found) = 0  BY <2>1, FS_EmptySet
    <3> QED  BY <3>1
  <2>2. CASE found # {}
    <3>1. found \subseteq Nat
      <4>1. 1 .. n \subseteq Nat  OBVIOUS
      <4> QED  BY <1>2, <4>1
    <3>2. PICK m \in found : \A y \in found : m <= y  BY <2>2, <3>1, LeastOf
    <3>3. PICK U : U = {g \in M : g > m}  OBVIOUS
    <3>4. found \ {m} \subseteq U
      <4> SUFFICES ASSUME NEW y \in found, y # m PROVE y > m  BY <1>2, <3>3
      <4>1. m <= y /\ m \in Nat /\ y \in Nat  BY <3>1, <3>2
      <4> QED  BY <4>1
    <3>5. Cardinality(found \ {m}) <= Cardinality(U) /\ Cardinality(U) < k /\ Cardinality(U) \in Nat
      BY <1>0, <1>2, <1>4, <3>3, <3>4, FS_Subset
    <3>6. Cardinality(found \ {m}) = Cardinality(found) - 1  BY <1>3, <3>2, FS_RemoveElement
    <3> QED  BY <1>3, <3>5, <3>6
  <2> QED  BY <2>1, <2>2
<1>7. ASSUME Cardinality(found) < k PROVE found = M
  <2> SUFFICES ASSUME found # M PROVE FALSE  OBVIOUS
  <2>1. M \ found # {} /\ M \ found \subseteq 1 .. n  BY <1>2
  <2>2. PICK g \in M \ found : \A y \in M \ found : y <= g  BY <2>1, GreatestOf
  <2>3. PICK U : U = {f \in M : f > g}  OBVIOUS
  <2>4. U \subseteq found
    <3> SUFFICES ASSUME NEW f \in M, f > g, f \notin found PROVE FALSE  BY <2>3
    <3>1. f <= g /\ f \in Nat /\ g \in Nat  BY <2>2
    <3> QED  BY <3>1
  <2>5. Cardinality(U) <= Cardinality(found)  BY <1>3, <2>4, FS_Subset
  <2>6. Cardinality(U) \in Nat  BY <1>4, <2>2, <2>3
  <2>7. Cardinality(U) < k  BY <1>3, <1>7, <2>5, <2>6
  <2> QED  BY <1>0, <2>2, <2>3, <2>7
<1> QED  BY <1>1, <1>3, <1>5, <1>6, <1>7

\* The ring holds the newest entries, so a query finds the newest that match.
LEMMA LogGaps == ASSUME LInv PROVE L!NewestWithoutGaps
<1>1. PICK n : n = Len(tags)  OBVIOUS
<1>2. PICK r : r = Len(ring)  OBVIOUS
<1>3. /\ n \in Nat /\ r \in Nat /\ RingSize \in Nat /\ DOMAIN tags = 1 .. n
      /\ r = IF n <= RingSize THEN n ELSE RingSize
      /\ \A i \in 1 .. r : ring[i] = n - r + i
      /\ DOMAIN ring = 1 .. r
  <2>1. /\ ring \in Seq(Nat) /\ Len(ring) = (IF Len(tags) <= RingSize THEN Len(tags) ELSE RingSize)
        /\ \A i \in DOMAIN ring : ring[i] = Len(tags) - Len(ring) + i
        /\ tags \in Seq(Tag)
    BY DEF LInv, L!TypeOK
  <2>2. n \in Nat /\ r \in Nat /\ RingSize \in Nat /\ DOMAIN ring = 1 .. r /\ DOMAIN tags = 1 .. n
    BY <1>1, <1>2, <2>1, UpkeepAssumption
  <2> QED  BY <1>1, <1>2, <2>1, <2>2
<1>4. L!Range(ring) = n - r + 1 .. n
  <2>1. ASSUME NEW i \in 1 .. r PROVE ring[i] \in n - r + 1 .. n
    <3>1. n - r + i \in n - r + 1 .. n  BY <1>3
    <3> QED  BY <1>3, <3>1
  <2>2. ASSUME NEW e \in n - r + 1 .. n PROVE \E i \in 1 .. r : ring[i] = e
    <3>1. PICK i \in 1 .. r : e = n - r + i
      <4>1. e - (n - r) \in 1 .. r /\ e = n - r + (e - (n - r))  BY <1>3
      <4> QED  BY <4>1
    <3> QED  BY <1>3, <3>1
  <2>3. L!Range(ring) = {ring[i] : i \in 1 .. r}  BY <1>3 DEF L!Range
  <2> QED  BY <2>1, <2>2, <2>3
<1>5. ASSUME NEW tag \in Tag, NEW limit \in 1 .. RingSize,
             NEW all, all = {e \in DOMAIN tags : tags[e] = tag},
             NEW found, found = L!Query(tag, limit)
      PROVE  /\ found \subseteq all /\ Cardinality(found) <= limit
             /\ \A e \in found, f \in all : f > e => f \in found
             /\ Cardinality(found) < limit /\ found # all => Len(tags) > RingSize
  <2>1. PICK M : M = {e \in L!Range(ring) : tags[e] = tag}  OBVIOUS
  <2>2. found = NewestOf(M, limit)
    BY <1>5, <2>1 DEF L!Query, L!Cardinality, Cardinality, NewestOf
  <2>3. M \subseteq 1 .. n /\ M \subseteq all /\ found \subseteq M
    BY <1>3, <1>4, <1>5, <2>1, <2>2 DEF NewestOf
  <2>4. limit \in Nat \ {0}  OBVIOUS
  <2>5. /\ IsFiniteSet(M) /\ IsFiniteSet(found) /\ Cardinality(found) <= limit
        /\ \A e \in found, f \in M : f > e => f \in found
        /\ Cardinality(found) < limit => found = M
    <3>1. PICK k \in Nat \ {0} : k = limit  BY <2>4
    <3>2. found = NewestOf(M, k)  BY <2>2, <3>1
    <3>3. n \in Nat /\ M \subseteq 1 .. n  BY <1>3, <2>3
    <3>4. /\ IsFiniteSet(M) /\ IsFiniteSet(found) /\ Cardinality(found) <= k
          /\ \A e \in found, f \in M : f > e => f \in found
          /\ Cardinality(found) < k => found = M
      BY <3>2, <3>3, Newest
    <3> QED  BY <3>1, <3>4
  <2>6. ASSUME NEW e \in found, NEW f \in all, f > e PROVE f \in found
    <3>1. e \in n - r + 1 .. n /\ f \in 1 .. n /\ tags[f] = tag  BY <1>3, <1>4, <1>5, <2>1, <2>3
    <3>2. f \in n - r + 1 .. n  BY <1>3, <2>6, <3>1
    <3>3. f \in M  BY <1>4, <2>1, <3>1, <3>2
    <3> QED  BY <2>5, <2>6, <3>3
  <2>7. ASSUME found = M, n <= RingSize PROVE found = all
    <3>1. n - r + 1 = 1  BY <1>3, <2>7
    <3> QED  BY <1>3, <1>4, <1>5, <2>1, <2>7, <3>1
  <2> QED  BY <1>1, <1>3, <2>3, <2>5, <2>6, <2>7
<1>6. L!IsInjective(logFile)  BY DEF LInv, L!IsInjective
<1>7. \A tag \in Tag, limit \in 1 .. RingSize :
         LET all == {e \in DOMAIN tags : tags[e] = tag}
             found == L!Query(tag, limit)
         IN /\ found \subseteq all /\ L!Cardinality(found) <= limit
            /\ \A e \in found, f \in all : f > e => f \in found
            /\ L!Cardinality(found) < limit /\ found # all => Len(tags) > RingSize
  BY <1>5 DEF L!Cardinality, Cardinality
<1> QED  BY <1>6, <1>7 DEF L!NewestWithoutGaps

-----------------------------------------------------------------------------
(* AuditExport: batches on their way to the store. *)

Uploading(f) == flush[f].pc = "upload"
Buffered == X!Range(buf)

Disjoint(s, t) == \A e \in s : e \notin t

\* Each batch apart from the buffer, the lost entries, the objects and the
\* other batches, and each object likewise.
BatchesApart ==
    \A f \in X!Flusher :
        Uploading(f) =>
           /\ flush[f] = [pc |-> "upload", batch |-> flush[f].batch, key |-> flush[f].key]
           /\ flush[f].batch \subseteq 1 .. added /\ flush[f].key \in 0 .. second
           /\ Disjoint(flush[f].batch, Buffered) /\ Disjoint(flush[f].batch, lost)
           /\ \A g \in X!Flusher \ {f} : Uploading(g) => Disjoint(flush[f].batch, flush[g].batch)
           /\ \A k \in DOMAIN objects : Disjoint(flush[f].batch, objects[k])

ObjectsApart ==
    \A k \in DOMAIN objects :
        /\ objects[k] \subseteq 1 .. added
        /\ Disjoint(objects[k], Buffered) /\ Disjoint(objects[k], lost)
        /\ \A l \in DOMAIN objects \ {k} : Disjoint(objects[k], objects[l])

Somewhere ==
    \A e \in 1 .. added :
        \/ e \in Buffered \/ e \in lost
        \/ \E f \in X!Flusher : Uploading(f) /\ e \in flush[f].batch
        \/ \E k \in DOMAIN objects : e \in objects[k]

ExportTypes ==
    /\ buf \in Seq(1 .. added) /\ added \in Nat /\ second \in Nat
    /\ exportStopped \in BOOLEAN
    /\ Buffered \subseteq 1 .. added /\ lost \subseteq 1 .. added /\ Disjoint(Buffered, lost)
    /\ flush = [f \in X!Flusher |-> flush[f]]
    /\ \A f \in X!Flusher : flush[f].pc \in {"idle", "take", "upload", "ended"}
    /\ flush["loop"] = X!Ended => exportStopped
    /\ DOMAIN objects \subseteq 0 .. second
XInv == ExportTypes /\ BatchesApart /\ ObjectsApart /\ Somewhere

\* What is in a buffer.
LEMMA RangeIs ==
    /\ X!Range(<<>>) = {}
    /\ \A S1 : \A s \in Seq(S1) : \A e : X!Range(Append(s, e)) = X!Range(s) \cup {e}
    /\ \A S1 : \A s \in Seq(S1) : X!Range(s) \subseteq S1
  <1>1. X!Range(<<>>) = {}  BY DEF X!Range
  <1>2. ASSUME NEW S1, NEW s \in Seq(S1), NEW e PROVE X!Range(Append(s, e)) = X!Range(s) \cup {e}
    <2>1. /\ DOMAIN Append(s, e) = 1 .. Len(s) + 1 /\ DOMAIN s = 1 .. Len(s) /\ Len(s) \in Nat
          /\ \A i \in 1 .. Len(s) : Append(s, e)[i] = s[i]
          /\ Append(s, e)[Len(s) + 1] = e
      OBVIOUS
    <2>2. \A i \in 1 .. Len(s) + 1 : i \in 1 .. Len(s) \/ i = Len(s) + 1  BY <2>1
    <2>3. Len(s) + 1 \in 1 .. Len(s) + 1 /\ \A i \in 1 .. Len(s) : i \in 1 .. Len(s) + 1  BY <2>1
    <2> QED  BY <2>1, <2>2, <2>3 DEF X!Range
  <1>3. ASSUME NEW S1, NEW s \in Seq(S1) PROVE X!Range(s) \subseteq S1
    BY DEF X!Range
  <1> QED  BY <1>1, <1>2, <1>3

LEMMA ExportInit == ASSUME X!Init PROVE XInv
<1>1. Buffered = {}  BY RangeIs DEF X!Init, Buffered
<1>2. buf \in Seq(1 .. added) /\ added = 0 /\ second = 0 /\ lost = {} /\ exportStopped = FALSE
  BY DEF X!Init
<1>3. \A f \in X!Flusher : flush[f].pc = "idle"  BY DEF X!Init, X!Idle
<1>4. flush = [f \in X!Flusher |-> flush[f]] /\ DOMAIN objects = {}  BY DEF X!Init, X!EmptyMap
<1>5. "loop" \in X!Flusher /\ X!Ended.pc = "ended"  BY DEF X!Flusher, X!Ended
<1>6. flush["loop"] # X!Ended  BY <1>3, <1>5
<1>7. ExportTypes  BY <1>1, <1>2, <1>3, <1>4, <1>6 DEF ExportTypes, Disjoint
<1>8. BatchesApart  BY <1>3 DEF BatchesApart, Uploading
<1>9. ObjectsApart  BY <1>4 DEF ObjectsApart
<1>10. Somewhere
  <2>1. 1 .. added = {}  BY <1>2
  <2> QED  BY <2>1 DEF Somewhere
<1> QED  BY <1>7, <1>8, <1>9, <1>10 DEF XInv

LEMMA ExportStep == ASSUME XInv, X!Next PROVE XInv'
<1> USE DEF XInv
<1>a. "loop" \in X!Flusher /\ X!Ended.pc = "ended" /\ X!Idle.pc = "idle"
  BY DEF X!Flusher, X!Ended, X!Idle
<1>b. /\ added \in Nat /\ second \in Nat /\ buf \in Seq(1 .. added) /\ exportStopped \in BOOLEAN
      /\ flush = [f \in X!Flusher |-> flush[f]]
  BY DEF ExportTypes
<1>1. CASE X!Add
  <2>1. /\ added' = added + 1 /\ buf' = Append(buf, added + 1)
        /\ UNCHANGED <<flush, objects, lost, exportStopped, second>>
    BY <1>1 DEF X!Add
  <2>2. Buffered' = Buffered \cup {added + 1}  BY <1>b, <2>1, RangeIs DEF Buffered
  <2>3. 1 .. added + 1 = (1 .. added) \cup {added + 1} /\ added + 1 \notin 1 .. added
    BY <1>b
  <2>4. buf' \in Seq(1 .. added + 1)
    <3>1. buf \in Seq(1 .. added + 1)  BY <1>b, <2>3
    <3> QED  BY <2>1, <2>3, <3>1
  <2>5. ExportTypes'  BY <1>b, <2>1, <2>2, <2>3, <2>4 DEF ExportTypes, Disjoint
  <2>6. BatchesApart'  BY <2>1, <2>2, <2>3 DEF BatchesApart, Uploading, Disjoint
  <2>7. ObjectsApart'  BY <2>1, <2>2, <2>3 DEF ObjectsApart, Disjoint
  <2>8. Somewhere'  BY <2>1, <2>2, <2>3 DEF Somewhere, Uploading
  <2> QED  BY <2>5, <2>6, <2>7, <2>8
<1>2. ASSUME NEW f \in X!Flusher, NEW o, o.pc # "upload", o.pc \in {"idle", "take", "ended"},
             flush[f].pc # "upload", flush' = [flush EXCEPT ![f] = o],
             f = "loop" /\ o = X!Ended =>
                 exportStopped, exportStopped' \in BOOLEAN, exportStopped => exportStopped',
             UNCHANGED <<buf, objects, lost, second, added>>
      PROVE  XInv'
  <2>1. Buffered' = Buffered  BY <1>2 DEF Buffered
  <2>2. \A g \in X!Flusher : /\ flush'[g] = IF g = f THEN o ELSE flush[g]
                             /\ Uploading(g)' <=> Uploading(g)
    BY <1>2, <1>b DEF Uploading
  <2>3. ExportTypes'  BY <1>2, <1>a, <1>b, <2>1, <2>2 DEF ExportTypes, Disjoint
  <2>4. BatchesApart'  BY <1>2, <2>1, <2>2 DEF BatchesApart, Uploading, Disjoint
  <2>5. ObjectsApart'  BY <1>2, <2>1 DEF ObjectsApart, Disjoint
  <2>6. Somewhere'  BY <1>2, <2>1, <2>2 DEF Somewhere, Uploading
  <2> QED  BY <2>3, <2>4, <2>5, <2>6
<1>3. ASSUME NEW p \in Proc, NEW stop \in BOOLEAN, X!Call(p, stop) PROVE XInv'
  <2>1. PICK o : o = [pc |-> "take"]  OBVIOUS
  <2>2. o.pc = "take" /\ o # X!Ended  BY <1>a, <2>1
  <2>3. p \in X!Flusher /\ flush[p].pc = "idle"  BY <1>3, <1>a DEF X!Flusher, X!Call
  <2>4. /\ flush' = [flush EXCEPT ![p] = o] /\ UNCHANGED <<buf, objects, lost, second, added>>
        /\ exportStopped' = (exportStopped \/ stop)
    BY <1>3, <2>1 DEF X!Call
  <2>5. exportStopped' \in BOOLEAN /\ (exportStopped => exportStopped')  BY <1>b, <2>4
  <2> QED  BY <1>2, <2>2, <2>3, <2>4, <2>5
<1>4. CASE X!Fire
  <2>1. PICK o : o = [pc |-> "take"]  OBVIOUS
  <2>2. o.pc = "take" /\ o # X!Ended  BY <1>a, <2>1
  <2>3. flush["loop"].pc = "idle"  BY <1>4, <1>a DEF X!Fire
  <2>4. /\ flush' = [flush EXCEPT !["loop"] = o]
        /\ UNCHANGED <<buf, objects, lost, exportStopped, second, added>>
    BY <1>4, <2>1 DEF X!Fire
  <2> QED  BY <1>2, <1>a, <1>b, <2>2, <2>3, <2>4
<1>5. CASE X!End
  <2>1. /\ flush["loop"].pc = "idle" /\ exportStopped
        /\ flush' = [flush EXCEPT !["loop"] = X!Ended]
        /\ UNCHANGED <<buf, objects, lost, exportStopped, second, added>>
    BY <1>5, <1>a DEF X!End
  <2> QED  BY <1>2, <1>a, <1>b, <2>1
<1>6. CASE X!Tick
  <2>1. second' = second + 1 /\ UNCHANGED <<buf, flush, objects, lost, exportStopped, added>>
    BY <1>6 DEF X!Tick
  <2>2. Buffered' = Buffered /\ 0 .. second \subseteq 0 .. second'  BY <1>b, <2>1 DEF Buffered
  <2>3. ExportTypes'  BY <1>b, <2>1, <2>2 DEF ExportTypes, Disjoint
  <2>4. BatchesApart'  BY <2>1, <2>2 DEF BatchesApart, Uploading, Disjoint
  <2>5. ObjectsApart'  BY <2>1, <2>2 DEF ObjectsApart, Disjoint
  <2>6. Somewhere'  BY <2>1, <2>2 DEF Somewhere, Uploading
  <2> QED  BY <2>3, <2>4, <2>5, <2>6
<1>7. ASSUME NEW f \in X!Flusher, X!Take(f) PROVE XInv'
  <2>1. CASE buf = <<>>
    <3>1. /\ flush[f].pc = "take" /\ flush' = [flush EXCEPT ![f] = X!Idle] /\ buf' = buf
          /\ UNCHANGED <<objects, lost, exportStopped, second, added>>
      BY <1>7, <2>1 DEF X!Take, X!Empty
    <3>2. X!Idle # X!Ended  BY <1>a
    <3> QED  BY <1>2, <1>a, <1>b, <3>1, <3>2
  <2>2. CASE buf # <<>>
    <3>1. PICK o : o = [pc |-> "upload", batch |-> X!Range(buf), key |-> second]  OBVIOUS
    <3>2. /\ flush[f].pc = "take" /\ flush' = [flush EXCEPT ![f] = o] /\ buf' = <<>>
          /\ UNCHANGED <<objects, lost, exportStopped, second, added>>
      BY <1>7, <2>2, <3>1 DEF X!Take, X!Empty
    <3>3. Buffered' = {} /\ o.batch = Buffered  BY <3>1, <3>2, RangeIs DEF Buffered
    <3>4. o = [pc |-> "upload", batch |-> o.batch, key |-> o.key] /\ o.pc = "upload"
              /\ o.key = second
      BY <3>1
    <3>5. \A g \in X!Flusher : /\ flush'[g] = IF g = f THEN o ELSE flush[g]
                               /\ Uploading(g)' <=> g = f \/ Uploading(g)
                               /\ Uploading(g) => g # f
      BY <1>b, <3>2, <3>4 DEF Uploading
    <3>6. ExportTypes'
      BY <1>a, <1>b, <3>2, <3>3, <3>4, <3>5 DEF ExportTypes, Disjoint
    <3>7. BatchesApart'
      <4>1. Buffered \subseteq 1 .. added /\ Disjoint(Buffered, lost) /\ second \in 0 .. second
        BY <1>b DEF ExportTypes
      <4>2. \A k \in DOMAIN objects : Disjoint(Buffered, objects[k])  BY DEF ObjectsApart, Disjoint
      <4>3. \A g \in X!Flusher : Uploading(g) => Disjoint(Buffered, flush[g].batch)
        BY DEF BatchesApart, Disjoint
      <4>4. ASSUME NEW g \in X!Flusher, Uploading(g)'
            PROVE /\ flush'[g] = [pc |-> "upload", batch |-> flush'[g].batch, key |-> flush'[g].key]
                  /\ flush'[g].batch \subseteq 1 .. added /\ flush'[g].key \in 0 .. second
                  /\ Disjoint(flush'[g].batch, {}) /\ Disjoint(flush'[g].batch, lost)
                  /\ \A h \in X!Flusher \ {g} : Uploading(h)' =>
                       Disjoint(flush'[g].batch, flush'[h].batch)
                  /\ \A k \in DOMAIN objects : Disjoint(flush'[g].batch, objects[k])
        <5>1. CASE g = f
          BY <3>3, <3>4, <3>5, <4>1, <4>2, <4>3, <5>1 DEF Disjoint
        <5>2. CASE g # f
          <6>1. Uploading(g) /\ flush'[g] = flush[g]  BY <3>5, <4>4, <5>2
          <6>2. \A h \in X!Flusher \ {g} : Uploading(h)' =>
                    Disjoint(flush[g].batch, flush'[h].batch)
            BY <3>3, <3>5, <4>3, <6>1 DEF BatchesApart, Disjoint
          <6> QED  BY <6>1, <6>2 DEF BatchesApart, Disjoint
        <5> QED  BY <5>1, <5>2
      <4> QED  BY <3>2, <3>3, <4>4 DEF BatchesApart
    <3>8. ObjectsApart'  BY <3>2, <3>3 DEF ObjectsApart, Disjoint
    <3>9. Somewhere'
      <4>1. Uploading(f)' /\ flush'[f].batch = Buffered  BY <3>3, <3>5
      <4> QED  BY <3>2, <3>5, <4>1 DEF Somewhere
    <3> QED  BY <3>6, <3>7, <3>8, <3>9
  <2> QED  BY <2>1, <2>2
<1>8. ASSUME NEW f \in X!Flusher, Uploading(f), flush' = [flush EXCEPT ![f] = X!Idle],
             UNCHANGED <<buf, exportStopped, second, added>>
      PROVE  /\ Buffered' = Buffered
             /\ \A g \in X!Flusher : /\ flush'[g] = IF g = f THEN X!Idle ELSE flush[g]
                                     /\ Uploading(g)' <=> g # f /\ Uploading(g)
             /\ flush' = [g \in X!Flusher |-> flush'[g]]
             /\ \A g \in X!Flusher : flush'[g].pc \in {"idle", "take", "upload", "ended"}
             /\ flush'["loop"] = X!Ended => exportStopped'
  <2>1. Buffered' = Buffered  BY <1>8 DEF Buffered
  <2>2. \A g \in X!Flusher : /\ flush'[g] = IF g = f THEN X!Idle ELSE flush[g]
                             /\ Uploading(g)' <=> g # f /\ Uploading(g)
    BY <1>8, <1>a, <1>b DEF Uploading
  <2> QED  BY <1>8, <1>a, <1>b, <2>1, <2>2 DEF ExportTypes
<1>9. ASSUME NEW f \in X!Flusher, X!Upload(f) PROVE XInv'
  <2>1. PICK b : b = flush[f].batch  OBVIOUS
  <2>2. PICK k : k = flush[f].key  OBVIOUS
  <2>3. PICK old : old = X!Get(objects, k, {})  OBVIOUS
  <2>4. /\ Uploading(f) /\ flush' = [flush EXCEPT ![f] = X!Idle] /\ lost' = lost \cup old
        /\ objects' = X!Put(objects, k, b)
        /\ UNCHANGED <<buf, exportStopped, second, added>>
    BY <1>9, <2>1, <2>2, <2>3 DEF X!Upload, Uploading
  <2>5. /\ DOMAIN objects' = DOMAIN objects \cup {k}
        /\ \A l \in DOMAIN objects' : objects'[l] = IF l = k THEN b ELSE objects[l]
    BY <2>4 DEF X!Put
  <2>6. \A e \in old : k \in DOMAIN objects /\ e \in objects[k]  BY <2>3 DEF X!Get
  <2>7. k \in DOMAIN objects => old = objects[k]  BY <2>3 DEF X!Get
  <2>8. /\ b \subseteq 1 .. added /\ k \in 0 .. second /\ Disjoint(b, Buffered) /\ Disjoint(b, lost)
        /\ \A g \in X!Flusher : g # f /\ Uploading(g) => Disjoint(b, flush[g].batch)
        /\ \A l \in DOMAIN objects : Disjoint(b, objects[l])
    BY <2>1, <2>2, <2>4 DEF BatchesApart
  <2>9. /\ Buffered' = Buffered
        /\ \A g \in X!Flusher : /\ flush'[g] = IF g = f THEN X!Idle ELSE flush[g]
                                /\ Uploading(g)' <=> g # f /\ Uploading(g)
        /\ flush' = [g \in X!Flusher |-> flush'[g]]
        /\ \A g \in X!Flusher : flush'[g].pc \in {"idle", "take", "upload", "ended"}
        /\ flush'["loop"] = X!Ended => exportStopped'
    BY <1>8, <2>4
  <2>10. old \subseteq 1 .. added /\ Disjoint(old, Buffered)
    BY <2>6 DEF ObjectsApart, Disjoint
  <2>11. ExportTypes'
    BY <1>b, <2>4, <2>5, <2>8, <2>9, <2>10 DEF ExportTypes, Disjoint
  <2>12. BatchesApart'
    <3>1. ASSUME NEW g \in X!Flusher, Uploading(g)'
          PROVE  /\ flush'[g] = flush[g] /\ Uploading(g) /\ g # f
                 /\ Disjoint(flush[g].batch, lost \cup old)
                 /\ \A l \in DOMAIN objects' : Disjoint(flush[g].batch, objects'[l])
      <4>1. flush'[g] = flush[g] /\ Uploading(g) /\ g # f  BY <2>9, <3>1
      <4>2. Disjoint(flush[g].batch, lost)  BY <4>1 DEF BatchesApart
      <4>3. \A l \in DOMAIN objects : Disjoint(flush[g].batch, objects[l])  BY <4>1 DEF BatchesApart
      <4>4. Disjoint(b, flush[g].batch)  BY <2>8, <4>1
      <4> QED  BY <2>5, <2>6, <4>1, <4>2, <4>3, <4>4 DEF Disjoint
    <3> QED  BY <2>4, <2>9, <3>1 DEF BatchesApart, Disjoint
  <2>13. ObjectsApart'
    <3>1. ASSUME NEW l \in DOMAIN objects'
          PROVE  /\ objects'[l] \subseteq 1 .. added
                 /\ Disjoint(objects'[l], Buffered) /\ Disjoint(objects'[l], lost \cup old)
                 /\ \A j \in DOMAIN objects' \ {l} : Disjoint(objects'[l], objects'[j])
      <4>1. CASE l = k
        BY <2>5, <2>6, <2>8, <3>1, <4>1 DEF Disjoint
      <4>2. CASE l # k
        <5>1. l \in DOMAIN objects /\ objects'[l] = objects[l]  BY <2>5, <3>1, <4>2
        <5>2. Disjoint(objects[l], old)  BY <2>6, <4>2, <5>1 DEF ObjectsApart, Disjoint
        <5>3. Disjoint(objects[l], b)  BY <2>8, <5>1 DEF Disjoint
        <5> QED  BY <2>5, <5>1, <5>2, <5>3 DEF ObjectsApart, Disjoint
      <4> QED  BY <4>1, <4>2
    <3> QED  BY <2>4, <2>9, <3>1 DEF ObjectsApart
  <2>14. Somewhere'
    <3>1. ASSUME NEW e \in 1 .. added
          PROVE  \/ e \in Buffered \/ e \in lost \cup old
                 \/ \E g \in X!Flusher : Uploading(g)' /\ e \in flush'[g].batch
                 \/ \E l \in DOMAIN objects' : e \in objects'[l]
      <4>1. CASE e \in b  BY <2>5, <4>1
      <4>2. CASE \E g \in X!Flusher : g # f /\ Uploading(g) /\ e \in flush[g].batch  BY <2>9, <4>2
      <4>3. CASE \E l \in DOMAIN objects : e \in objects[l]  BY <2>5, <2>7, <4>3
      <4> QED  BY <2>1, <4>1, <4>2, <4>3 DEF Somewhere
    <3> QED  BY <2>4, <2>9, <3>1 DEF Somewhere
  <2> QED  BY <2>11, <2>12, <2>13, <2>14
<1>10. ASSUME NEW f \in X!Flusher, X!UploadFails(f) PROVE XInv'
  <2>1. PICK b : b = flush[f].batch  OBVIOUS
  <2>2. /\ Uploading(f) /\ flush' = [flush EXCEPT ![f] = X!Idle] /\ lost' = lost \cup b
        /\ UNCHANGED <<buf, objects, exportStopped, second, added>>
    BY <1>10, <2>1 DEF X!UploadFails, Uploading
  <2>3. /\ b \subseteq 1 .. added /\ Disjoint(b, Buffered)
        /\ \A g \in X!Flusher : g # f /\ Uploading(g) => Disjoint(b, flush[g].batch)
        /\ \A l \in DOMAIN objects : Disjoint(b, objects[l])
    BY <2>1, <2>2 DEF BatchesApart
  <2>4. /\ Buffered' = Buffered
        /\ \A g \in X!Flusher : /\ flush'[g] = IF g = f THEN X!Idle ELSE flush[g]
                                /\ Uploading(g)' <=> g # f /\ Uploading(g)
        /\ flush' = [g \in X!Flusher |-> flush'[g]]
        /\ \A g \in X!Flusher : flush'[g].pc \in {"idle", "take", "upload", "ended"}
        /\ flush'["loop"] = X!Ended => exportStopped'
    BY <1>8, <2>2
  <2>5. ExportTypes'  BY <1>b, <2>2, <2>3, <2>4 DEF ExportTypes, Disjoint
  <2>6. BatchesApart'
    <3>1. ASSUME NEW g \in X!Flusher, Uploading(g)'
          PROVE  flush'[g] = flush[g] /\ Uploading(g) /\ g # f
                     /\ Disjoint(flush[g].batch, lost \cup b)
      BY <2>3, <2>4, <3>1 DEF BatchesApart, Disjoint
    <3> QED  BY <2>2, <2>4, <3>1 DEF BatchesApart, Disjoint
  <2>7. ObjectsApart'
    BY <2>2, <2>3, <2>4 DEF ObjectsApart, Disjoint
  <2>8. Somewhere'
    <3>1. ASSUME NEW e \in 1 .. added
          PROVE  \/ e \in Buffered \/ e \in lost \cup b
                 \/ \E g \in X!Flusher : Uploading(g)' /\ e \in flush'[g].batch
                 \/ \E l \in DOMAIN objects : e \in objects[l]
      BY <2>1, <2>4 DEF Somewhere
    <3> QED  BY <2>2, <2>4, <3>1 DEF Somewhere
  <2> QED  BY <2>5, <2>6, <2>7, <2>8
<1> QED
  BY <1>1, <1>3, <1>4, <1>5, <1>6, <1>7, <1>9, <1>10 DEF X!Next

\* The sets are apart and together all there is: each entry is in one of them.
LEMMA ExportOnce == ASSUME XInv PROVE X!EachEntryInOnePlace
<1> DEFINE uploading == {f \in X!Flusher : flush[f].pc = "upload"}
           batches == {<<"batch", f, flush[f].batch>> : f \in uploading}
           stored == {<<"object", k, objects[k]>> : k \in DOMAIN objects}
           Inside(e) == {x \in batches \cup stored \cup {<<"buf", 0, X!Range(buf)>>, <<"lost",
               0, lost>>} :
                            e \in x[3]}
<1>1. ASSUME NEW e \in 1 .. added PROVE \E x : Inside(e) = {x}
  <2>1. \A x \in Inside(e) :
           \/ \E f \in X!Flusher : Uploading(f) /\ x = <<"batch", f, flush[f].batch>>
                /\ e \in flush[f].batch
           \/ \E k \in DOMAIN objects : x = <<"object", k, objects[k]>> /\ e \in objects[k]
           \/ x = <<"buf", 0, Buffered>> /\ e \in Buffered
           \/ x = <<"lost", 0, lost>> /\ e \in lost
    BY DEF Uploading, Buffered
  <2>2. /\ \A f \in X!Flusher : Uploading(f) /\ e \in flush[f].batch =>
             <<"batch", f, flush[f].batch>> \in Inside(e)
        /\ \A k \in DOMAIN objects : e \in objects[k] => <<"object", k, objects[k]>> \in Inside(e)
        /\ e \in Buffered => <<"buf", 0, Buffered>> \in Inside(e)
        /\ e \in lost => <<"lost", 0, lost>> \in Inside(e)
    BY DEF Uploading, Buffered
  <2> HIDE DEF Inside
  <2>3. CASE e \in Buffered
    <3>1. \A x \in Inside(e) : x = <<"buf", 0, Buffered>>
      BY <2>1, <2>3 DEF XInv, ExportTypes, BatchesApart, ObjectsApart, Disjoint
    <3> QED  BY <2>2, <2>3, <3>1
  <2>4. CASE e \in lost
    <3>1. \A x \in Inside(e) : x = <<"lost", 0, lost>>
      BY <2>1, <2>4 DEF XInv, ExportTypes, BatchesApart, ObjectsApart, Disjoint
    <3> QED  BY <2>2, <2>4, <3>1
  <2>5. ASSUME NEW f \in X!Flusher, Uploading(f), e \in flush[f].batch PROVE \E x : Inside(e) = {x}
    <3>1. \A x \in Inside(e) : x = <<"batch", f, flush[f].batch>>
      BY <2>1, <2>5 DEF XInv, ExportTypes, BatchesApart, ObjectsApart, Disjoint
    <3> QED  BY <2>2, <2>5, <3>1
  <2>6. ASSUME NEW k \in DOMAIN objects, e \in objects[k] PROVE \E x : Inside(e) = {x}
    <3>1. \A x \in Inside(e) : x = <<"object", k, objects[k]>>
      BY <2>1, <2>6 DEF XInv, ExportTypes, BatchesApart, ObjectsApart, Disjoint
    <3> QED  BY <2>2, <2>6, <3>1
  <2> QED  BY <2>3, <2>4, <2>5, <2>6 DEF XInv, Somewhere
<1>2. \A e \in 1 .. added : Cardinality(Inside(e)) = 1  BY <1>1, FS_Singleton
<1> QED  BY <1>2 DEF X!EachEntryInOnePlace, X!Cardinality, Cardinality

-----------------------------------------------------------------------------
(* TLSReload: the certificate that is served. *)

TInv ==
    /\ T!TypeOK
    /\ cert \in [pair : Nat, time : Nat] /\ key \in [pair : Nat, time : Nat] /\ clock \in Nat
    /\ poll.pc \in {"key", "stat"} =>
          /\ poll = [pc |-> poll.pc, cert |-> poll.cert]
          /\ poll.cert.pair \in 0 .. newest
          /\ poll.pc = "stat" => poll.cert.pair # 0

\* A load that is under way has read a file of the newest pair, or the one
\* before it.
LEMMA CertificateStep == ASSUME TInv, T!Next PROVE TInv'
<1> USE DEF TInv, T!TypeOK, T!Pair, T!Waiting, T!files
<1>0. newest \in Nat \ {0} /\ newest <= MaxRenewals + 1 /\ MaxRenewals \in Nat
  BY UpkeepAssumption
<1>1. CASE T!Renew  BY <1>0, <1>1 DEF T!Renew
<1>2. CASE T!WriteCert
  <2>1. PICK n \in {0, newest} : cert' = [pair |-> n, time |-> clock + 1]
    BY <1>2 DEF T!WriteCert, T!Written
  <2> QED  BY <1>0, <1>2, <2>1 DEF T!WriteCert
<1>3. CASE T!WriteKey
  <2>1. PICK n \in {0, newest} : key' = [pair |-> n, time |-> clock + 1]
    BY <1>3 DEF T!WriteKey, T!Written
  <2> QED  BY <1>0, <1>3, <2>1 DEF T!WriteKey
<1>4. CASE T!Stat  BY <1>0, <1>4 DEF T!Stat
<1>5. CASE T!ReadCert  BY <1>0, <1>5 DEF T!ReadCert
<1>6. CASE T!ReadKey  BY <1>0, <1>6 DEF T!ReadKey, T!TryAgain
<1>7. CASE T!Install
  <2>1. poll.cert.pair \in 1 .. newest  BY <1>0, <1>7 DEF T!Install
  <2> QED  BY <1>0, <1>7, <2>1 DEF T!Install
<1> QED  BY <1>1, <1>2, <1>3, <1>4, <1>5, <1>6, <1>7 DEF T!Next, T!Poll

LEMMA CertificateInit == ASSUME T!Init PROVE TInv
  BY UpkeepAssumption DEF T!Init, TInv, T!TypeOK, T!Pair, T!Waiting

-----------------------------------------------------------------------------
(* AWSCredentials: the container credentials the transport signs with. *)

Left(todo) ==
    CASE todo = <<"AccessKey", "SecretKey", "Token">> -> A!Field
      [] todo = <<"SecretKey", "Token">> -> {"SecretKey", "Token"}
      [] todo = <<"Token">> -> {"Token"}
      [] OTHER -> {}

Lists == {<<"AccessKey", "SecretKey", "Token">>, <<"SecretKey", "Token">>, <<"Token">>, <<>>}

Unmixed(p) == ~signing[p].failed /\ ~signing[p].overlap /\ ~crossed

\* What a request has read, and that it is one set that lives when it is sent.
ReadOne(p) ==
    \E set \in DOMAIN issued :
        /\ signing[p].since + CredBuffer <= issued[set]
        /\ \A f \in DOMAIN signing[p].read : signing[p].read[f] = set
        /\ signing[p].pc = "sign" => \A f \in A!Field : fields[f] = set

SigningOK(p) ==
    LET r == signing[p]
    IN /\ r.pc = "idle" => r = A!Idle
       /\ r.pc = "get" => r = [pc |-> "get"]
       /\ r.pc = "write" =>
             /\ r = [pc |-> "write", set |-> r.set, since |-> r.since, left |-> r.left]
             /\ r.set \in 0 .. Len(issued) /\ r.since \in Nat /\ now <= r.since + 1
             /\ r.set # A!Empty => r.since + CredBuffer <= issued[r.set]
             /\ r.left \in Lists
             /\ ~crossed => \A f \in A!Field \ Left(r.left) : fields[f] = r.set
       /\ r.pc \in {"sign", "sent"} =>
             /\ r = [pc |-> r.pc, read |-> r.read, failed |-> r.failed, since |-> r.since,
                     overlap |-> r.overlap]
             /\ r.failed \in BOOLEAN /\ r.overlap \in BOOLEAN
             /\ r.since \in Nat /\ now <= r.since + 1
             /\ r.pc = "sign" => DOMAIN r.read \in {{}, {"Token"}, {"Token", "SecretKey"}}
             /\ r.pc = "sent" => DOMAIN r.read = A!Field
             /\ Unmixed(p) => ReadOne(p)

Writers == {p \in Proc : signing[p].pc = "write"}

AInv ==
    /\ A!TypeOK
    /\ issued \in Seq(0 .. MaxUpkeepTime + CredLife) /\ now \in 0 .. MaxUpkeepTime
    /\ now + CredBuffer <= issued[Len(issued)]
    /\ crossed \in BOOLEAN
    /\ signing = [p \in Proc |-> signing[p]]
    /\ \A p \in Proc : SigningOK(p)
    /\ ~crossed => \A p, q \in Writers : signing[p].set = signing[q].set
    /\ ~crossed /\ Writers = {} =>
          \E set \in 0 .. Len(issued) :
              /\ \A f \in A!Field : fields[f] = set
              /\ set # A!Empty => credsExp = issued[set]

ASL == <<"AccessKey", "SecretKey", "Token">>
SL == <<"SecretKey", "Token">>
TL == <<"Token">>

\* What a request has still to write.
LEMMA ListsAre ==
    /\ Lists = {ASL, SL, TL, <<>>}
    /\ Left(ASL) = A!Field /\ Left(SL) = {"SecretKey", "Token"} /\ Left(TL) = {"Token"}
         /\ Left(<<>>) = {}
    /\ Head(ASL) = "AccessKey" /\ Head(SL) = "SecretKey" /\ Head(TL) = "Token"
    /\ Tail(ASL) = SL /\ Tail(SL) = TL /\ Tail(TL) = <<>>
    /\ ASL # <<>> /\ SL # <<>> /\ TL # <<>>
<1>1. Lists = {ASL, SL, TL, <<>>}  BY DEF Lists, ASL, SL, TL
<1>2. Len(ASL) = 3 /\ Len(SL) = 2 /\ Len(TL) = 1 /\ Len(<<>>) = 0  BY DEF ASL, SL, TL
<1>3. ASL # SL /\ ASL # TL /\ ASL # <<>> /\ SL # TL /\ SL # <<>> /\ TL # <<>>  BY <1>2
<1>4. \A l : Left(l) = CASE l = ASL -> A!Field [] l = SL -> {"SecretKey",
          "Token"} [] l = TL -> {"Token"} [] OTHER -> {}
  BY DEF Left, ASL, SL, TL
<1>5. Left(ASL) = A!Field  BY <1>3, <1>4
<1>6. Left(SL) = {"SecretKey", "Token"}  BY <1>3, <1>4
<1>7. Left(TL) = {"Token"}  BY <1>3, <1>4
<1>8. Left(<<>>) = {}  BY <1>3, <1>4
<1>9. Head(ASL) = "AccessKey" /\ Head(SL) = "SecretKey" /\ Head(TL) = "Token"  BY DEF ASL, SL, TL
<1>10. Tail(ASL) = SL  BY DEF ASL, SL
<1>11. Tail(SL) = TL  BY DEF SL, TL
<1>12. Tail(TL) = <<>>  BY DEF TL
<1> QED  BY <1>1, <1>3, <1>5, <1>6, <1>7, <1>8, <1>9, <1>10, <1>11, <1>12

LEMMA SigningIdle == A!Idle.pc = "idle"  BY DEF A!Idle

\* The shape of a request that is about to sign.
LEMMA ToSignIs ==
    ASSUME NEW p \in Proc, NEW failed \in BOOLEAN, NEW t, NEW o, o = A!ToSign(p, failed, t)
    PROVE  /\ o.pc = "sign" /\ o.failed = failed /\ o.since = t /\ o.overlap \in BOOLEAN
           /\ o.overlap <=> (Writers \ {p} # {})
           /\ DOMAIN o.read = {}
           /\ o = [pc |-> o.pc, read |-> o.read, failed |-> o.failed, since |-> o.since,
                overlap |-> o.overlap]
<1>1. PICK b \in BOOLEAN : b = (Writers \ {p} # {})  OBVIOUS
<1>2. A!Writing(signing) = Writers  BY DEF A!Writing, Writers
<1>3. A!ToSign(p, failed, t) =
        [pc |-> "sign", read |-> A!EmptyMap, failed |-> failed, since |-> t, overlap |-> b]
  BY <1>1, <1>2 DEF A!ToSign
<1>4. DOMAIN A!EmptyMap = {}  BY DEF A!EmptyMap
<1>5. PICK m : m = A!EmptyMap  OBVIOUS
<1>6. o = [pc |-> "sign", read |-> m, failed |-> failed, since |-> t, overlap |-> b]
  BY <1>3, <1>5
<1>7. /\ o.pc = "sign" /\ o.failed = failed /\ o.since = t /\ o.overlap = b /\ o.read = m
      /\ o = [pc |-> o.pc, read |-> o.read, failed |-> o.failed, since |-> o.since,
           overlap |-> o.overlap]
  BY <1>6
<1>8. /\ o.overlap \in BOOLEAN /\ (o.overlap <=> (Writers \ {p} # {})) /\ DOMAIN o.read = {}
  BY <1>1, <1>4, <1>5, <1>7
<1> QED  BY <1>7, <1>8

LEMMA AWSInit == ASSUME A!Init PROVE AInv
<1>1. /\ issued = <<CredLife>> /\ fields = [f \in A!Field |-> 1] /\ credsExp = CredLife
      /\ signing = [p \in Proc |-> A!Idle] /\ crossed = FALSE /\ now = 0
  BY DEF A!Init
<1>2. /\ CredLife \in Nat /\ CredBuffer \in Nat /\ CredBuffer < CredLife
      /\ MaxIssues \in Nat \ {0} /\ MaxUpkeepTime \in Nat
  BY UpkeepAssumption
<1>3. PICK x : x = CredLife  OBVIOUS
<1>4. x \in 0 .. MaxUpkeepTime + CredLife  BY <1>2, <1>3
<1>5. /\ issued \in Seq(0 .. MaxUpkeepTime + CredLife) /\ Len(issued) = 1 /\ issued[1] = CredLife
      /\ DOMAIN issued = {1}
  BY <1>1, <1>3, <1>4
<1>6. \A p \in Proc : signing[p] = A!Idle /\ signing[p].pc = "idle"  BY <1>1, SigningIdle
<1>7. A!TypeOK
  <2>1. fields \in [A!Field -> 0 .. 1]  BY <1>1
  <2>2. credsExp \in 0 .. MaxUpkeepTime + CredLife  BY <1>1, <1>3, <1>4
  <2>3. Len(issued) \in 1 .. MaxIssues  BY <1>2, <1>5
  <2> QED  BY <1>5, <1>6, <2>1, <2>2, <2>3 DEF A!TypeOK
<1>8. \A p \in Proc : SigningOK(p)  BY <1>6 DEF SigningOK
<1>9. Writers = {}  BY <1>6 DEF Writers
<1>10. now + CredBuffer <= issued[Len(issued)] /\ now \in 0 .. MaxUpkeepTime
  BY <1>1, <1>2, <1>5
<1>11. \E set \in 0 .. Len(issued) : /\ \A f \in A!Field : fields[f] = set
                                     /\ set # A!Empty => credsExp = issued[set]
  <2>1. 1 \in 0 .. Len(issued)  BY <1>5
  <2> QED  BY <1>1, <1>5, <2>1
<1>12. signing = [p \in Proc |-> signing[p]] /\ crossed \in BOOLEAN  BY <1>1
<1> QED  BY <1>5, <1>7, <1>8, <1>9, <1>10, <1>11, <1>12 DEF AInv

-----------------------------------------------------------------------------
\* What the steps of a request have in common: the requests after it, by what
\* they were, and what is left to show.
LEMMA SigningFacts ==
    ASSUME AInv
    PROVE  /\ CredLife \in Nat /\ CredBuffer \in Nat /\ CredBuffer < CredLife /\ CredBuffer >= 2
           /\ MaxIssues \in Nat /\ MaxUpkeepTime \in Nat
           /\ issued \in Seq(0 .. MaxUpkeepTime + CredLife) /\ Len(issued) \in Nat
                /\ Len(issued) >= 1
           /\ DOMAIN issued = 1 .. Len(issued) /\ \A set \in 1 .. Len(issued) : issued[set] \in Nat
           /\ now \in Nat /\ now \in 0 .. MaxUpkeepTime /\ now + CredBuffer <= issued[Len(issued)]
           /\ fields \in [A!Field -> 0 .. Len(issued)] /\ credsExp \in 0 .. MaxUpkeepTime + CredLife
           /\ credsExp \in Nat /\ crossed \in BOOLEAN
           /\ signing = [p \in Proc |-> signing[p]]
           /\ \A p \in Proc : SigningOK(p)
                /\ signing[p].pc \in {"idle", "get", "write", "sign", "sent"}
<1>1. /\ CredLife \in Nat /\ CredBuffer \in Nat /\ CredBuffer < CredLife /\ CredBuffer >= 2
      /\ MaxIssues \in Nat /\ MaxUpkeepTime \in Nat
  BY UpkeepAssumption
<1>2. issued \in Seq(0 .. MaxUpkeepTime + CredLife) /\ Len(issued) \in 1 .. MaxIssues
  BY DEF AInv, A!TypeOK
<1>3. /\ Len(issued) \in Nat /\ Len(issued) >= 1
      /\ DOMAIN issued = 1 .. Len(issued)
      /\ \A set \in 1 .. Len(issued) : issued[set] \in 0 .. MaxUpkeepTime + CredLife
  BY <1>1, <1>2
<1>4. \A x \in 0 .. MaxUpkeepTime + CredLife : x \in Nat  BY <1>1
<1>5. now \in Nat  BY <1>1 DEF AInv
<1> QED  BY <1>1, <1>2, <1>3, <1>4, <1>5 DEF AInv, A!TypeOK

\* A step of p that changes nothing but its place, and is not in the way of
\* the others.
LEMMA PlaceMoves ==
    ASSUME AInv, NEW p \in Proc, NEW o, signing' = [signing EXCEPT ![p] = o],
           UNCHANGED <<issued, fields, credsExp, now>>, crossed' \in BOOLEAN, crossed => crossed',
           o.pc \in {"idle", "get", "write", "sign", "sent"},
           SigningOK(p)',
           signing[p].pc # "write",
           o.pc = "write" /\ ~crossed' => \A q \in Writers : signing[q].set = o.set
    PROVE  AInv'
<1>1. /\ signing' = [q \in Proc |-> signing'[q]] /\ signing'[p] = o
           /\ \A q \in Proc \ {p} : signing'[q] = signing[q]
  BY SigningFacts
<1>2. A!TypeOK'  BY <1>1 DEF AInv, A!TypeOK
<1>3. ASSUME NEW q \in Proc \ {p} PROVE SigningOK(q)'
  <2>1. SigningOK(q) /\ signing'[q] = signing[q] /\ (Unmixed(q)' => Unmixed(q)) /\ (~crossed' =>
            ~crossed)
    BY <1>1, SigningFacts DEF Unmixed
  <2>2. ReadOne(q)' <=> ReadOne(q)  BY <2>1 DEF ReadOne
  <2> QED  BY <2>1, <2>2 DEF SigningOK
<1>4. Writers' = IF o.pc = "write" THEN Writers \cup {p} ELSE Writers
  BY <1>1 DEF Writers
<1>5. ASSUME ~crossed' PROVE \A q1, q2 \in Writers' : signing'[q1].set = signing'[q2].set
  <2>1. \A q1, q2 \in Writers : signing[q1].set = signing[q2].set  BY <1>5 DEF AInv
  <2>2. p \notin Writers /\ Writers \subseteq Proc  BY DEF Writers
  <2> QED  BY <1>1, <1>4, <1>5, <2>1, <2>2
<1>6. ASSUME ~crossed', Writers' = {}
      PROVE  \E set \in 0 .. Len(issued) :
                 /\ \A f \in A!Field : fields[f] = set
                 /\ set # A!Empty => credsExp = issued[set]
  <2>1. Writers = {} /\ ~crossed  BY <1>4, <1>6
  <2> QED  BY <2>1 DEF AInv
<1>7. \A q \in Proc : SigningOK(q)'  BY <1>3
<1>8. /\ issued' \in Seq(0 .. MaxUpkeepTime + CredLife) /\ now' \in 0 .. MaxUpkeepTime
      /\ now' + CredBuffer <= issued'[Len(issued')]
  BY DEF AInv
<1> QED  BY <1>1, <1>2, <1>5, <1>6, <1>7, <1>8 DEF AInv

\* Credentials that are good, and that nobody writes, are one set.
LEMMA SignsNow ==
    ASSUME AInv, NEW p \in Proc, signing[p] = A!Idle, A!Good,
           ~crossed, Writers \ {p} = {}
    PROVE  \E set \in DOMAIN issued : now + CredBuffer <= issued[set]
               /\ \A f \in A!Field : fields[f] = set
<1>1. Writers = {}
  <2>1. p \notin Writers  BY SigningIdle DEF Writers
  <2> QED  BY <2>1
<1>2. PICK set \in 0 .. Len(issued) : /\ \A f \in A!Field : fields[f] = set
                                      /\ set # A!Empty => credsExp = issued[set]
  BY <1>1 DEF AInv
<1>3. fields["AccessKey"] # A!Empty /\ credsExp - now >= CredBuffer /\ "AccessKey" \in A!Field
  BY DEF A!Good, A!Field
<1>4. set # 0 /\ credsExp = issued[set]  BY <1>2, <1>3 DEF A!Empty
<1>5. set \in DOMAIN issued  BY <1>4, SigningFacts
<1>6. now + CredBuffer <= issued[set]  BY <1>3, <1>4, SigningFacts
<1> QED  BY <1>2, <1>5, <1>6

\* The steps of a request.
LEMMA RoundTrips == ASSUME AInv, NEW p \in Proc, A!RoundTrip(p) PROVE AInv'
<1>1. PICK o : o = IF A!Good THEN A!ToSign(p, FALSE, now) ELSE [pc |-> "get"]  OBVIOUS
<1>2. /\ signing[p] = A!Idle /\ signing' = [signing EXCEPT ![p] = o]
      /\ UNCHANGED <<issued, fields, credsExp, crossed, now>>
  BY <1>1 DEF A!RoundTrip
<1>3. signing[p].pc = "idle"  BY <1>2, SigningIdle
<1>4. signing'[p] = o  BY <1>2, SigningFacts
<1>5. CASE A!Good
  <2>1. /\ o.pc = "sign" /\ o.failed = FALSE /\ o.since = now /\ o.overlap \in BOOLEAN
        /\ o.overlap <=> (Writers \ {p} # {})
        /\ DOMAIN o.read = {}
        /\ o = [pc |-> o.pc, read |-> o.read, failed |-> o.failed, since |-> o.since,
             overlap |-> o.overlap]
    <3>1. PICK b \in BOOLEAN : b = FALSE  OBVIOUS
    <3>2. o = A!ToSign(p, b, now)  BY <1>1, <1>5, <3>1
    <3>3. /\ o.pc = "sign" /\ o.failed = b /\ o.since = now /\ o.overlap \in BOOLEAN
          /\ o.overlap <=> (Writers \ {p} # {})
          /\ DOMAIN o.read = {}
          /\ o = [pc |-> o.pc, read |-> o.read, failed |-> o.failed, since |-> o.since,
               overlap |-> o.overlap]
      BY <3>2, ToSignIs
    <3> QED  BY <3>1, <3>3
  <2>2. Unmixed(p)' => ReadOne(p)'
    <3> SUFFICES ASSUME Unmixed(p)' PROVE ReadOne(p)'  OBVIOUS
    <3>1. ~crossed /\ Writers \ {p} = {}  BY <1>2, <1>4, <2>1 DEF Unmixed
    <3>2. PICK set \in DOMAIN issued : now + CredBuffer <= issued[set]
                   /\ \A f \in A!Field : fields[f] = set
      BY <1>2, <1>5, <3>1, SignsNow
    <3> QED  BY <1>2, <1>4, <2>1, <3>2 DEF ReadOne
  <2>3. SigningOK(p)'
    <3>1. now \in Nat /\ now <= now + 1  BY SigningFacts
    <3> QED  BY <1>2, <1>4, <2>1, <2>2, <3>1 DEF SigningOK
  <2> QED  BY <1>2, <1>3, <2>1, <2>3, SigningFacts, PlaceMoves
<1>6. CASE ~A!Good
  <2>1. o.pc = "get" /\ o = [pc |-> "get"]  BY <1>1, <1>6
  <2>2. SigningOK(p)'  BY <1>4, <2>1 DEF SigningOK
  <2> QED  BY <1>2, <1>3, <2>1, <2>2, SigningFacts, PlaceMoves
<1> QED  BY <1>5, <1>6

LEMMA Fetches == ASSUME AInv, NEW p \in Proc, A!Fetch(p) PROVE AInv'
<1>1. PICK set \in {Len(issued), A!Empty} :
        /\ signing' = [signing EXCEPT ![p] = [pc |-> "write", set |-> set, since |-> now,
             left |-> ASL]]
        /\ crossed' = (crossed \/ \E q \in A!Writing(signing) : signing[q].set # set)
        /\ signing[p].pc = "get" /\ UNCHANGED <<issued, fields, credsExp, now>>
  BY DEF A!Fetch, ASL
<1>2. PICK o : o = [pc |-> "write", set |-> set, since |-> now, left |-> ASL]  OBVIOUS
<1>3. /\ o.pc = "write" /\ o.set = set /\ o.since = now /\ o.left = ASL
      /\ o = [pc |-> "write", set |-> o.set, since |-> o.since, left |-> o.left]
  BY <1>2
<1>4. signing' = [signing EXCEPT ![p] = o] /\ signing'[p] = o  BY <1>1, <1>2, SigningFacts
<1>5. /\ set \in 0 .. Len(issued) /\ now \in Nat /\ now <= now + 1
      /\ set # A!Empty => now + CredBuffer <= issued[set]
  BY SigningFacts DEF A!Empty
<1>6. SigningOK(p)'
  <2>1. A!Field \ Left(ASL) = {} /\ ASL \in Lists  BY ListsAre
  <2> QED  BY <1>1, <1>3, <1>4, <1>5, <2>1 DEF SigningOK
<1>7. A!Writing(signing) = Writers  BY DEF A!Writing, Writers
<1>8. crossed' \in BOOLEAN /\ (crossed => crossed') /\ (~crossed' =>
          \A q \in Writers : signing[q].set = o.set)
  BY <1>1, <1>3, <1>7
<1>9. UNCHANGED <<issued, fields, credsExp, now>> /\ signing[p].pc # "write"  BY <1>1
<1> QED  BY <1>3, <1>4, <1>6, <1>8, <1>9, PlaceMoves

LEMMA FetchFailing == ASSUME AInv, NEW p \in Proc, A!FetchFails(p) PROVE AInv'
<1>1. PICK o : o = A!ToSign(p, TRUE, now)  OBVIOUS
<1>2. /\ signing[p].pc = "get" /\ signing' = [signing EXCEPT ![p] = o]
      /\ UNCHANGED <<issued, fields, credsExp, crossed, now>>
  BY <1>1 DEF A!FetchFails
<1>3. /\ o.pc = "sign" /\ o.failed = TRUE /\ o.since = now /\ o.overlap \in BOOLEAN
      /\ DOMAIN o.read = {}
      /\ o = [pc |-> o.pc, read |-> o.read, failed |-> o.failed, since |-> o.since,
           overlap |-> o.overlap]
  <2>1. PICK b \in BOOLEAN : b = TRUE  OBVIOUS
  <2>2. o = A!ToSign(p, b, now)  BY <1>1, <2>1
  <2>3. /\ o.pc = "sign" /\ o.failed = b /\ o.since = now /\ o.overlap \in BOOLEAN
        /\ DOMAIN o.read = {}
        /\ o = [pc |-> o.pc, read |-> o.read, failed |-> o.failed, since |-> o.since,
             overlap |-> o.overlap]
    BY <2>2, ToSignIs
  <2> QED  BY <2>1, <2>3
<1>4. signing'[p] = o  BY <1>2, SigningFacts
<1>5. ~Unmixed(p)'  BY <1>3, <1>4 DEF Unmixed
<1>6. now \in Nat /\ now <= now + 1  BY SigningFacts
<1>7. SigningOK(p)'  BY <1>2, <1>3, <1>4, <1>5, <1>6 DEF SigningOK
<1> QED  BY <1>2, <1>3, <1>7, SigningFacts, PlaceMoves

\* A request that is about to sign while fields are written.
LEMMA OverlappedIs ==
    ASSUME AInv, NEW q \in Proc
    PROVE  /\ signing[q].pc = "sign" =>
                 LET o == [signing[q] EXCEPT !.overlap = TRUE]
                 IN /\ o.pc = "sign" /\ o.overlap = TRUE /\ o.failed \in BOOLEAN
                    /\ o.since \in Nat /\ now <= o.since + 1
                    /\ DOMAIN o.read \in {{}, {"Token"}, {"Token", "SecretKey"}}
                    /\ o = [pc |-> o.pc, read |-> o.read, failed |-> o.failed,
                         since |-> o.since, overlap |-> o.overlap]
<1> SUFFICES ASSUME signing[q].pc = "sign"
             PROVE  LET o == [signing[q] EXCEPT !.overlap = TRUE]
                    IN /\ o.pc = "sign" /\ o.overlap = TRUE /\ o.failed \in BOOLEAN
                       /\ o.since \in Nat /\ now <= o.since + 1
                       /\ DOMAIN o.read \in {{}, {"Token"}, {"Token", "SecretKey"}}
                       /\ o = [pc |-> o.pc, read |-> o.read, failed |-> o.failed,
                            since |-> o.since, overlap |-> o.overlap]
  OBVIOUS
<1>1. PICK r : r = signing[q]  OBVIOUS
<1>2. /\ r = [pc |-> r.pc, read |-> r.read, failed |-> r.failed, since |-> r.since,
           overlap |-> r.overlap]
      /\ r.pc = "sign" /\ r.failed \in BOOLEAN /\ r.since \in Nat /\ now <= r.since + 1
      /\ DOMAIN r.read \in {{}, {"Token"}, {"Token", "SecretKey"}}
  BY <1>1, SigningFacts DEF SigningOK
<1>3. PICK o : o = [r EXCEPT !.overlap = TRUE]  OBVIOUS
<1>4. o = [pc |-> r.pc, read |-> r.read, failed |-> r.failed, since |-> r.since, overlap |-> TRUE]
  BY <1>2, <1>3
<1> QED  BY <1>1, <1>2, <1>3, <1>4

\* The requests other than the writer p, after a step in which it wrote.
LEMMA Disturbed ==
    ASSUME AInv, NEW p \in Proc, signing[p].pc = "write",
           \A q \in Proc \ {p} :
              signing'[q] = IF signing[q].pc = "sign" THEN [signing[q] EXCEPT !.overlap = TRUE]
                            ELSE signing[q],
           UNCHANGED <<issued, crossed, now>>,
           ~crossed => \A f \in A!Field : fields'[f] = fields[f] \/ fields'[f] = signing[p].set
    PROVE  \A q \in Proc \ {p} : SigningOK(q)' /\ signing'[q].pc = signing[q].pc
                                 /\ (signing[q].pc = "write" => signing'[q] = signing[q])
<1> SUFFICES ASSUME NEW q \in Proc \ {p}
             PROVE  /\ SigningOK(q)' /\ signing'[q].pc = signing[q].pc
                    /\ signing[q].pc = "write" => signing'[q] = signing[q]
  OBVIOUS
<1>1. SigningOK(q) /\ signing[q].pc \in {"idle", "get", "write", "sign", "sent"} /\ now \in Nat
  BY SigningFacts
<1>2. CASE signing[q].pc = "sign"
  <2>1. PICK o : o = [signing[q] EXCEPT !.overlap = TRUE]  OBVIOUS
  <2>2. /\ o.pc = "sign" /\ o.overlap = TRUE /\ o.failed \in BOOLEAN
        /\ o.since \in Nat /\ now <= o.since + 1
        /\ DOMAIN o.read \in {{}, {"Token"}, {"Token", "SecretKey"}}
        /\ o = [pc |-> o.pc, read |-> o.read, failed |-> o.failed, since |-> o.since,
             overlap |-> o.overlap]
    BY <1>2, <2>1, OverlappedIs
  <2>3. signing'[q] = o  BY <1>2, <2>1
  <2>4. ~Unmixed(q)'  BY <2>2, <2>3 DEF Unmixed
  <2>5. SigningOK(q)'  BY <2>2, <2>3, <2>4 DEF SigningOK
  <2> QED  BY <1>2, <2>2, <2>3, <2>5
<1>3. CASE signing[q].pc # "sign"
  <2>1. signing'[q] = signing[q]  BY <1>3
  <2>2. ASSUME signing[q].pc = "write", ~crossed
        PROVE  \A f \in A!Field \ Left(signing[q].left) : fields'[f] = signing[q].set
    <3>1. \A f \in A!Field \ Left(signing[q].left) : fields[f] = signing[q].set
      BY <1>1, <2>2 DEF SigningOK
    <3>2. signing[q].set = signing[p].set  BY <2>2 DEF AInv, Writers
    <3> QED  BY <2>2, <3>1, <3>2
  <2>3. ASSUME signing[q].pc = "sent" PROVE Unmixed(q)' => ReadOne(q)'
    <3>1. Unmixed(q)' => ReadOne(q)  BY <1>1, <2>1, <2>3 DEF SigningOK, Unmixed
    <3> QED  BY <2>1, <2>3, <3>1 DEF ReadOne
  <2>4. SigningOK(q)'  BY <1>1, <1>3, <2>1, <2>2, <2>3 DEF SigningOK
  <2> QED  BY <2>1, <2>4
<1> QED  BY <1>2, <1>3

LEMMA WritesField == ASSUME AInv, NEW p \in Proc, A!WriteField(p) PROVE AInv'
<1>1. PICK r : r = signing[p]  OBVIOUS
<1>2. PICK t : t = Tail(r.left)  OBVIOUS
<1>3. PICK g : g = Head(r.left)  OBVIOUS
<1>4. PICK o : o = [pc |-> "write", set |-> r.set, since |-> r.since, left |-> t]  OBVIOUS
<1>5. /\ r.pc = "write" /\ r.left # <<>> /\ fields' = [fields EXCEPT ![g] = r.set]
      /\ UNCHANGED <<issued, credsExp, crossed, now>>
  BY <1>1, <1>3 DEF A!WriteField
<1>6. /\ r = [pc |-> "write", set |-> r.set, since |-> r.since, left |-> r.left]
      /\ r.set \in 0 .. Len(issued) /\ r.since \in Nat /\ now <= r.since + 1
      /\ r.set # A!Empty => r.since + CredBuffer <= issued[r.set]
      /\ r.left \in Lists
      /\ ~crossed => \A f \in A!Field \ Left(r.left) : fields[f] = r.set
  BY <1>1, <1>5, SigningFacts DEF SigningOK
<1>7. PICK s : s = [signing EXCEPT ![p] = o]  OBVIOUS
<1>8. s[p] = o /\ DOMAIN s = Proc /\ \A q \in Proc \ {p} : s[q] = signing[q]
  BY <1>7, SigningFacts
<1>9. signing' = [q \in Proc |-> IF s[q].pc = "sign" THEN [s[q] EXCEPT !.overlap = TRUE] ELSE s[q]]
  <2>1. [r EXCEPT !.left = t] = o  BY <1>4, <1>6
  <2>2. [signing EXCEPT ![p].left = Tail(@)] = [signing EXCEPT ![p] = [r EXCEPT !.left = t]]
    BY <1>1, <1>2
  <2>3. signing' = A!Overlapped([signing EXCEPT ![p].left = Tail(@)])  BY DEF A!WriteField
  <2>4. signing' = A!Overlapped(s)  BY <1>7, <2>1, <2>2, <2>3
  <2> QED  BY <2>4 DEF A!Overlapped
<1>10. /\ o.pc = "write" /\ o.set = r.set /\ o.since = r.since /\ o.left = t
       /\ o = [pc |-> "write", set |-> o.set, since |-> o.since, left |-> o.left]
  BY <1>4
<1>11. /\ signing' = [q \in Proc |-> signing'[q]] /\ signing'[p] = o
       /\ \A q \in Proc \ {p} :
             signing'[q] = IF signing[q].pc = "sign" THEN [signing[q] EXCEPT !.overlap = TRUE]
                           ELSE signing[q]
  BY <1>8, <1>9, <1>10
<1>12. /\ t \in Lists /\ g \in A!Field
       /\ A!Field \ Left(t) \subseteq (A!Field \ Left(r.left)) \cup {g}
  <2>1. CASE r.left = ASL  BY <1>2, <1>3, <2>1, ListsAre DEF A!Field
  <2>2. CASE r.left = SL  BY <1>2, <1>3, <2>2, ListsAre DEF A!Field
  <2>3. CASE r.left = TL  BY <1>2, <1>3, <2>3, ListsAre DEF A!Field
  <2> QED  BY <1>5, <1>6, <2>1, <2>2, <2>3, ListsAre
<1>13. /\ fields' \in [A!Field -> 0 .. Len(issued)]
       /\ fields'[g] = r.set /\ \A f \in A!Field \ {g} : fields'[f] = fields[f]
  BY <1>5, <1>6, <1>12, SigningFacts
<1>14. \A q \in Proc \ {p} : SigningOK(q)' /\ signing'[q].pc = signing[q].pc
                             /\ (signing[q].pc = "write" => signing'[q] = signing[q])
  <2>1. \A f \in A!Field : fields'[f] = fields[f] \/ fields'[f] = signing[p].set
    BY <1>1, <1>13
  <2> QED  BY <1>1, <1>5, <1>11, <2>1, Disturbed
<1>15. SigningOK(p)'
  <2>1. ~crossed => \A f \in A!Field \ Left(t) : fields'[f] = r.set  BY <1>6, <1>12, <1>13
  <2> QED  BY <1>5, <1>6, <1>10, <1>11, <1>12, <2>1 DEF SigningOK
<1>16. Writers' = Writers /\ p \in Writers
  BY <1>1, <1>5, <1>10, <1>11, <1>14 DEF Writers
<1>17. \A q \in Writers : signing'[q].set = signing[q].set
  BY <1>1, <1>10, <1>11, <1>14 DEF Writers
<1>18. A!TypeOK'
  <2>1. \A q \in Proc : signing'[q].pc \in {"idle", "get", "write", "sign", "sent"}
    BY <1>10, <1>11, <1>14, SigningFacts
  <2> QED  BY <1>5, <1>13, <2>1 DEF AInv, A!TypeOK
<1>19. ~crossed' => \A q1, q2 \in Writers' : signing'[q1].set = signing'[q2].set
  <2>1. ~crossed => \A q1, q2 \in Writers : signing[q1].set = signing[q2].set  BY DEF AInv
  <2> QED  BY <1>5, <1>16, <1>17, <2>1
<1>20. /\ issued' \in Seq(0 .. MaxUpkeepTime + CredLife) /\ now' \in 0 .. MaxUpkeepTime
       /\ now' + CredBuffer <= issued'[Len(issued')] /\ crossed' \in BOOLEAN
  BY <1>5 DEF AInv
<1>21. \A q \in Proc : SigningOK(q)'  BY <1>14, <1>15
<1> QED  BY <1>11, <1>16, <1>18, <1>19, <1>20, <1>21 DEF AInv

LEMMA WritesExpiry == ASSUME AInv, NEW p \in Proc, A!WriteExpiry(p) PROVE AInv'
<1>1. PICK r : r = signing[p]  OBVIOUS
<1>2. PICK failed \in BOOLEAN : failed = (r.set = A!Empty)  OBVIOUS
<1>3. PICK o : o = A!ToSign(p, failed, r.since)  OBVIOUS
<1>4. /\ r.pc = "write" /\ r.left = <<>> /\ credsExp' = IF r.set = A!Empty THEN credsExp
           ELSE issued[r.set]
      /\ signing' = [A!Overlapped(signing) EXCEPT ![p] = o]
      /\ UNCHANGED <<issued, fields, crossed, now>>
  BY <1>1, <1>2, <1>3 DEF A!WriteExpiry
<1>5. /\ r.set \in 0 .. Len(issued) /\ r.since \in Nat /\ now <= r.since + 1
      /\ r.set # A!Empty => r.since + CredBuffer <= issued[r.set]
      /\ ~crossed => \A f \in A!Field : fields[f] = r.set
  <2>1. Left(r.left) = {}  BY <1>4, ListsAre
  <2> QED  BY <1>1, <1>4, <2>1, SigningFacts DEF SigningOK
<1>6. /\ o.pc = "sign" /\ o.failed = failed /\ o.since = r.since /\ o.overlap \in BOOLEAN
      /\ o.overlap <=> (Writers \ {p} # {})
      /\ DOMAIN o.read = {}
      /\ o = [pc |-> o.pc, read |-> o.read, failed |-> o.failed, since |-> o.since,
           overlap |-> o.overlap]
  BY <1>3, ToSignIs
<1>7. /\ signing' = [q \in Proc |-> signing'[q]] /\ signing'[p] = o
      /\ \A q \in Proc \ {p} :
            signing'[q] = IF signing[q].pc = "sign" THEN [signing[q] EXCEPT !.overlap = TRUE]
                          ELSE signing[q]
  <2>1. DOMAIN signing = Proc  BY SigningFacts
  <2>2. PICK s : s = A!Overlapped(signing)  OBVIOUS
  <2>3. s = [q \in Proc |-> IF signing[q].pc = "sign" THEN [signing[q] EXCEPT !.overlap = TRUE]
                            ELSE signing[q]]
    BY <2>2 DEF A!Overlapped
  <2>4. signing' = [s EXCEPT ![p] = o]  BY <1>4, <2>2
  <2>5. DOMAIN s = Proc /\ \A q \in Proc :
            s[q] = IF signing[q].pc = "sign" THEN [signing[q] EXCEPT !.overlap = TRUE]
                ELSE signing[q]
    BY <2>3
  <2>6. signing' = [q \in Proc |-> signing'[q]] /\ signing'[p] = o
            /\ \A q \in Proc \ {p} : signing'[q] = s[q]
    BY <2>4, <2>5
  <2> QED  BY <2>5, <2>6
<1>8. \A q \in Proc \ {p} : SigningOK(q)' /\ signing'[q].pc = signing[q].pc
                            /\ (signing[q].pc = "write" => signing'[q] = signing[q])
  BY <1>1, <1>4, <1>7, Disturbed
<1>9. SigningOK(p)'
  <2>1. Unmixed(p)' => ReadOne(p)'
    <3> SUFFICES ASSUME Unmixed(p)' PROVE ReadOne(p)'  OBVIOUS
    <3>1. ~crossed /\ ~failed  BY <1>4, <1>6, <1>7 DEF Unmixed
    <3>2. r.set # A!Empty  BY <1>2, <3>1
    <3>3. r.set \in DOMAIN issued  BY <1>5, <3>2, SigningFacts DEF A!Empty
    <3>4. \A f \in A!Field : fields'[f] = r.set  BY <1>4, <1>5, <3>1
    <3> QED  BY <1>4, <1>5, <1>6, <1>7, <3>2, <3>3, <3>4 DEF ReadOne
  <2> QED  BY <1>4, <1>5, <1>6, <1>7, <2>1 DEF SigningOK
<1>10. Writers' = Writers \ {p} /\ Writers \subseteq Proc
  BY <1>6, <1>7, <1>8 DEF Writers
<1>11. \A q \in Writers \ {p} : signing'[q].set = signing[q].set
  BY <1>7, <1>8 DEF Writers
<1>12. A!TypeOK'
  <2>1. \A q \in Proc : signing'[q].pc \in {"idle", "get", "write", "sign", "sent"}
    BY <1>6, <1>7, <1>8, SigningFacts
  <2>2. credsExp' \in 0 .. MaxUpkeepTime + CredLife
    <3>1. r.set # A!Empty => issued[r.set] \in 0 .. MaxUpkeepTime + CredLife
      <4>1. r.set # A!Empty => r.set \in DOMAIN issued  BY <1>5, SigningFacts DEF A!Empty
      <4> QED  BY <4>1, SigningFacts
    <3> QED  BY <1>4, <3>1, SigningFacts
  <2> QED  BY <1>4, <2>1, <2>2 DEF AInv, A!TypeOK
<1>13. ~crossed' => \A q1, q2 \in Writers' : signing'[q1].set = signing'[q2].set
  <2>1. ~crossed => \A q1, q2 \in Writers : signing[q1].set = signing[q2].set  BY DEF AInv
  <2> QED  BY <1>4, <1>10, <1>11, <2>1
<1>14. ASSUME ~crossed'
       PROVE  \E set \in 0 .. Len(issued') :
                 /\ \A f \in A!Field : fields'[f] = set
                 /\ set # A!Empty => credsExp' = issued'[set]
  BY <1>4, <1>5, <1>14
<1>15. /\ issued' \in Seq(0 .. MaxUpkeepTime + CredLife) /\ now' \in 0 .. MaxUpkeepTime
       /\ now' + CredBuffer <= issued'[Len(issued')] /\ crossed' \in BOOLEAN
  BY <1>4 DEF AInv
<1>16. \A q \in Proc : SigningOK(q)'  BY <1>8, <1>9
<1> QED  BY <1>7, <1>12, <1>13, <1>14, <1>15, <1>16 DEF AInv

-----------------------------------------------------------------------------
\* Which field is read next.
LEMMA NextRead ==
    ASSUME NEW d \in {{}, {"Token"}, {"Token", "SecretKey"}}
    PROVE  LET f == A!Order[A!Cardinality(d) + 1]
           IN /\ f \in A!Field
              /\ f = "AccessKey" => d \cup {f} = A!Field
              /\ f # "AccessKey" => d \cup {f} \in {{}, {"Token"}, {"Token", "SecretKey"}}
<1>1. \A w : A!Cardinality(w) = Cardinality(w)  BY DEF A!Cardinality, Cardinality
<1>2. A!Order[1] = "Token" /\ A!Order[2] = "SecretKey" /\ A!Order[3] = "AccessKey"  BY DEF A!Order
<1>3. Cardinality({}) = 0  BY FS_EmptySet
<1>4. Cardinality({"Token"}) = 1  BY FS_Singleton
<1>5. Cardinality({"Token", "SecretKey"}) = 2
  <2>1. IsFiniteSet({"Token"})  BY FS_Singleton
  <2>2. {"Token", "SecretKey"} = {"Token"} \cup {"SecretKey"}
            /\ "SecretKey" \notin {"Token"}  OBVIOUS
  <2> QED  BY <1>4, <2>1, <2>2, FS_AddElement
<1>6. CASE d = {}  BY <1>1, <1>2, <1>3, <1>6 DEF A!Field
<1>7. CASE d = {"Token"}  BY <1>1, <1>2, <1>4, <1>7 DEF A!Field
<1>8. CASE d = {"Token", "SecretKey"}  BY <1>1, <1>2, <1>5, <1>8 DEF A!Field
<1> QED  BY <1>6, <1>7, <1>8

LEMMA Reads == ASSUME AInv, NEW p \in Proc, A!Read(p) PROVE AInv'
<1>1. PICK r : r = signing[p]  OBVIOUS
<1>2. PICK f : f = A!Order[A!Cardinality(DOMAIN r.read) + 1]  OBVIOUS
<1>3. PICK m : m = A!Put(r.read, f, fields[f])  OBVIOUS
<1>4. PICK pc : pc = IF f = "AccessKey" THEN "sent" ELSE "sign"  OBVIOUS
<1>5. PICK o : o = [pc |-> pc, read |-> m, failed |-> r.failed, since |-> r.since,
               overlap |-> r.overlap]
  OBVIOUS
<1>6. /\ r.pc = "sign" /\ signing' = [signing EXCEPT ![p] = o]
      /\ UNCHANGED <<issued, fields, credsExp, crossed, now>>
  BY <1>1, <1>2, <1>3, <1>4, <1>5 DEF A!Read
<1>7. /\ r.failed \in BOOLEAN /\ r.overlap \in BOOLEAN
      /\ r.since \in Nat /\ now <= r.since + 1
      /\ DOMAIN r.read \in {{}, {"Token"}, {"Token", "SecretKey"}}
      /\ Unmixed(p) => ReadOne(p)
  BY <1>1, <1>6, SigningFacts DEF SigningOK
<1>8. /\ o.pc = pc /\ o.read = m /\ o.failed = r.failed /\ o.since = r.since
           /\ o.overlap = r.overlap
      /\ o = [pc |-> o.pc, read |-> o.read, failed |-> o.failed, since |-> o.since,
           overlap |-> o.overlap]
  BY <1>5
<1>9. signing'[p] = o  BY <1>6, SigningFacts
<1>10. /\ f \in A!Field
       /\ f = "AccessKey" => DOMAIN r.read \cup {f} = A!Field
       /\ f # "AccessKey" => DOMAIN r.read \cup {f} \in {{}, {"Token"}, {"Token", "SecretKey"}}
  BY <1>2, <1>7, NextRead
<1>11. DOMAIN m = DOMAIN r.read \cup {f} /\ \A g \in DOMAIN m : m[g] =
           IF g = f THEN fields[f] ELSE r.read[g]
  BY <1>3 DEF A!Put
<1>12. Unmixed(p)' => ReadOne(p)'
  <2> SUFFICES ASSUME Unmixed(p)' PROVE ReadOne(p)'  OBVIOUS
  <2>1. Unmixed(p)  BY <1>1, <1>6, <1>8, <1>9 DEF Unmixed
  <2>2. PICK set \in DOMAIN issued :
          /\ r.since + CredBuffer <= issued[set]
          /\ \A g \in DOMAIN r.read : r.read[g] = set
          /\ \A g \in A!Field : fields[g] = set
    BY <1>1, <1>6, <1>7, <2>1 DEF ReadOne
  <2>3. \A g \in DOMAIN m : m[g] = set  BY <1>10, <1>11, <2>2
  <2> QED  BY <1>6, <1>8, <1>9, <2>2, <2>3 DEF ReadOne
<1>13. pc \in {"sign", "sent"} /\ (pc = "sent" <=> f = "AccessKey")  BY <1>4
<1>14. SigningOK(p)'
  BY <1>6, <1>7, <1>8, <1>9, <1>10, <1>11, <1>12, <1>13 DEF SigningOK
<1> QED  BY <1>1, <1>6, <1>8, <1>13, <1>14, SigningFacts, PlaceMoves

LEMMA SigningEnds == ASSUME AInv, NEW p \in Proc, A!Done(p) PROVE AInv'
<1>1. /\ signing[p].pc = "sent" /\ signing' = [signing EXCEPT ![p] = A!Idle]
      /\ UNCHANGED <<issued, fields, credsExp, crossed, now>>
  BY DEF A!Done
<1>2. signing'[p] = A!Idle  BY <1>1, SigningFacts
<1>3. SigningOK(p)'  BY <1>2, SigningIdle DEF SigningOK
<1> QED  BY <1>1, <1>3, SigningIdle, SigningFacts, PlaceMoves

\* The service and the clock.
LEMMA Issues == ASSUME AInv, A!Issue PROVE AInv'
<1>1. PICK e : e = now + CredLife  OBVIOUS
<1>2. PICK n \in Nat : n = Len(issued)  BY SigningFacts
<1>3. /\ n < MaxIssues /\ issued' = Append(issued, e)
      /\ UNCHANGED <<fields, credsExp, signing, crossed, now>>
  BY <1>1, <1>2 DEF A!Issue
<1>4. e \in 0 .. MaxUpkeepTime + CredLife /\ now + CredBuffer <= e  BY <1>1, SigningFacts
<1>5. /\ issued' \in Seq(0 .. MaxUpkeepTime + CredLife) /\ Len(issued') = n + 1
           /\ issued'[n + 1] = e
      /\ DOMAIN issued' = 1 .. n + 1 /\ DOMAIN issued = 1 .. n
      /\ \A set \in 1 .. n : issued'[set] = issued[set]
  BY <1>2, <1>3, <1>4, SigningFacts
<1>6. /\ 0 .. n \subseteq 0 .. n + 1 /\ 1 .. n \subseteq 1 .. n + 1
      /\ \A set \in 0 .. n : set # 0 => set \in 1 .. n
  BY <1>2
<1>7. ASSUME NEW p \in Proc PROVE SigningOK(p)'
  <2>1. SigningOK(p) /\ (Unmixed(p)' <=> Unmixed(p))  BY <1>3, SigningFacts DEF Unmixed
  <2>2. ReadOne(p) => ReadOne(p)'  BY <1>3, <1>5, <1>6 DEF ReadOne
  <2>3. \A set \in 0 .. n : set # A!Empty => issued'[set] = issued[set]  BY <1>5, <1>6 DEF A!Empty
  <2> QED  BY <1>2, <1>3, <1>5, <1>6, <2>1, <2>2, <2>3 DEF SigningOK
<1>8. A!TypeOK'
  <2>1. Len(issued') \in 1 .. MaxIssues  BY <1>2, <1>3, <1>5, SigningFacts
  <2>2. fields' \in [A!Field -> 0 .. n + 1]  BY <1>2, <1>3, <1>6, SigningFacts
  <2> QED  BY <1>3, <1>5, <2>1, <2>2 DEF AInv, A!TypeOK
<1>9. Writers' = Writers  BY <1>3 DEF Writers
<1>10. ASSUME ~crossed', Writers' = {}
       PROVE  \E set \in 0 .. Len(issued') :
                  /\ \A f \in A!Field : fields'[f] = set
                  /\ set # A!Empty => credsExp' = issued'[set]
  <2>1. PICK set \in 0 .. n : /\ \A f \in A!Field : fields[f] = set
                              /\ set # A!Empty => credsExp = issued[set]
    BY <1>2, <1>3, <1>9, <1>10 DEF AInv
  <2>2. set \in 0 .. Len(issued') /\ (set # A!Empty => issued'[set] = issued[set])
    BY <1>5, <1>6 DEF A!Empty
  <2> QED  BY <1>3, <2>1, <2>2
<1>11. now' + CredBuffer <= issued'[Len(issued')]  BY <1>3, <1>4, <1>5
<1> QED  BY <1>3, <1>5, <1>7, <1>8, <1>9, <1>10, <1>11 DEF AInv

LEMMA SigningTicks == ASSUME AInv, A!Tick PROVE AInv'
<1>1. /\ now < MaxUpkeepTime /\ now + CredBuffer < issued[Len(issued)] /\ now' = now + 1
      /\ \A p \in Proc : signing[p].pc \in {"write", "sign"} => signing[p].since = now
      /\ \A p \in Proc : signing[p].pc # "sent"
      /\ UNCHANGED <<issued, fields, credsExp, signing, crossed>>
  BY DEF A!Tick
<1>2. /\ now' \in 0 .. MaxUpkeepTime /\ now' + CredBuffer <= issued'[Len(issued')]
  <2>1. issued[Len(issued)] \in Nat  BY SigningFacts
  <2> QED  BY <1>1, <2>1, SigningFacts
<1>3. ASSUME NEW p \in Proc PROVE SigningOK(p)'
  <2>1. SigningOK(p) /\ (Unmixed(p)' <=> Unmixed(p)) /\ (ReadOne(p)' <=> ReadOne(p))
    BY <1>1, SigningFacts DEF Unmixed, ReadOne
  <2>2. signing[p].pc \in {"write", "sign"} => now' <= signing[p].since + 1
    <3>1. now + 1 <= now + 1  BY SigningFacts
    <3> QED  BY <1>1, <3>1
  <2> QED  BY <1>1, <2>1, <2>2 DEF SigningOK
<1>4. A!TypeOK'  BY <1>1 DEF AInv, A!TypeOK
<1>5. Writers' = Writers  BY <1>1 DEF Writers
<1> QED  BY <1>1, <1>2, <1>3, <1>4, <1>5 DEF AInv

LEMMA AWSStep == ASSUME AInv, A!Next PROVE AInv'
  BY RoundTrips, Fetches, FetchFailing, WritesField, WritesExpiry, Reads, SigningEnds, Issues,
     SigningTicks
     DEF A!Next

\* A request that was sent has read one set, and a tick is less than the buffer.
LEMMA SignedWhole == ASSUME AInv PROVE A!SignedWithOneSet
<1>1. ASSUME NEW p \in Proc, signing[p].pc = "sent", ~signing[p].failed, ~signing[p].overlap,
                 ~crossed
      PROVE  \E set \in DOMAIN issued : now < issued[set]
                 /\ \A f \in A!Field : signing[p].read[f] = set
  <2>1. /\ ReadOne(p) /\ DOMAIN signing[p].read = A!Field
        /\ signing[p].since \in Nat /\ now <= signing[p].since + 1
    BY <1>1, SigningFacts DEF SigningOK, Unmixed
  <2>2. PICK set \in DOMAIN issued :
          /\ signing[p].since + CredBuffer <= issued[set]
          /\ \A f \in DOMAIN signing[p].read : signing[p].read[f] = set
    BY <2>1 DEF ReadOne
  <2>3. issued[set] \in Nat /\ now \in Nat /\ CredBuffer \in Nat /\ CredBuffer >= 2  BY SigningFacts
  <2>4. now < issued[set]  BY <2>1, <2>2, <2>3
  <2> QED  BY <2>1, <2>2, <2>4
<1> QED  BY <1>1 DEF A!SignedWithOneSet

-----------------------------------------------------------------------------
(* SDKClient: the access token the Go client keeps. *)

SInv ==
    /\ S!TypeOK
    /\ doing = [p \in Proc |-> doing[p]]
    /\ tokenLock # S!Free =>
          /\ tokenLock.by \in Proc
          /\ tokenLock.pc = "answer" => tokenLock.issued \in S!Time /\ tokenLock.issued <= now
    /\ token # S!NoToken => token.issued <= token.got /\ token.got <= now
    /\ \A p \in Proc :
          doing[p].pc \in {"send", "arrived"} =>
             LET c == doing[p]
             IN /\ c = [pc |-> c.pc, token |-> c.token, since |-> c.since]
                /\ c.token \in S!Token /\ c.since \in Nat
                /\ c.since = c.token.got \/ c.since < c.token.got + TokenLife - Margin
    /\ S!ValidOnArrival

LEMMA ClientInit == ASSUME S!Init PROVE SInv
  BY UpkeepAssumption
  DEF S!Init, SInv, S!TypeOK, S!Free, S!Idle, S!Time, S!NoToken, S!ValidOnArrival

\* A token that is sent was good when the request took it.
LEMMA ClientStep == ASSUME SInv, S!Next PROVE SInv'
<1> USE DEF SInv, S!Free, S!Idle
<1>a. /\ MaxUpkeepTime \in Nat /\ TokenLife \in Nat /\ Margin \in Nat
      /\ now \in 0 .. MaxUpkeepTime
  BY UpkeepAssumption DEF S!TypeOK, S!Time
<1>1. ASSUME NEW p \in Proc, S!Do(p) PROVE SInv'
  BY <1>1, <1>a DEF S!Do, S!TypeOK, S!ValidOnArrival
<1>2. ASSUME NEW p \in Proc, S!GetToken(p) PROVE SInv'
  <2>1. CASE S!Valid
    <3>1. doing' = [doing EXCEPT ![p] = [pc |-> "send", token |-> token, since |-> now]]
      BY <1>2, <2>1 DEF S!GetToken, S!Send
    <3>2. token \in S!Token /\ now < token.got + TokenLife - Margin
      BY <2>1 DEF S!Valid, S!TypeOK
    <3>3. UNCHANGED <<token, tokenLock, now>>  BY <1>2, <2>1 DEF S!GetToken
    <3>4. \A q \in Proc : doing'[q] =
              IF q = p THEN [pc |-> "send", token |-> token, since |-> now] ELSE doing[q]
      BY <3>1
    <3> QED  BY <3>1, <3>2, <3>3, <3>4, <1>a DEF S!TypeOK, S!ValidOnArrival, S!Time
  <2>2. CASE ~S!Valid
    BY <1>2, <2>2, <1>a DEF S!GetToken, S!TypeOK, S!ValidOnArrival
  <2> QED  BY <2>1, <2>2
<1>3. CASE S!Issue
  BY <1>3, <1>a DEF S!Issue, S!TypeOK, S!ValidOnArrival, S!Time
<1>4. CASE S!Answer
  <2>1. PICK t : t = [issued |-> tokenLock.issued, got |-> now]  OBVIOUS
  <2>2. t \in S!Token /\ t.got = now /\ t.issued <= now
    BY <1>4, <2>1, <1>a DEF S!Answer, S!Time, S!Token
  <2>3. PICK p \in Proc : p = tokenLock.by  BY <1>4 DEF S!Answer
  <2>4. /\ doing' = [doing EXCEPT ![p] = [pc |-> "send", token |-> t, since |-> now]]
        /\ token' = t /\ tokenLock' = S!Free /\ now' = now
    BY <1>4, <2>1, <2>3 DEF S!Answer, S!Send
  <2>5. \A q \in Proc : doing'[q] =
            IF q = p THEN [pc |-> "send", token |-> t, since |-> now] ELSE doing[q]
    BY <2>4
  <2> QED  BY <2>2, <2>4, <2>5, <1>a DEF S!TypeOK, S!ValidOnArrival, S!Time
<1>5. CASE S!Fail
  BY <1>5, <1>a DEF S!Fail, S!TypeOK, S!ValidOnArrival
<1>6. ASSUME NEW p \in Proc, S!Arrive(p) PROVE SInv'
  <2>1. PICK c : c = doing[p]  OBVIOUS
  <2>2. /\ c.token \in S!Token /\ c.since \in Nat
        /\ c.since = c.token.got \/ c.since < c.token.got + TokenLife - Margin
        /\ c = [pc |-> "send", token |-> c.token, since |-> c.since]
    BY <1>6, <2>1 DEF S!Arrive
  <2>3. \A q \in Proc : doing'[q] =
            IF q = p THEN [pc |-> "arrived", token |-> c.token, since |-> c.since] ELSE doing[q]
    BY <1>6, <2>1, <2>2 DEF S!Arrive
  <2>4. UNCHANGED <<token, tokenLock, now>> /\ doing' = [q \in Proc |-> doing'[q]]
    BY <1>6 DEF S!Arrive
  <2>5. c.token.issued \in Nat /\ c.token.got \in Nat
    BY <2>2, <1>a DEF S!Token, S!Time
  <2>6. ASSUME (c.token.got - c.token.issued) + (now - c.since) <= Margin,
               (c.token.got - c.token.issued) + (now - c.since) < TokenLife
        PROVE  now < c.token.issued + TokenLife
    BY <2>2, <2>5, <2>6, <1>a
  <2>7. S!ValidOnArrival'
    BY <2>3, <2>4, <2>6 DEF S!ValidOnArrival
  <2> QED  BY <2>2, <2>3, <2>4, <2>7 DEF S!TypeOK
<1>7. ASSUME NEW p \in Proc, S!Return(p) PROVE SInv'
  BY <1>7, <1>a DEF S!Return, S!TypeOK, S!ValidOnArrival
<1>8. CASE S!Tick
  BY <1>8, <1>a DEF S!Tick, S!TypeOK, S!ValidOnArrival, S!Time, S!NoToken, S!Token
<1> QED  BY <1>1, <1>2, <1>3, <1>4, <1>5, <1>6, <1>7, <1>8 DEF S!Next

-----------------------------------------------------------------------------
(* CLIConfig: the file of the command line client. *)

ConfigType == [secret : BOOLEAN, token : C!Time \cup {C!None}]

CInv ==
    /\ C!TypeOK
    /\ config \in ConfigType /\ now \in C!Time /\ loggedOut \in BOOLEAN /\ raced \in BOOLEAN
    /\ run = [p \in Proc |-> run[p]]
    /\ \A p \in Proc :
          LET r == run[p]
          IN r # C!Idle =>
             /\ r.pc # "idle"
             /\ r = [pc |-> r.pc, cmd |-> r.cmd, cfg |-> r.cfg]
             /\ r.cmd \in C!Command /\ r.cfg \in ConfigType
             /\ r.cmd = "logout" => r.pc # "request"
             /\ r.cmd = "logout" /\ r.pc \in {"save", "write"} => r.cfg = C!Empty
    /\ loggedOut /\ ~raced =>
          /\ config = C!Empty
          /\ \A p \in Proc :
                run[p].pc \in {"start", "request", "save", "write"} /\ run[p].cmd = "use" =>
                    run[p].pc = "start" /\ run[p].cfg = C!Empty

LEMMA CommandInit == ASSUME C!Init PROVE CInv
<1>1. MaxUpkeepTime \in Nat  BY UpkeepAssumption
<1>2. C!Empty \in ConfigType /\ C!Empty.secret \in BOOLEAN /\ C!Empty.token \in C!Time \cup {C!None}
  BY DEF C!Empty, ConfigType
<1>3. config = C!Empty /\ now \in C!Time
  BY <1>1 DEF C!Init, C!Time
<1>5. loggedOut = FALSE /\ raced = FALSE  BY DEF C!Init
<1>6. loggedOut \in BOOLEAN /\ raced \in BOOLEAN  BY <1>5
<1>4. run = [p \in Proc |-> C!Idle]  BY DEF C!Init
<1> QED  BY <1>2, <1>3, <1>4, <1>5, <1>6 DEF CInv, C!TypeOK, C!Idle

\* After a logout commands find an empty file, and have nothing to write back.
LEMMA CommandStep == ASSUME CInv, C!Next PROVE CInv'
<1> USE DEF CInv, C!TypeOK, ConfigType
<1>a. MaxUpkeepTime \in Nat /\ TokenLife \in Nat /\ Margin \in Nat
      /\ now \in 0 .. MaxUpkeepTime
  BY UpkeepAssumption DEF C!Time
<1>b. C!Empty \in ConfigType  BY DEF C!Empty
<1>1. ASSUME NEW p \in Proc, NEW cmd \in C!Command, C!Start(p, cmd) PROVE CInv'
  <2>1. \A q \in Proc : run'[q] =
            IF q = p THEN [pc |-> "start", cmd |-> cmd, cfg |-> config] ELSE run[q]
    BY <1>1 DEF C!Start, C!To
  <2> QED  BY <1>1, <2>1 DEF C!Start, C!To, C!Idle, C!Empty
<1>2. ASSUME NEW p \in Proc, C!Act(p) PROVE CInv'
  <2>1. PICK r : r = run[p]  OBVIOUS
  <2>2. /\ r.pc = "start" /\ r = [pc |-> r.pc, cmd |-> r.cmd, cfg |-> r.cfg]
        /\ r.cmd \in C!Command /\ r.cfg \in ConfigType
    BY <1>2, <2>1 DEF C!Act, C!Idle
  <2>3. UNCHANGED <<config, loggedOut, raced, now>> /\ run' = [q \in Proc |-> run'[q]]
    BY <1>2 DEF C!Act, C!To
  <2>4. CASE r.cmd = "logout"
    <3>1. \A q \in Proc : run'[q] =
              IF q = p THEN [pc |-> "save", cmd |-> "logout", cfg |-> C!Empty] ELSE run[q]
      BY <1>2, <2>1, <2>2, <2>4 DEF C!Act, C!To, C!Cleared
    <3> QED  BY <2>1, <2>2, <2>3, <3>1, <1>b DEF C!Idle, C!Command
  <2>5. CASE r.cmd = "login"
    <3>1. \A q \in Proc : run'[q] =
              IF q = p THEN [pc |-> "request", cmd |-> "login", cfg |-> r.cfg] ELSE run[q]
      BY <1>2, <2>1, <2>2, <2>5 DEF C!Act, C!To
    <3> QED  BY <2>1, <2>2, <2>3, <3>1 DEF C!Idle, C!Command
  <2>6. CASE r.cmd = "use" /\ ~C!Valid(r.cfg) /\ r.cfg.secret
    <3>1. \A q \in Proc : run'[q] =
              IF q = p THEN [pc |-> "request", cmd |-> "use", cfg |-> r.cfg] ELSE run[q]
      BY <1>2, <2>1, <2>2, <2>6 DEF C!Act, C!To
    <3>2. loggedOut /\ ~raced => FALSE
      BY <2>1, <2>2, <2>6 DEF C!Empty
    <3> QED  BY <2>1, <2>2, <2>3, <3>1, <3>2 DEF C!Idle, C!Command
  <2>7. CASE r.cmd = "use" /\ ~(~C!Valid(r.cfg) /\ r.cfg.secret)
    <3>1. \A q \in Proc : run'[q] =
              IF q = p THEN [pc |-> "send", cmd |-> "use", cfg |-> r.cfg] ELSE run[q]
      BY <1>2, <2>1, <2>2, <2>7 DEF C!Act, C!To
    <3> QED  BY <2>1, <2>2, <2>3, <3>1 DEF C!Idle, C!Command
  <2> QED  BY <2>2, <2>4, <2>5, <2>6, <2>7 DEF C!Command
<1>3. ASSUME NEW p \in Proc, C!Answer(p) PROVE CInv'
  <2>1. PICK r : r = run[p]  OBVIOUS
  <2>2. /\ r.pc = "request" /\ r = [pc |-> r.pc, cmd |-> r.cmd, cfg |-> r.cfg]
        /\ r.cmd \in C!Command \ {"logout"}
    BY <1>3, <2>1 DEF C!Answer, C!Idle
  <2>3. \A q \in Proc : run'[q] =
            IF q = p THEN [pc |-> "save", cmd |-> r.cmd, cfg |-> [secret |-> TRUE, token |-> now]]
                                           ELSE run[q]
    BY <1>3, <2>1 DEF C!Answer, C!To
  <2>4. [secret |-> TRUE, token |-> now] \in ConfigType  BY <1>a DEF C!Time
  <2>5. UNCHANGED <<config, loggedOut, raced, now>> /\ run' = [q \in Proc |-> run'[q]]
    BY <1>3 DEF C!Answer, C!To
  <2>6. PICK new : new = [secret |-> TRUE, token |-> now]  OBVIOUS
  <2>7. \A q \in Proc : run'[q] = IF q = p THEN [pc |-> "save", cmd |-> r.cmd, cfg |-> new]
            ELSE run[q]
    BY <2>3, <2>6
  <2>8. new \in ConfigType  BY <2>4, <2>6
  <2> QED  BY <2>1, <2>2, <2>5, <2>7, <2>8 DEF C!Idle, C!Command
<1>4. ASSUME NEW p \in Proc, C!NoAnswer(p) PROVE CInv'
  <2>1. PICK r : r = run[p]  OBVIOUS
  <2>2. /\ r.pc = "request" /\ r = [pc |-> r.pc, cmd |-> r.cmd, cfg |-> r.cfg]
        /\ r.cmd \in C!Command /\ r.cfg \in ConfigType
    BY <1>4, <2>1 DEF C!NoAnswer, C!Idle
  <2>3. \A q \in Proc : run'[q] = IF q = p THEN
            IF r.cmd = "use" THEN [pc |-> "send", cmd |-> r.cmd, cfg |-> r.cfg] ELSE C!Idle
                                           ELSE run[q]
    BY <1>4, <2>1, <2>2 DEF C!NoAnswer, C!To
  <2>4. UNCHANGED <<config, loggedOut, raced, now>> /\ run' = [q \in Proc |-> run'[q]]
    BY <1>4 DEF C!NoAnswer, C!To
  <2> QED  BY <2>1, <2>2, <2>3, <2>4 DEF C!Idle, C!Command
<1>5. ASSUME NEW p \in Proc, C!Truncate(p) PROVE CInv'
  <2>1. PICK r : r = run[p]  OBVIOUS
  <2>2. /\ r.pc = "save" /\ r = [pc |-> r.pc, cmd |-> r.cmd, cfg |-> r.cfg]
        /\ r.cmd \in C!Command /\ r.cfg \in ConfigType
        /\ r.cmd = "logout" => r.cfg = C!Empty
    BY <1>5, <2>1 DEF C!Truncate, C!Idle
  <2>3. \A q \in Proc : run'[q] =
            IF q = p THEN [pc |-> "write", cmd |-> r.cmd, cfg |-> r.cfg] ELSE run[q]
    BY <1>5, <2>1, <2>2 DEF C!Truncate, C!To
  <2>4. config' = C!Empty /\ UNCHANGED <<loggedOut, raced, now>> /\ run' = [q \in Proc |-> run'[q]]
    BY <1>5 DEF C!Truncate, C!To
  <2>5. config'.secret \in BOOLEAN /\ config'.token \in C!Time \cup {C!None}
            /\ config' \in ConfigType
    BY <2>4 DEF C!Empty
  <2> QED  BY <2>1, <2>2, <2>3, <2>4, <2>5 DEF C!Idle, C!Command
<1>6. ASSUME NEW p \in Proc, C!Write(p) PROVE CInv'
  <2>1. PICK r : r = run[p]  OBVIOUS
  <2>2. /\ r.pc = "write" /\ r = [pc |-> r.pc, cmd |-> r.cmd, cfg |-> r.cfg]
        /\ r.cmd \in C!Command /\ r.cfg \in ConfigType
        /\ r.cmd = "logout" => r.cfg = C!Empty
    BY <1>6, <2>1 DEF C!Write, C!Idle
  <2>3. \A q \in Proc : run'[q] = IF q = p THEN
            IF r.cmd = "use" THEN [pc |-> "send", cmd |-> r.cmd, cfg |-> r.cfg] ELSE C!Idle
                                           ELSE run[q]
    BY <1>6, <2>1, <2>2 DEF C!Write, C!To
  <2>4. /\ config' = r.cfg /\ now' = now /\ run' = [q \in Proc |-> run'[q]]
        /\ IF r.cmd = "use" THEN UNCHANGED <<loggedOut, raced>>
           ELSE /\ loggedOut' = (r.cmd = "logout")
                /\ raced' = \E q \in Proc \ {p} : run[q].pc \notin {"idle", "send"}
    BY <1>6, <2>1 DEF C!Write, C!To
  <2>5. config' \in ConfigType /\ config'.secret \in BOOLEAN
            /\ config'.token \in C!Time \cup {C!None}
    BY <2>2, <2>4
  <2>6. loggedOut' \in BOOLEAN /\ raced' \in BOOLEAN
    BY <2>4
  <2>7. \A q \in Proc : LET o == run'[q]
          IN o # C!Idle =>
             /\ o.pc \in {"start", "request", "save", "write", "send"}
             /\ o = [pc |-> o.pc, cmd |-> o.cmd, cfg |-> o.cfg]
             /\ o.cmd \in C!Command /\ o.cfg \in ConfigType
             /\ o.cmd = "logout" => o.pc # "request"
             /\ o.cmd = "logout" /\ o.pc \in {"save", "write"} => o.cfg = C!Empty
    BY <2>2, <2>3 DEF C!Idle
  <2>8. ASSUME loggedOut', ~raced'
        PROVE /\ config' = C!Empty
              /\ \A q \in Proc : run'[q].pc \in {"start", "request", "save", "write"}
                   /\ run'[q].cmd = "use" =>
                    run'[q].pc = "start" /\ run'[q].cfg = C!Empty
    <3>1. CASE r.cmd = "use"  BY <2>1, <2>2, <2>4, <2>8, <3>1
    <3>2. CASE r.cmd = "login"  BY <2>4, <2>8, <3>2
    <3>3. CASE r.cmd = "logout"  BY <2>2, <2>3, <2>4, <2>8, <3>3 DEF C!Idle
    <3> QED  BY <2>2, <3>1, <3>2, <3>3 DEF C!Command
  <2> QED  BY <2>4, <2>5, <2>6, <2>7, <2>8 DEF C!Idle
<1>7. ASSUME NEW p \in Proc, C!Send(p) \/ C!Kill(p) PROVE CInv'
  BY <1>7 DEF C!Send, C!Kill, C!To, C!Idle
<1>8. CASE C!Tick
  BY <1>8, <1>a DEF C!Tick, C!Time
<1> QED  BY <1>1, <1>2, <1>3, <1>4, <1>5, <1>6, <1>7, <1>8 DEF C!Next

-----------------------------------------------------------------------------
(* The parts side by side. *)

IInv ==
    /\ part = "registry" => RInv
    /\ part = "store" => FInv
    /\ part = "notifier" => NInv
    /\ part = "log" => LInv
    /\ part = "export" => XInv
    /\ part = "tls" => TInv
    /\ part = "aws" => AInv
    /\ part = "sdk" => SInv
    /\ part = "cli" => CInv

LEMMA Starts == Init => IInv
  BY RegistryInit, StoreInit, NotifierInit, LogInit, ExportInit, CertificateInit, AWSInit,
     ClientInit, CommandInit
  DEF Init, IInv

\* A part rests when nothing it reads changes.
LEMMA RegistryRests == ASSUME RInv, UNCHANGED registry PROVE RInv'
  <1>1. RTables'
    BY DEF registry, RInv, RTables
  <1>2. (\A p \in Proc : RequestOK(p))'
    BY DEF registry, RInv, RequestOK
  <1>3. (faults.corruptions = 0 => OnDisk)'
    BY DEF registry, RInv, OnDisk, Kept, Pending, Saving, R!Recoverable, R!Answered
  <1>4. QED
    BY <1>1, <1>2, <1>3 DEF RInv

LEMMA StoreRests == ASSUME FInv, UNCHANGED store PROVE FInv'
  BY DEF store, FInv, CallOK, F!TypeOK, F!AnsweredIsOnDisk

LEMMA NotifierRests == ASSUME NInv, UNCHANGED notifier PROVE NInv'
  BY DEF notifier, NInv, Senders, Gone, N!TypeOK, N!AttemptedOnceInOrder

LEMMA LogRests == ASSUME LInv, UNCHANGED log PROVE LInv'
  BY DEF log, LInv, L!TypeOK

LEMMA ExportRests == ASSUME XInv, UNCHANGED export PROVE XInv'
  BY DEF export, XInv, ExportTypes, BatchesApart, ObjectsApart, Somewhere, Uploading, Buffered

LEMMA CertificateRests == ASSUME TInv, UNCHANGED tls PROVE TInv'
  BY DEF tls, TInv, T!TypeOK

LEMMA AWSRests == ASSUME AInv, UNCHANGED <<aws, now>> PROVE AInv'
  <1>1. (\A p \in Proc : SigningOK(p))'
    BY DEF aws, AInv, SigningOK, Unmixed, ReadOne
  <1>2. Writers' = Writers
    BY DEF aws, Writers
  <1>3. QED
    BY <1>1, <1>2 DEF aws, AInv, A!TypeOK

LEMMA ClientRests == ASSUME SInv, UNCHANGED <<sdk, now>> PROVE SInv'
  BY DEF sdk, SInv, S!TypeOK, S!ValidOnArrival

LEMMA CommandRests == ASSUME CInv, UNCHANGED <<cli, now>> PROVE CInv'
  BY DEF cli, CInv, C!TypeOK, C!Time

\* A step is one of the part that runs.
LEMMA StepIs ==
    ASSUME Next
    PROVE  /\ part' = part
           /\ part = "registry" => R!Next
           /\ part = "store" => F!Next
           /\ part = "notifier" => N!Next
           /\ part = "log" => L!Next
           /\ part = "export" => X!Next
           /\ part = "tls" => T!Next
           /\ part = "aws" => A!Next
           /\ part = "sdk" => S!Next
           /\ part = "cli" => C!Next
  BY DEF Next, Registry, Store, Webhooks, Audit, Export, Certificate, AWS, SDK, CLI

LEMMA Steps == IInv /\ [Next]_vars => IInv'
  <1> SUFFICES ASSUME IInv, [Next]_vars PROVE IInv'
    OBVIOUS
  <1>1. CASE Next
    BY <1>1, StepIs, RegistryStep, StoreStep, NotifierStep, LogStep, ExportStep, CertificateStep,
       AWSStep, ClientStep, CommandStep
    DEF IInv
  <1>2. CASE UNCHANGED vars
    <2>1. UNCHANGED <<part, registry, store, notifier, log, export, tls, aws, sdk, cli, now>>
      BY <1>2 DEF vars, files, events, credentials
    <2>2. QED
      BY <2>1, RegistryRests, StoreRests, NotifierRests, LogRests, ExportRests, CertificateRests,
         AWSRests, ClientRests, CommandRests
      DEF IInv
  <1>3. QED
    BY <1>1, <1>2

LEMMA Invariance == Spec => []IInv
  BY Starts, Steps, PTL DEF Spec

\* Type correctness of every part.
THEOREM TypeCorrect == Spec => []TypeOK
  <1>1. XInv => X!TypeOK
    BY DEF XInv, ExportTypes, Buffered, X!TypeOK
  <1>2. IInv => TypeOK
    BY <1>1, RegistryTypeOK DEF IInv, TypeOK, FInv, NInv, LInv, TInv, AInv, SInv, CInv
  <1>3. QED
    BY <1>2, Invariance, PTL

\* A client whose registration was answered can be read back from disk, as the
\* token manager has it once its requests are done, however saves overlap or are
\* cut short by the end of the process, unless a save has failed since or a file
\* was damaged (registerAndSave, Save, NewClientStore); and what a tenant's store
\* has answered for is in its file, unless a later change of the key failed or
\* is on its way (Set, Delete, flush).
THEOREM AnsweredIsDurable == Spec => []AnsweredIsOnDisk
  <1>1. IInv => AnsweredIsOnDisk
    BY DurableNow DEF IInv, AnsweredIsOnDisk, FInv
  <1>2. QED
    BY <1>1, Invariance, PTL

\* No save, whether it succeeds, fails or is cut off, and no restart takes a
\* client from what can be read back from disk, as long as no file was damaged:
\* the client file and its backup together never forget (Save, NewClientStore).
THEOREM NeverForgets == Spec => DiskNeverForgets
  <1>1. IInv /\ [Next]_vars => [part = "registry" => R!KeepsClients]_vars
    BY StepIs, RegistryKeeps DEF IInv
  <1>2. QED
    BY <1>1, Invariance, PTL DEF Spec, DiskNeverForgets

\* An event in the channel is posted once to every webhook, in order, and all
\* are when drain ends (Emit, drain, Stop); a query returns the newest entries
\* that match without a gap, and no entry is in the file twice (Write, Query);
\* each entry of the export is in one place, whoever flushes beside whom (Flush).
THEOREM HandedOver == Spec => []HandedOverOnce
  <1>1. IInv => HandedOverOnce
    BY LogGaps, ExportOnce DEF IInv, HandedOverOnce, NInv
  <1>2. QED
    BY <1>1, Invariance, PTL

\* A request is signed with one whole set of container credentials that has
\* not expired, unless another request wrote the fields meanwhile, its own
\* refresh failed, or two had crossed (RoundTrip, refreshContainerCreds); the Go
\* client's token lives when the request that carries it arrives (Token); and a
\* logout leaves neither secret nor token, unless another command had read the
\* file before (cmdLogout, save).
THEOREM CredentialsHold == Spec => []KeptCredentialsHold
  <1>1. CInv => C!LogoutHolds
    BY DEF CInv, C!LogoutHolds
  <1>2. IInv => KeptCredentialsHold
    BY <1>1, SignedWhole DEF IInv, KeptCredentialsHold, SInv
  <1>3. QED
    BY <1>2, Invariance, PTL
=============================================================================
