------------------------------ MODULE Settings ------------------------------
(***************************************************************************)
(* The settings an operator keeps through internal/web: the handlers of    *)
(* controllers and DNS servers, the column of a job that refers to its     *)
(* controller, their tables in internal/store, and what migrate does to    *)
(* them when the process starts.  Of a run it has the two reads that lead  *)
(* to the controller, GetJob and, much later, GetController.               *)
(*                                                                         *)
(* A handler that runs one statement is one step.  An update of a          *)
(* controller that leaves the key out runs two, and other handlers run in  *)
(* between.  A statement that fails changes nothing.                       *)
(*                                                                         *)
(* Data: of a controller its API key and its site, of a server its address *)
(* and whether it is enabled.                                              *)
(***************************************************************************)
EXTENDS Naturals, Sequences, FiniteSetsExt

CONSTANTS
  Clients,      \* requests at work at once on updates without a key
  Runners,      \* goroutines in Run
  Jobs,
  Keys,         \* API keys
  Blank,        \* an empty field
  Mask,         \* the dots that are shown instead of a key
  Sites,        \* sites a request may name, Blank among them
  Default,      \* the site taken for Blank
  Addresses,    \* of DNS servers
  Seeds,        \* the well-known ones, in the order they are inserted
  FKModes,      \* is PRAGMA foreign_keys on, on the connection a statement gets?
  NoRow, NoID, NoReq, NoRun,
  Untouched,    \* the servers no operator has changed yet
  MaxID,        \* bound: controllers ever created
  MaxServers    \* bound: rows of dns_servers

ASSUME SettingsAssumption ==
  /\ Blank \notin Keys /\ Mask \notin Keys /\ Blank # Mask
  /\ Seeds \in Seq(Addresses)
  /\ \A i, k \in DOMAIN Seeds : Seeds[i] = Seeds[k] => i = k
  /\ FKModes \subseteq BOOLEAN
  /\ MaxID \in Nat /\ MaxServers \in Nat
  /\ NoID \notin Nat

VARIABLES
  ctrls,      \* table controllers by id
  lastID,     \* the highest id ever given out (AUTOINCREMENT)
  refs,       \* table sync_jobs: its controller_id
  servers,    \* table dns_servers: how many rows there are of each kind
  phase,      \* "down", starting ("count", "seed") or "up"
  seeding,    \* the next well-known server to insert
  req,        \* per client, the update between its read and its write
  run,        \* per runner, the controller id of the job it has read
  given,      \* history: per controller, the key its operator gave last
  upset,      \* history: controllers whose key an overlapping update put back
  born,       \* history: per id, how often a controller was created under it
  loose,      \* history: ids that lost what referred to them, or never had it,
              \*   on a connection without the pragma
  left        \* history: the servers as operators left them

keyVars    == <<req, given, upset>>
runVars    == <<run, born, loose>>
ctrlVars   == <<ctrls, lastID, refs, keyVars, runVars>>
serverVars == <<servers, left>>
boot       == <<phase, seeding>>
vars       == <<ctrls, lastID, refs, req, given, upset, run, born, loose,
                servers, left, phase, seeding>>

IDs       == 1 .. MaxID
Submitted == Keys \cup {Blank, Mask}        \* what the key field of a request may hold
CtrlRow   == [key : Keys \cup {Mask}, site : Sites \cup {Default}]
ServerRow == [addr : Addresses, on : BOOLEAN]
NoServers == [s \in ServerRow |-> 0]
Exists(id) == ctrls[id] # NoRow

ASSUME NoRowIsNone == NoRow \notin CtrlRow
ASSUME UntouchedIsNone == Untouched \notin [ServerRow -> Nat]
-----------------------------------------------------------------------------
(* Controllers *)

Store(id, key, site) == ctrls' = [ctrls EXCEPT ![id] = [key |-> key, site |-> site]]

\* mutated: an empty key is accepted
CreateControllerBlank(key, site) ==
  /\ phase = "up" /\ lastID < MaxID
  /\ lastID' = lastID + 1
  /\ Store(lastID', key, IF site = Blank THEN Default ELSE site)
  /\ given' = [given EXCEPT ![lastID'] = key]
  /\ born' = [born EXCEPT ![lastID'] = @ + 1]
  /\ UNCHANGED <<refs, req, upset, run, loose, serverVars, boot>>

\* mutated: as if id had no AUTOINCREMENT, the highest id is given out again
CreateControllerReuses(key, site) ==
  /\ phase = "up"
  /\ key # Blank
  /\ \E id \in IDs :
       /\ \A n \in IDs : Exists(n) => n < id
       /\ id > 1 => Exists(id - 1)
       /\ lastID' = IF id > lastID THEN id ELSE lastID
       /\ Store(id, key, IF site = Blank THEN Default ELSE site)
       /\ given' = [given EXCEPT ![id] = key]
       /\ born' = [born EXCEPT ![id] = @ + 1]
  /\ UNCHANGED <<refs, req, upset, run, loose, serverVars, boot>>

(* createController asks for a key, and takes any *)
CreateController(key, site) ==
  /\ phase = "up" /\ lastID < MaxID
  /\ key # Blank
  /\ lastID' = lastID + 1
  /\ Store(lastID', key, IF site = Blank THEN Default ELSE site)
  /\ given' = [given EXCEPT ![lastID'] = key]
  /\ born' = [born EXCEPT ![lastID'] = @ + 1]
  /\ UNCHANGED <<refs, req, upset, run, loose, serverVars, boot>>

\* mutated: only an empty field means the stored key
KeepsBlankOnly(key) == key = Blank

(* updateController keeps the key if the field is empty or shows the mask *)
Keeps(key) == key \in {Blank, Mask}

(* UPDATE of a row that is gone changes nothing and succeeds *)
UpdateWithKey(id, key, site) ==
  /\ phase = "up" /\ ~Keeps(key)
  /\ IF Exists(id)
     THEN /\ Store(id, key, site)
          /\ given' = [given EXCEPT ![id] = IF key \in Keys THEN key ELSE @]
          /\ upset' = upset \ {id}
          /\ req' = [c \in Clients |-> IF req[c] # NoReq /\ req[c].id = id
                                       THEN [req[c] EXCEPT !.overtaken = TRUE] ELSE req[c]]
     ELSE UNCHANGED <<ctrls, given, upset, req>>
  /\ UNCHANGED <<lastID, refs, runVars, serverVars, boot>>

(* without one: GetController, which may answer that there is none, ... *)
UpdateRead(c, id, key, site) ==
  /\ phase = "up" /\ Keeps(key) /\ Exists(id)
  /\ req[c] = NoReq
  /\ req' = [req EXCEPT ![c] = [id |-> id, key |-> ctrls[id].key, site |-> site, overtaken |-> FALSE]]
  /\ UNCHANGED <<ctrls, lastID, refs, given, upset, runVars, serverVars, boot>>

\* mutated: the row is inserted if it is not there
UpdateWriteUpsert(c) ==
  /\ req[c] # NoReq
  /\ Store(req[c].id, req[c].key, req[c].site)
  /\ upset' = IF req[c].overtaken THEN upset \cup {req[c].id} ELSE upset
  /\ req' = [req EXCEPT ![c] = NoReq]
  /\ UNCHANGED <<lastID, refs, given, runVars, serverVars, boot>>

(* ... and UpdateController with the key that was read *)
UpdateWrite(c) ==
  /\ req[c] # NoReq
  /\ IF Exists(req[c].id)
     THEN /\ Store(req[c].id, req[c].key, req[c].site)
          /\ upset' = IF req[c].overtaken THEN upset \cup {req[c].id} ELSE upset
     ELSE UNCHANGED <<ctrls, upset>>
  /\ req' = [req EXCEPT ![c] = NoReq]
  /\ UNCHANGED <<lastID, refs, given, runVars, serverVars, boot>>

(* A statement that would leave a reference to no controller is refused if  *)
(* foreign keys are on.                                                     *)
Dangles(dangling, id) ==
  /\ dangling => FALSE \in FKModes
  /\ loose' = IF dangling THEN loose \cup {id} ELSE loose

DeleteController(id) ==
  /\ phase = "up" /\ Exists(id)
  /\ Dangles(\E j \in Jobs : refs[j] = id, id)
  /\ ctrls' = [ctrls EXCEPT ![id] = NoRow]
  /\ UNCHANGED <<lastID, refs, keyVars, run, born, serverVars, boot>>

(* the runs that have read the job know nothing of it *)
Moved(j, id) ==
  run' = [r \in Runners |-> IF run[r] # NoRun /\ run[r].job = j /\ run[r].id # id
                            THEN [run[r] EXCEPT !.moved = TRUE] ELSE run[r]]

(* createJob and updateJob name a controller *)
SaveJob(j, id) ==
  /\ phase = "up"
  /\ Dangles(~Exists(id), id)
  /\ refs' = [refs EXCEPT ![j] = id]
  /\ Moved(j, id)
  /\ UNCHANGED <<ctrls, lastID, keyVars, born, serverVars, boot>>

DeleteJob(j) ==
  /\ phase = "up" /\ refs[j] # NoID
  /\ refs' = [refs EXCEPT ![j] = NoID]
  /\ Moved(j, NoID)
  /\ UNCHANGED <<ctrls, lastID, keyVars, born, loose, serverVars, boot>>
-----------------------------------------------------------------------------
(* Runs *)

(* GetJob: the run keeps the row, and with it the id of the controller ... *)
RunReadsJob(r, j) ==
  /\ phase = "up" /\ run[r] = NoRun /\ refs[j] # NoID
  /\ run' = [run EXCEPT ![r] = [job |-> j, id |-> refs[j], moved |-> FALSE,
                                born |-> IF Exists(refs[j]) THEN born[refs[j]] ELSE 0]]
  /\ UNCHANGED <<ctrls, lastID, refs, keyVars, born, loose, serverVars, boot>>

(* ... by which GetController looks, after the lookups, if the run gets so  *)
(* far; it fails if there is none, and goes on with what it has found.      *)
RunTakesController(r) ==
  /\ phase = "up" /\ run[r] # NoRun
  /\ run' = [run EXCEPT ![r] = NoRun]
  /\ UNCHANGED <<ctrls, lastID, refs, keyVars, born, loose, serverVars, boot>>
-----------------------------------------------------------------------------
(* DNS servers *)

Total(table) == MapThenSumSet(LAMBDA s : table[s], ServerRow)
Insert(table, s) == [table EXCEPT ![s] = @ + 1]
Remove(table, s) == [table EXCEPT ![s] = @ - 1]

OperatorLeaves(table) == servers' = table /\ left' = table

CreateServer(s) ==
  /\ phase = "up" /\ Total(servers) < MaxServers
  /\ OperatorLeaves(Insert(servers, s))
  /\ UNCHANGED <<ctrlVars, boot>>

UpdateServer(s, t) ==
  /\ phase = "up" /\ servers[s] > 0 /\ s # t
  /\ OperatorLeaves(Insert(Remove(servers, s), t))
  /\ UNCHANGED <<ctrlVars, boot>>

DeleteServer(s) ==
  /\ phase = "up" /\ servers[s] > 0
  /\ OperatorLeaves(Remove(servers, s))
  /\ UNCHANGED <<ctrlVars, boot>>
-----------------------------------------------------------------------------
(* The process *)

Start ==
  /\ phase = "down"
  /\ phase' = "count"
  /\ UNCHANGED <<ctrlVars, serverVars, seeding>>

\* mutated: seeding is taken up again if servers are missing
CountFewer ==
  /\ phase = "count"
  /\ phase' = IF Total(servers) < Len(Seeds) THEN "seed" ELSE "up"
  /\ UNCHANGED <<ctrlVars, serverVars, seeding>>

(* migrate seeds an empty table, unless it cannot tell *)
Count ==
  /\ phase = "count"
  /\ phase' \in {"up"} \cup (IF servers = NoServers THEN {"seed"} ELSE {})
  /\ UNCHANGED <<ctrlVars, serverVars, seeding>>

(* one row at a time, each committed by itself; errors are dropped *)
Seed ==
  /\ phase = "seed" /\ seeding <= Len(Seeds)
  /\ servers' \in {servers, Insert(servers, [addr |-> Seeds[seeding], on |-> TRUE])}
  /\ seeding' = seeding + 1
  /\ UNCHANGED <<ctrlVars, phase, left>>

Up ==
  /\ phase = "seed" /\ seeding > Len(Seeds)
  /\ phase' = "up" /\ seeding' = 1
  /\ UNCHANGED <<ctrlVars, serverVars>>

(* the process ends, at any time *)
Crash ==
  /\ phase # "down"
  /\ phase' = "down" /\ seeding' = 1
  /\ req' = [c \in Clients |-> NoReq]
  /\ run' = [r \in Runners |-> NoRun]
  /\ UNCHANGED <<ctrls, lastID, refs, given, upset, born, loose, serverVars>>
-----------------------------------------------------------------------------
Init ==
  /\ ctrls = [id \in IDs |-> NoRow]
  /\ lastID = 0
  /\ refs = [j \in Jobs |-> NoID]
  /\ servers = NoServers
  /\ phase = "down" /\ seeding = 1
  /\ req = [c \in Clients |-> NoReq]
  /\ run = [r \in Runners |-> NoRun]
  /\ given = [id \in IDs |-> Blank]
  /\ upset = {}
  /\ born = [id \in IDs |-> 0]
  /\ loose = {}
  /\ left = Untouched

Controllers ==
  \/ \E key \in Submitted, site \in Sites :
       \/ CreateController(key, site)
       \/ \E id \in IDs : \/ UpdateWithKey(id, key, site)
                          \/ \E c \in Clients : UpdateRead(c, id, key, site)
  \/ \E c \in Clients : UpdateWrite(c)
  \/ \E id \in IDs : DeleteController(id)
  \/ \E j \in Jobs : DeleteJob(j) \/ \E id \in IDs : SaveJob(j, id)

Runs ==
  \E r \in Runners : RunTakesController(r) \/ \E j \in Jobs : RunReadsJob(r, j)

Servers ==
  \E s \in ServerRow :
    CreateServer(s) \/ DeleteServer(s) \/ \E t \in ServerRow : UpdateServer(s, t)

Next == Controllers \/ Runs \/ Servers \/ Start \/ Count \/ Seed \/ Up \/ Crash

Spec == Init /\ [][Next]_vars
-----------------------------------------------------------------------------
TypeOK ==
  /\ ctrls \in [IDs -> CtrlRow \cup {NoRow}]
  /\ lastID \in 0 .. MaxID
  /\ refs \in [Jobs -> IDs \cup {NoID}]
  /\ servers \in [ServerRow -> Nat]
  /\ phase \in {"down", "count", "seed", "up"}
  /\ seeding \in 1 .. Len(Seeds) + 1
  /\ req \in [Clients -> [id : IDs, key : Keys \cup {Mask}, site : Sites, overtaken : BOOLEAN]
                         \cup {NoReq}]
  /\ run \in [Runners -> [job : Jobs, id : IDs, moved : BOOLEAN, born : Nat] \cup {NoRun}]
  /\ given \in [IDs -> Keys \cup {Mask, Blank}]
  /\ upset \subseteq IDs
  /\ born \in [IDs -> Nat]
  /\ loose \subseteq IDs
  /\ left \in [ServerRow -> Nat] \cup {Untouched}

(* A controller is used with the key its operator gave last, "keep          *)
(* existing" when no key is given, as long as no update without a key       *)
(* overlaps one with a key, and never with that of another controller, one  *)
(* that had been deleted included (updateController, createController).     *)
KeyIsLastGiven ==
  \A id \in IDs : Exists(id) /\ id \notin upset => ctrls[id].key = given[id]

(* A deleted controller does not come back, whatever updates of it were on  *)
(* their way (UpdateController, DeleteController).                          *)
DeletedStaysDeleted ==
  [][\A id \in IDs : id <= lastID /\ ~Exists(id) => ~Exists(id)']_vars

(* Between its two reads a run may lose its controller, never come by       *)
(* another: what it finds under the id its job had is the controller that   *)
(* was there then, whatever has been saved, deleted and created meanwhile.  *)
(* It finds none only if the job has been moved or deleted since, or if a   *)
(* connection without the pragma let a reference dangle (execute,           *)
(* GetController, DeleteController, createJob, updateJob).                  *)
RunKeepsController ==
  \A r \in Runners : run[r] # NoRun =>
    IF Exists(run[r].id) THEN run[r].born \in {0, born[run[r].id]}
    ELSE run[r].moved \/ run[r].id \in loose

(* Starting again leaves alone the servers that an operator has left; and   *)
(* while none has changed the table, it holds no well-known server twice,   *)
(* however often the process ends while it seeds the table (migrate).  Of a *)
(* table that an operator has emptied this says nothing: the next start     *)
(* seeds it again, although it is not the "first run" of store.go.          *)
RestartKeepsServers ==
  /\ left \notin {Untouched, NoServers} => servers = left
  /\ left = Untouched =>
       \A s \in ServerRow : servers[s] > 0 => servers[s] = 1 /\ s.on
-----------------------------------------------------------------------------
(* The inductive invariants behind the safety properties *)

\* ids are given out once: AUTOINCREMENT
IdInv ==
  /\ \A id \in IDs : id > lastID => ~Exists(id)
  /\ \A c \in Clients : req[c] # NoReq => req[c].id <= lastID

\* an update that nothing has overtaken carries the key given last
ReadInv ==
  \A c \in Clients :
    req[c] # NoReq /\ ~req[c].overtaken /\ req[c].id \notin upset =>
      req[c].key = given[req[c].id]

KeyInv == IdInv /\ ReadInv /\ KeyIsLastGiven

\* a job refers to a controller that exists, and so does a run whose job has stayed
RefInv ==
  /\ \A id \in IDs : id > lastID => ~Exists(id) /\ born[id] = 0
  /\ \A j \in Jobs : refs[j] # NoID => Exists(refs[j]) \/ refs[j] \in loose
  /\ \A r \in Runners : run[r] # NoRun =>
       /\ ~run[r].moved => refs[run[r].job] = run[r].id
       /\ run[r].born \in {0, born[run[r].id]}

\* migrate seeds only where no operator has left a server, and has not inserted what is to come
SeedInv ==
  phase = "seed" =>
    /\ left \in {Untouched, NoServers}
    /\ \A i \in DOMAIN Seeds : i >= seeding => servers[[addr |-> Seeds[i], on |-> TRUE]] = 0

ServerInv == SeedInv /\ RestartKeepsServers
=============================================================================
