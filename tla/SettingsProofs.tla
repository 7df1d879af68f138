--------------------------- MODULE SettingsProofs ---------------------------
(***************************************************************************)
(* Safety of Settings for every number of controllers, jobs, requests and  *)
(* DNS servers, and any list of well-known servers.                        *)
(***************************************************************************)
EXTENDS Settings, TLAPS

(* Actions that leave the servers alone, and those that leave the rest *)
ControllerStep ==
  \/ \E key \in Submitted, site \in Sites : CreateController(key, site)
  \/ \E key \in Submitted, site \in Sites, id \in IDs : UpdateWithKey(id, key, site)
  \/ \E key \in Submitted, site \in Sites, id \in IDs, c \in Clients : UpdateRead(c, id, key, site)
  \/ \E c \in Clients : UpdateWrite(c)
  \/ \E id \in IDs : DeleteController(id)
  \/ \E j \in Jobs : DeleteJob(j)
  \/ \E j \in Jobs, id \in IDs : SaveJob(j, id)
  \/ \E r \in Runners : RunTakesController(r)
  \/ \E r \in Runners, j \in Jobs : RunReadsJob(r, j)

OperatorStep ==
  \/ \E s \in ServerRow : CreateServer(s)
  \/ \E s \in ServerRow : DeleteServer(s)
  \/ \E s \in ServerRow, t \in ServerRow : UpdateServer(s, t)

ServerStep == OperatorStep \/ Start \/ Count \/ Seed \/ Up

(* Next, with its actions regrouped by what they touch. *)
LEMMA NextCases ==
  ASSUME [Next]_vars
  PROVE  ControllerStep \/ ServerStep \/ Crash \/ UNCHANGED vars
<1>1. CASE Controllers
  BY <1>1 DEF Controllers, ControllerStep
<1>2. CASE Servers
  BY <1>2 DEF Servers, OperatorStep, ServerStep
<1>3. CASE Runs
  BY <1>3 DEF Runs, ControllerStep
<1> QED BY <1>1, <1>2, <1>3 DEF Next, ServerStep

LEMMA ServerStepKeeps == ASSUME ServerStep PROVE UNCHANGED ctrlVars
  BY DEF ServerStep, OperatorStep, CreateServer, UpdateServer, DeleteServer, Start, Count, Seed, Up

LEMMA ControllerStepKeeps == ASSUME ControllerStep PROVE UNCHANGED <<serverVars, boot>>
  BY DEF ControllerStep, CreateController, UpdateWithKey, UpdateRead, UpdateWrite,
         DeleteController, DeleteJob, SaveJob, RunTakesController, RunReadsJob
-----------------------------------------------------------------------------
(* The types of the tables, in the two halves that change apart *)
Update == [id : IDs, key : Keys \cup {Mask}, site : Sites, overtaken : BOOLEAN]
Pending == [job : Jobs, id : IDs, moved : BOOLEAN, born : Nat]

CtrlTypes ==
  /\ ctrls \in [IDs -> CtrlRow \cup {NoRow}]
  /\ lastID \in 0 .. MaxID
  /\ refs \in [Jobs -> IDs \cup {NoID}]
  /\ req \in [Clients -> Update \cup {NoReq}]
  /\ run \in [Runners -> Pending \cup {NoRun}]
  /\ given \in [IDs -> Keys \cup {Mask, Blank}]
  /\ upset \subseteq IDs
  /\ born \in [IDs -> Nat]
  /\ loose \subseteq IDs

ServerTypes ==
  /\ servers \in [ServerRow -> Nat]
  /\ left \in [ServerRow -> Nat] \cup {Untouched}
  /\ phase \in {"down", "count", "seed", "up"}
  /\ seeding \in 1 .. Len(Seeds) + 1

LEMMA TypeSplit == TypeOK <=> CtrlTypes /\ ServerTypes
  BY DEF TypeOK, CtrlTypes, ServerTypes, Update, Pending

(* What a row keeps when it is written: it is one. *)
LEMMA StoreType ==
  ASSUME NEW id \in IDs, NEW key \in Keys \cup {Mask}, NEW site \in Sites \cup {Default},
         ctrls \in [IDs -> CtrlRow \cup {NoRow}], Store(id, key, site)
  PROVE  /\ ctrls' \in [IDs -> CtrlRow \cup {NoRow}]
         /\ ctrls'[id].key = key /\ Exists(id)'
         /\ \A k \in IDs \ {id} : ctrls'[k] = ctrls[k]
<1>1. PICK row \in CtrlRow : row = [key |-> key, site |-> site]
  BY DEF CtrlRow
<1>2. ctrls' = [ctrls EXCEPT ![id] = row] /\ row.key = key /\ row # NoRow
  BY <1>1, NoRowIsNone DEF Store
<1> QED BY <1>2 DEF Exists

LEMMA InitTypes == Init => TypeOK
<1> SUFFICES ASSUME Init PROVE TypeOK
  OBVIOUS
<1>1. CtrlTypes
  BY SettingsAssumption DEF Init, CtrlTypes, IDs
<1>2. ServerTypes
  BY SettingsAssumption DEF Init, ServerTypes, NoServers
<1> QED BY <1>1, <1>2, TypeSplit

(* What a change of a job does to the runs that have read it. *)
LEMMA MovedType ==
  ASSUME run \in [Runners -> Pending \cup {NoRun}], NEW j, NEW id, Moved(j, id)
  PROVE  /\ run' \in [Runners -> Pending \cup {NoRun}]
         /\ \A r \in Runners :
              IF run[r] # NoRun /\ run[r].job = j /\ run[r].id # id
              THEN run'[r] \in Pending /\ run'[r] = [run[r] EXCEPT !.moved = TRUE]
              ELSE run'[r] = run[r]
<1>1. ASSUME NEW r \in Runners, run[r] # NoRun PROVE [run[r] EXCEPT !.moved = TRUE] \in Pending
  BY <1>1 DEF Pending
<1> QED BY <1>1 DEF Moved

(* What a run remembers of the job it has read. *)
LEMMA ReadsPending ==
  ASSUME CtrlTypes, NEW r \in Runners, NEW j \in Jobs, RunReadsJob(r, j)
  PROVE  \E p \in Pending : /\ run' = [run EXCEPT ![r] = p]
                            /\ p.job = j /\ p.id = refs[j] /\ p.born \in {0, born[refs[j]]}
<1>1. refs[j] \in IDs
  BY DEF CtrlTypes, RunReadsJob
<1>2. PICK b \in Nat : b \in {0, born[refs[j]]} /\ b = IF Exists(refs[j]) THEN born[refs[j]] ELSE 0
  BY <1>1 DEF CtrlTypes
<1>3. PICK p \in Pending : p = [job |-> j, id |-> refs[j], moved |-> FALSE, born |-> b]
  BY <1>1 DEF Pending
<1>4. run' = [run EXCEPT ![r] = p]
  BY <1>2, <1>3 DEF RunReadsJob
<1> QED BY <1>2, <1>3, <1>4

LEMMA CtrlTypesKept == ASSUME CtrlTypes, ControllerStep PROVE CtrlTypes'
<1> USE SettingsAssumption DEF CtrlTypes
<1>1. ASSUME NEW key \in Submitted, NEW site \in Sites, CreateController(key, site)
      PROVE  CtrlTypes'
  <2>1. lastID' \in IDs /\ lastID' \in 0 .. MaxID
    BY <1>1 DEF CreateController, IDs
  <2>2. key \in Keys \cup {Mask}
    BY <1>1 DEF CreateController, Submitted
  <2>3. ctrls' \in [IDs -> CtrlRow \cup {NoRow}]
    <3>1. PICK s \in Sites \cup {Default} : Store(lastID', key, s)
      BY <1>1 DEF CreateController
    <3> QED BY <2>1, <2>2, <3>1, StoreType
  <2>4. given' \in [IDs -> Keys \cup {Mask, Blank}]
    BY <1>1, <2>1, <2>2 DEF CreateController
  <2>5. born' \in [IDs -> Nat]
    <3>1. PICK b \in Nat : b = born[lastID'] + 1
      BY <2>1
    <3> QED BY <1>1, <2>1, <3>1 DEF CreateController
  <2> QED BY <1>1, <2>1, <2>3, <2>4, <2>5 DEF CreateController
<1>2. ASSUME NEW key \in Submitted, NEW site \in Sites, NEW id \in IDs, UpdateWithKey(id, key, site)
      PROVE  CtrlTypes'
  <2>1. CASE Exists(id)
    <3>1. key \in Keys
      BY <1>2 DEF UpdateWithKey, Keeps, Submitted
    <3>2. ctrls' \in [IDs -> CtrlRow \cup {NoRow}]
      BY <1>2, <2>1, <3>1, StoreType DEF UpdateWithKey
    <3>3. given' \in [IDs -> Keys \cup {Mask, Blank}] /\ upset' \subseteq IDs
      BY <1>2, <2>1, <3>1 DEF UpdateWithKey
    <3>4. \A c \in Clients : req[c] # NoReq => [req[c] EXCEPT !.overtaken = TRUE] \in Update
      BY DEF Update
    <3>5. req' \in [Clients -> Update \cup {NoReq}]
      <4>1. req' = [c \in Clients |-> IF req[c] # NoReq /\ req[c].id = id
                                      THEN [req[c] EXCEPT !.overtaken = TRUE] ELSE req[c]]
        BY <1>2, <2>1 DEF UpdateWithKey
      <4>2. req \in [Clients -> Update \cup {NoReq}]
        OBVIOUS
      <4> HIDE DEF CtrlTypes
      <4> QED BY <3>4, <4>1, <4>2
    <3> QED BY <1>2, <3>2, <3>3, <3>5 DEF UpdateWithKey, runVars
  <2>2. CASE ~Exists(id)
    BY <1>2, <2>2 DEF UpdateWithKey, runVars
  <2> QED BY <2>1, <2>2
<1>3. ASSUME NEW key \in Submitted, NEW site \in Sites, NEW id \in IDs, NEW c \in Clients,
             UpdateRead(c, id, key, site)
      PROVE  CtrlTypes'
  <2>1. ctrls[id] \in CtrlRow
    BY <1>3 DEF UpdateRead, Exists
  <2>2. PICK u \in Update :
          u = [id |-> id, key |-> ctrls[id].key, site |-> site, overtaken |-> FALSE]
    BY <2>1 DEF CtrlRow, Update
  <2>3. req' = [req EXCEPT ![c] = u]
    BY <1>3, <2>2 DEF UpdateRead
  <2> QED BY <1>3, <2>3 DEF UpdateRead, runVars
<1>4. ASSUME NEW c \in Clients, UpdateWrite(c)
      PROVE  CtrlTypes'
  <2>1. req[c] \in Update /\ req[c].id \in IDs /\ req[c].key \in Keys \cup {Mask} /\ req[c].site \in Sites
    BY <1>4 DEF UpdateWrite, Update
  <2>2. req' \in [Clients -> Update \cup {NoReq}]
    BY <1>4 DEF UpdateWrite
  <2>3. CASE Exists(req[c].id)
    <3>1. ctrls' \in [IDs -> CtrlRow \cup {NoRow}]
      BY <1>4, <2>1, <2>3, StoreType DEF UpdateWrite
    <3> QED BY <1>4, <2>1, <2>2, <2>3, <3>1 DEF UpdateWrite, runVars
  <2>4. CASE ~Exists(req[c].id)
    BY <1>4, <2>2, <2>4 DEF UpdateWrite, runVars
  <2> QED BY <2>3, <2>4
<1>5. ASSUME NEW id \in IDs, DeleteController(id) PROVE CtrlTypes'
  BY <1>5 DEF DeleteController, Dangles, keyVars
<1>6. ASSUME NEW j \in Jobs, DeleteJob(j) PROVE CtrlTypes'
  BY <1>6, MovedType DEF DeleteJob, keyVars
<1>7. ASSUME NEW j \in Jobs, NEW id \in IDs, SaveJob(j, id) PROVE CtrlTypes'
  BY <1>7, MovedType DEF SaveJob, Dangles, keyVars
<1>8. ASSUME NEW r \in Runners, RunTakesController(r) PROVE CtrlTypes'
  BY <1>8 DEF RunTakesController, keyVars
<1>9. ASSUME NEW r \in Runners, NEW j \in Jobs, RunReadsJob(r, j) PROVE CtrlTypes'
  <2>1. PICK p \in Pending : run' = [run EXCEPT ![r] = p]
    BY <1>9, ReadsPending
  <2> QED BY <1>9, <2>1 DEF RunReadsJob, keyVars
<1> QED BY <1>1, <1>2, <1>3, <1>4, <1>5, <1>6, <1>7, <1>8, <1>9 DEF ControllerStep

(* A table in which a server is inserted, or one removed that is in it. *)
LEMMA TableTypes ==
  ASSUME NEW table \in [ServerRow -> Nat], NEW s \in ServerRow
  PROVE  /\ Insert(table, s) \in [ServerRow -> Nat]
         /\ table[s] > 0 => Remove(table, s) \in [ServerRow -> Nat]
         /\ Insert(table, s)[s] = table[s] + 1
         /\ \A t \in ServerRow \ {s} : Insert(table, s)[t] = table[t]
  BY DEF Insert, Remove

LEMMA OperatorTypes ==
  ASSUME ServerTypes, OperatorStep
  PROVE  /\ servers' \in [ServerRow -> Nat] /\ left' = servers'
         /\ phase = "up" /\ UNCHANGED boot
<1>1. ASSUME NEW s \in ServerRow, CreateServer(s)
      PROVE  servers' \in [ServerRow -> Nat] /\ left' = servers' /\ phase = "up" /\ UNCHANGED boot
  BY <1>1, TableTypes DEF ServerTypes, CreateServer, OperatorLeaves
<1>2. ASSUME NEW s \in ServerRow, DeleteServer(s)
      PROVE  servers' \in [ServerRow -> Nat] /\ left' = servers' /\ phase = "up" /\ UNCHANGED boot
  BY <1>2, TableTypes DEF ServerTypes, DeleteServer, OperatorLeaves
<1>3. ASSUME NEW s \in ServerRow, NEW t \in ServerRow, UpdateServer(s, t)
      PROVE  servers' \in [ServerRow -> Nat] /\ left' = servers' /\ phase = "up" /\ UNCHANGED boot
  <2>1. Remove(servers, s) \in [ServerRow -> Nat]
    BY <1>3, TableTypes DEF ServerTypes, UpdateServer
  <2> QED BY <1>3, <2>1, TableTypes DEF UpdateServer, OperatorLeaves
<1> QED BY <1>1, <1>2, <1>3 DEF OperatorStep

(* The row that migrate inserts. *)
LEMMA SeedRow ==
  ASSUME ServerTypes, Seed
  PROVE  /\ seeding \in DOMAIN Seeds
         /\ [addr |-> Seeds[seeding], on |-> TRUE] \in ServerRow
  BY SettingsAssumption DEF ServerTypes, Seed, ServerRow

LEMMA ServerTypesKept == ASSUME ServerTypes, ServerStep PROVE ServerTypes'
<1>1. CASE OperatorStep
  BY <1>1, OperatorTypes DEF ServerTypes, boot
<1>2. CASE Start \/ Up
  BY <1>2, SettingsAssumption DEF ServerTypes, Start, Up, serverVars
<1>3. CASE Count
  BY <1>3 DEF ServerTypes, Count, serverVars
<1>4. CASE Seed
  <2>1. servers' \in [ServerRow -> Nat]
    BY <1>4, SeedRow, TableTypes DEF ServerTypes, Seed
  <2>2. seeding' \in 1 .. Len(Seeds) + 1
    BY <1>4, SettingsAssumption DEF ServerTypes, Seed
  <2> QED BY <1>4, <2>1, <2>2 DEF ServerTypes, Seed
<1> QED BY <1>1, <1>2, <1>3, <1>4 DEF ServerStep

LEMMA NextTypes == TypeOK /\ [Next]_vars => TypeOK'
<1> SUFFICES ASSUME CtrlTypes, ServerTypes, [Next]_vars PROVE CtrlTypes' /\ ServerTypes'
  BY TypeSplit, PTL
<1>1. CASE ControllerStep
  <2>1. CtrlTypes'
    BY <1>1, CtrlTypesKept
  <2> QED BY <1>1, <2>1, ControllerStepKeeps DEF ServerTypes, serverVars, boot
<1>2. CASE ServerStep
  <2>1. ServerTypes'
    BY <1>2, ServerTypesKept
  <2> QED BY <1>2, <2>1, ServerStepKeeps DEF CtrlTypes, ctrlVars, keyVars, runVars
<1>3. CASE Crash
  <2>1. req' \in [Clients -> Update \cup {NoReq}]
    BY <1>3 DEF Crash
  <2>2. run' \in [Runners -> Pending \cup {NoRun}]
    BY <1>3 DEF Crash
  <2>3. seeding' \in 1 .. Len(Seeds) + 1
    BY <1>3, SettingsAssumption DEF Crash
  <2> QED BY <1>3, <2>1, <2>2, <2>3 DEF Crash, CtrlTypes, ServerTypes, serverVars
<1>4. CASE UNCHANGED vars
  BY <1>4 DEF vars, CtrlTypes, ServerTypes
<1> QED BY <1>1, <1>2, <1>3, <1>4, NextCases

(* Type correctness: the tables hold rows, the counts never fall below      *)
(* zero, and migrate stays within its list of servers.                      *)
THEOREM TypeCorrect == Spec => []TypeOK
  BY InitTypes, NextTypes, PTL DEF Spec
-----------------------------------------------------------------------------
(* An id that was given out and is gone never names a row again. *)
LEMMA StaysDeletedStep ==
  ASSUME TypeOK, [Next]_vars, NEW id \in IDs, id <= lastID, ~Exists(id)
  PROVE  ~Exists(id)'
<1> USE DEF CtrlTypes
<1>0. CtrlTypes /\ id \in Nat /\ lastID \in Nat /\ IDs = 1 .. MaxID
  BY TypeSplit, SettingsAssumption DEF IDs
<1>1. ASSUME NEW key \in Submitted, NEW site \in Sites, CreateController(key, site)
      PROVE  ~Exists(id)'
  <2>1. lastID' # id
    BY <1>0, <1>1 DEF CreateController
  <2> QED BY <1>0, <1>1, <2>1 DEF CreateController, Store, Exists
<1>2. ASSUME NEW key \in Submitted, NEW site \in Sites, NEW k \in IDs, UpdateWithKey(k, key, site)
      PROVE  ~Exists(id)'
  BY <1>0, <1>2 DEF UpdateWithKey, Store, Exists
<1>3. ASSUME NEW c \in Clients, UpdateWrite(c) PROVE ~Exists(id)'
  BY <1>0, <1>3 DEF UpdateWrite, Store, Exists
<1>4. ASSUME NEW k \in IDs, DeleteController(k) PROVE ~Exists(id)'
  BY <1>0, <1>4 DEF DeleteController, Exists
<1>5. CASE UNCHANGED ctrls
  BY <1>5 DEF Exists
<1>6. CASE ControllerStep
  <2>1. ASSUME NEW key \in Submitted, NEW site \in Sites, NEW k \in IDs, NEW c \in Clients,
               UpdateRead(c, k, key, site)
        PROVE  UNCHANGED ctrls
    BY <2>1 DEF UpdateRead
  <2>2. ASSUME NEW j \in Jobs, DeleteJob(j) PROVE UNCHANGED ctrls
    BY <2>2 DEF DeleteJob
  <2>3. ASSUME NEW j \in Jobs, NEW k \in IDs, SaveJob(j, k) PROVE UNCHANGED ctrls
    BY <2>3 DEF SaveJob
  <2>4. ASSUME NEW r \in Runners, RunTakesController(r) PROVE UNCHANGED ctrls
    BY <2>4 DEF RunTakesController
  <2>5. ASSUME NEW r \in Runners, NEW j \in Jobs, RunReadsJob(r, j) PROVE UNCHANGED ctrls
    BY <2>5 DEF RunReadsJob
  <2> QED BY <1>1, <1>2, <1>3, <1>4, <1>5, <1>6, <2>1, <2>2, <2>3, <2>4, <2>5 DEF ControllerStep
<1>7. CASE ServerStep
  BY <1>5, <1>7, ServerStepKeeps DEF ctrlVars
<1> QED BY <1>5, <1>6, <1>7, NextCases DEF Crash, vars

(* A deleted controller stays deleted: an update on its way finds no row,   *)
(* and the id is not used again.                                            *)
THEOREM DeletedForGood == Spec => DeletedStaysDeleted
<1>1. TypeOK /\ [Next]_vars =>
        [\A id \in IDs : id <= lastID /\ ~Exists(id) => ~Exists(id)']_vars
  BY StaysDeletedStep
<1> QED BY <1>1, TypeCorrect, PTL DEF Spec, DeletedStaysDeleted
-----------------------------------------------------------------------------
(* The keys *)

LEMMA InitKeys == Init => KeyInv
  BY DEF Init, KeyInv, IdInv, ReadInv, KeyIsLastGiven, Exists

LEMMA CreateKeys ==
  ASSUME TypeOK, KeyInv, NEW key \in Submitted, NEW site \in Sites, CreateController(key, site)
  PROVE  KeyInv'
<1>1. PICK id \in IDs, k \in Keys \cup {Mask}, s \in Sites \cup {Default} :
        /\ id = lastID + 1 /\ lastID' = id
        /\ Store(id, k, s)
        /\ given' = [given EXCEPT ![id] = k]
        /\ UNCHANGED <<req, upset>>
  <2>1. PICK s \in Sites \cup {Default} : Store(lastID', key, s)
    BY DEF CreateController
  <2>2. key \in Keys \cup {Mask}
    BY DEF CreateController, Submitted
  <2>3. lastID + 1 \in IDs
    BY SettingsAssumption DEF TypeOK, CreateController, IDs
  <2> QED BY <2>1, <2>2, <2>3 DEF CreateController
<1>2. /\ ctrls'[id].key = k
      /\ \A n \in IDs \ {id} : ctrls'[n] = ctrls[n]
  BY <1>1, StoreType DEF TypeOK
<1>3. given'[id] = k /\ \A n \in IDs \ {id} : given'[n] = given[n]
  BY <1>1 DEF TypeOK
<1>4. lastID \in Nat /\ \A n \in IDs : n \in Nat
  BY SettingsAssumption DEF TypeOK, IDs
<1>5. \A c \in Clients : req[c] # NoReq => req[c].id \in IDs /\ req[c].id # id /\ req[c].id <= lastID
  BY <1>1, <1>4 DEF TypeOK, KeyInv, IdInv
<1>6. IdInv'
  <2>1. \A n \in IDs : n > lastID' => ~Exists(n)'
    BY <1>1, <1>2, <1>4 DEF KeyInv, IdInv, Exists
  <2>2. \A c \in Clients : req'[c] # NoReq => req'[c].id <= lastID'
    <3> SUFFICES ASSUME NEW c \in Clients, req[c] # NoReq PROVE req[c].id <= lastID + 1
      BY <1>1
    <3>1. req[c].id \in Nat /\ req[c].id <= lastID
      BY <1>4, <1>5
    <3> QED BY <1>4, <3>1
  <2> QED BY <2>1, <2>2 DEF IdInv
<1>7. ReadInv'
  BY <1>1, <1>3, <1>5 DEF KeyInv, ReadInv
<1>8. KeyIsLastGiven'
  BY <1>1, <1>2, <1>3 DEF KeyInv, KeyIsLastGiven, Exists
<1> QED BY <1>6, <1>7, <1>8 DEF KeyInv

(* A key that is given overtakes the updates without one. *)
LEMMA GiveKeys ==
  ASSUME TypeOK, KeyInv, NEW key \in Submitted, NEW site \in Sites, NEW id \in IDs,
         UpdateWithKey(id, key, site)
  PROVE  KeyInv'
<1>1. CASE Exists(id)
  <2>1. /\ key \in Keys
        /\ Store(id, key, site)
        /\ given' = [given EXCEPT ![id] = key]
        /\ upset' = upset \ {id}
        /\ UNCHANGED lastID
    BY <1>1 DEF UpdateWithKey, Keeps, Submitted, TypeOK
  <2>2. ctrls'[id].key = key /\ \A n \in IDs \ {id} : ctrls'[n] = ctrls[n]
    BY <2>1, StoreType DEF TypeOK
  <2>3. given'[id] = key /\ \A n \in IDs \ {id} : given'[n] = given[n]
    BY <2>1 DEF TypeOK
  <2>4. \A c \in Clients :
          /\ req[c] # NoReq => req[c].id \in IDs
          /\ ~(req[c] # NoReq /\ req[c].id = id) => req'[c] = req[c]
          /\ (req[c] # NoReq /\ req[c].id = id) => req'[c].id = id /\ req'[c].overtaken
    <3>1. ASSUME NEW c \in Clients, req[c] # NoReq, req[c].id = id
          PROVE  req'[c].id = id /\ req'[c].overtaken
      <4>1. req'[c] = [req[c] EXCEPT !.overtaken = TRUE]
        BY <1>1, <3>1 DEF UpdateWithKey
      <4>2. req[c] \in Update
        BY <3>1 DEF TypeOK, Update
      <4> QED BY <3>1, <4>1, <4>2 DEF Update
    <3>2. \A c \in Clients : req[c] # NoReq => req[c].id \in IDs
      BY DEF TypeOK
    <3>3. \A c \in Clients : ~(req[c] # NoReq /\ req[c].id = id) => req'[c] = req[c]
      BY <1>1 DEF UpdateWithKey
    <3> QED BY <3>1, <3>2, <3>3
  <2>5. IdInv'
    <3>1. id <= lastID
      BY <1>1, SettingsAssumption DEF KeyInv, IdInv, TypeOK, IDs
    <3>2. \A c \in Clients : req'[c] # NoReq => req'[c].id <= lastID
      BY <2>4, <3>1 DEF KeyInv, IdInv
    <3>3. \A n \in IDs : n > lastID => ~Exists(n)'
      BY <2>2, <3>1, SettingsAssumption DEF KeyInv, IdInv, Exists, TypeOK, IDs
    <3> QED BY <2>1, <3>2, <3>3 DEF IdInv
  <2>6. ReadInv'
    <3> SUFFICES ASSUME NEW c \in Clients, req'[c] # NoReq, ~req'[c].overtaken,
                        req'[c].id \notin upset'
                 PROVE  req'[c].key = given'[req'[c].id]
      BY DEF ReadInv
    <3>1. req'[c] = req[c] /\ req[c].id \in IDs \ {id}
      BY <2>4
    <3> QED BY <2>1, <2>3, <3>1 DEF KeyInv, ReadInv
  <2>7. KeyIsLastGiven'
    BY <2>1, <2>2, <2>3 DEF KeyInv, KeyIsLastGiven, Exists
  <2> QED BY <2>5, <2>6, <2>7 DEF KeyInv
<1>2. CASE ~Exists(id)
  BY <1>2 DEF UpdateWithKey, KeyInv, IdInv, ReadInv, KeyIsLastGiven, Exists
<1> QED BY <1>1, <1>2

LEMMA ReadKeys ==
  ASSUME TypeOK, KeyInv, NEW key \in Submitted, NEW site \in Sites, NEW id \in IDs, NEW c \in Clients,
         UpdateRead(c, id, key, site)
  PROVE  KeyInv'
<1>1. /\ UNCHANGED <<ctrls, lastID, given, upset>>
      /\ Exists(id)
      /\ req' = [req EXCEPT ![c] = [id |-> id, key |-> ctrls[id].key, site |-> site,
                                    overtaken |-> FALSE]]
  BY DEF UpdateRead
<1>2. id <= lastID
  BY <1>1, SettingsAssumption DEF KeyInv, IdInv, TypeOK, IDs
<1>3. req'[c].id = id /\ req'[c].key = ctrls[id].key
  BY <1>1 DEF TypeOK
<1>4. \A d \in Clients \ {c} : req'[d] = req[d]
  BY <1>1 DEF TypeOK
<1>5. IdInv'
  BY <1>1, <1>2, <1>3, <1>4 DEF KeyInv, IdInv, Exists
<1>6. ReadInv'
  BY <1>1, <1>3, <1>4 DEF KeyInv, ReadInv, KeyIsLastGiven
<1>7. KeyIsLastGiven'
  BY <1>1 DEF KeyInv, KeyIsLastGiven, Exists
<1> QED BY <1>5, <1>6, <1>7 DEF KeyInv

(* The write at the end of an update without a key brings back the key that *)
(* was given last, or puts the controller among the upset ones.             *)
LEMMA WriteKeys ==
  ASSUME TypeOK, KeyInv, NEW c \in Clients, UpdateWrite(c)
  PROVE  KeyInv'
<1>1. PICK id \in IDs, k \in Keys \cup {Mask}, s \in Sites \cup {Default} :
        id = req[c].id /\ k = req[c].key /\ s = req[c].site
  BY DEF UpdateWrite, TypeOK
<1>2. /\ req[c] # NoReq /\ id <= lastID
      /\ req' = [req EXCEPT ![c] = NoReq]
      /\ UNCHANGED <<lastID, given>>
  BY <1>1 DEF UpdateWrite, KeyInv, IdInv
<1>3. \A d \in Clients : req'[d] = NoReq \/ req'[d] = req[d]
  BY <1>2 DEF TypeOK
<1>4. CASE Exists(id)
  <2>1. /\ Store(id, k, s)
        /\ upset' = IF req[c].overtaken THEN upset \cup {id} ELSE upset
    BY <1>1, <1>4 DEF UpdateWrite
  <2>2. ctrls'[id].key = k /\ \A n \in IDs \ {id} : ctrls'[n] = ctrls[n]
    BY <2>1, StoreType DEF TypeOK
  <2>3. IdInv'
    BY <1>2, <1>3, <2>2, SettingsAssumption DEF KeyInv, IdInv, Exists, TypeOK, IDs
  <2>4. ReadInv'
    BY <1>2, <1>3, <2>1 DEF KeyInv, ReadInv
  <2>5. id \notin upset' => k = given[id]
    BY <1>1, <1>2, <2>1 DEF KeyInv, ReadInv
  <2>6. KeyIsLastGiven'
    BY <1>2, <2>1, <2>2, <2>5 DEF KeyInv, KeyIsLastGiven, Exists
  <2> QED BY <2>3, <2>4, <2>6 DEF KeyInv
<1>5. CASE ~Exists(id)
  <2>1. UNCHANGED <<ctrls, upset>>
    BY <1>1, <1>5 DEF UpdateWrite
  <2> QED BY <1>2, <1>3, <2>1 DEF KeyInv, IdInv, ReadInv, KeyIsLastGiven, Exists
<1> QED BY <1>4, <1>5

LEMMA NextKeys == TypeOK /\ KeyInv /\ [Next]_vars => KeyInv'
<1> SUFFICES ASSUME TypeOK, KeyInv, [Next]_vars PROVE KeyInv'
  OBVIOUS
<1>1. ASSUME NEW id \in IDs, DeleteController(id) PROVE KeyInv'
  <2>1. /\ ctrls' = [ctrls EXCEPT ![id] = NoRow]
        /\ UNCHANGED <<lastID, req, given, upset>>
    BY <1>1 DEF DeleteController, keyVars
  <2>2. ctrls'[id] = NoRow /\ \A n \in IDs \ {id} : ctrls'[n] = ctrls[n]
    BY <2>1 DEF TypeOK
  <2> QED BY <2>1, <2>2 DEF KeyInv, IdInv, ReadInv, KeyIsLastGiven, Exists
<1>2. CASE UNCHANGED <<ctrls, lastID, req, given, upset>>
  BY <1>2 DEF KeyInv, IdInv, ReadInv, KeyIsLastGiven, Exists
<1>3. CASE ControllerStep
  <2>1. ASSUME NEW j \in Jobs, DeleteJob(j) PROVE KeyInv'
    BY <1>2, <2>1 DEF DeleteJob, keyVars
  <2>2. ASSUME NEW j \in Jobs, NEW id \in IDs, SaveJob(j, id) PROVE KeyInv'
    BY <1>2, <2>2 DEF SaveJob, keyVars
  <2>3. ASSUME NEW r \in Runners, RunTakesController(r) PROVE KeyInv'
    BY <1>2, <2>3 DEF RunTakesController, keyVars
  <2>4. ASSUME NEW r \in Runners, NEW j \in Jobs, RunReadsJob(r, j) PROVE KeyInv'
    BY <1>2, <2>4 DEF RunReadsJob, keyVars
  <2> QED BY <1>1, <1>3, <2>1, <2>2, <2>3, <2>4, CreateKeys, GiveKeys, ReadKeys, WriteKeys DEF ControllerStep
<1>4. CASE ServerStep
  BY <1>2, <1>4, ServerStepKeeps DEF ctrlVars, keyVars
<1>5. CASE Crash
  BY <1>5 DEF Crash, KeyInv, IdInv, ReadInv, KeyIsLastGiven, Exists
<1> QED BY <1>2, <1>3, <1>4, <1>5, NextCases DEF vars

(* Every controller that no overlapping update has upset is used with the   *)
(* key its operator gave last.                                              *)
THEOREM KeysSafe == Spec => []KeyIsLastGiven
<1>1. KeyInv => KeyIsLastGiven
  BY DEF KeyInv
<1> QED BY <1>1, InitKeys, NextKeys, TypeCorrect, PTL DEF Spec
-----------------------------------------------------------------------------
(* The references of jobs, and of the runs that have read one *)

LEMMA InitRefs == Init => RefInv
  BY DEF Init, RefInv, Exists

(* A step that at most rewrites rows. *)
LEMMA RewriteRefs ==
  ASSUME TypeOK, RefInv, UNCHANGED <<lastID, refs, runVars>>,
         \A n \in IDs : Exists(n)' <=> Exists(n)
  PROVE  RefInv'
<1>1. \A j \in Jobs : refs[j] # NoID => refs[j] \in IDs
  BY DEF TypeOK
<1>2. UNCHANGED <<lastID, refs, run, born, loose>>
  BY DEF runVars
<1> QED BY <1>1, <1>2 DEF RefInv

LEMMA UpdateRefs ==
  ASSUME TypeOK, RefInv, NEW key \in Submitted, NEW site \in Sites, NEW id \in IDs
  PROVE  /\ UpdateWithKey(id, key, site) => RefInv'
         /\ \A c \in Clients : UpdateRead(c, id, key, site) \/ UpdateWrite(c) => RefInv'
<1>1. ASSUME UpdateWithKey(id, key, site) PROVE RefInv'
  <2>1. CASE Exists(id)
    <3>1. key \in Keys /\ Store(id, key, site) /\ UNCHANGED <<lastID, refs, runVars>>
      BY <1>1, <2>1 DEF UpdateWithKey, Keeps, Submitted
    <3>2. Exists(id)' /\ \A n \in IDs \ {id} : ctrls'[n] = ctrls[n]
      BY <3>1, StoreType DEF TypeOK
    <3> QED BY <2>1, <3>1, <3>2, RewriteRefs DEF Exists
  <2>2. CASE ~Exists(id)
    BY <1>1, <2>2, RewriteRefs DEF UpdateWithKey, Exists
  <2> QED BY <2>1, <2>2
<1>2. ASSUME NEW c \in Clients, UpdateRead(c, id, key, site) PROVE RefInv'
  BY <1>2, RewriteRefs DEF UpdateRead, Exists
<1>3. ASSUME NEW c \in Clients, UpdateWrite(c) PROVE RefInv'
  <2>1. PICK n \in IDs, k \in Keys \cup {Mask}, s \in Sites \cup {Default} :
          n = req[c].id /\ k = req[c].key /\ s = req[c].site
    BY <1>3 DEF UpdateWrite, TypeOK
  <2>2. CASE Exists(n)
    <3>1. Store(n, k, s) /\ UNCHANGED <<lastID, refs, runVars>>
      BY <1>3, <2>1, <2>2 DEF UpdateWrite
    <3>2. Exists(n)' /\ \A m \in IDs \ {n} : ctrls'[m] = ctrls[m]
      BY <3>1, StoreType DEF TypeOK
    <3> QED BY <2>2, <3>1, <3>2, RewriteRefs DEF Exists
  <2>3. CASE ~Exists(n)
    BY <1>3, <2>1, <2>3, RewriteRefs DEF UpdateWrite, Exists
  <2> QED BY <2>2, <2>3
<1> QED BY <1>1, <1>2, <1>3

(* No run can have read the controller that is created: its id is new. *)
LEMMA CreateRefs ==
  ASSUME TypeOK, RefInv, NEW key \in Submitted, NEW site \in Sites, CreateController(key, site)
  PROVE  RefInv'
<1>1. PICK id \in IDs, k \in Keys \cup {Mask}, s \in Sites \cup {Default} :
        /\ id = lastID + 1 /\ lastID' = id
        /\ Store(id, k, s)
        /\ born' = [born EXCEPT ![id] = @ + 1]
        /\ UNCHANGED <<refs, run, loose>>
  <2>1. PICK s \in Sites \cup {Default} : Store(lastID', key, s)
    BY DEF CreateController
  <2>2. key \in Keys \cup {Mask}
    BY DEF CreateController, Submitted
  <2>3. lastID + 1 \in IDs
    BY SettingsAssumption DEF TypeOK, CreateController, IDs
  <2> QED BY <2>1, <2>2, <2>3 DEF CreateController
<1>2. Exists(id)' /\ \A n \in IDs \ {id} : ctrls'[n] = ctrls[n] /\ born'[n] = born[n]
  BY <1>1, StoreType DEF TypeOK
<1>3. lastID \in Nat /\ \A n \in IDs : n \in Nat
  BY SettingsAssumption DEF TypeOK, IDs
<1>4. \A n \in IDs : n > lastID' => ~Exists(n)' /\ born'[n] = 0
  BY <1>1, <1>2, <1>3 DEF RefInv, Exists
<1>5. \A j \in Jobs : refs'[j] # NoID => ctrls'[refs'[j]] # NoRow \/ refs'[j] \in loose'
  <2> SUFFICES ASSUME NEW j \in Jobs, refs[j] # NoID
               PROVE  ctrls'[refs[j]] # NoRow \/ refs[j] \in loose
    BY <1>1
  <2>1. refs[j] \in IDs /\ (ctrls[refs[j]] # NoRow \/ refs[j] \in loose)
    BY DEF RefInv, Exists, TypeOK
  <2> QED BY <1>2, <2>1 DEF Exists
<1>6. ASSUME NEW r \in Runners, run'[r] # NoRun
      PROVE  /\ ~run'[r].moved => refs'[run'[r].job] = run'[r].id
             /\ run'[r].born \in {0, born'[run'[r].id]}
  <2>1. run[r].id \in IDs /\ run'[r] = run[r]
    BY <1>1, <1>6 DEF TypeOK
  <2>2. run[r].id = id => born[id] = 0
    BY <1>1, <1>3 DEF RefInv
  <2> QED BY <1>1, <1>2, <1>6, <2>1, <2>2 DEF RefInv
<1> QED BY <1>4, <1>5, <1>6 DEF RefInv, Exists

(* What is deleted from under a job is loose. *)
LEMMA DeleteRefs ==
  ASSUME TypeOK, RefInv, NEW id \in IDs, DeleteController(id)
  PROVE  RefInv'
<1>1. /\ UNCHANGED <<lastID, refs, run, born>>
      /\ loose' = IF \E j \in Jobs : refs[j] = id THEN loose \cup {id} ELSE loose
      /\ ctrls' = [ctrls EXCEPT ![id] = NoRow]
  BY DEF DeleteController, Dangles
<1>2. ctrls'[id] = NoRow /\ \A n \in IDs \ {id} : ctrls'[n] = ctrls[n]
  BY <1>1 DEF TypeOK
<1>3. \A n \in IDs : n > lastID' => ~Exists(n)' /\ born'[n] = 0
  BY <1>1, <1>2 DEF RefInv, Exists
<1>4. ASSUME NEW j \in Jobs, refs[j] # NoID
      PROVE  Exists(refs[j])' \/ refs[j] \in loose'
  <2>1. refs[j] \in IDs /\ (Exists(refs[j]) \/ refs[j] \in loose)
    BY <1>4 DEF TypeOK, RefInv
  <2>2. CASE refs[j] = id
    BY <1>1, <2>2
  <2>3. CASE refs[j] # id
    BY <1>1, <1>2, <2>1, <2>3 DEF Exists
  <2> QED BY <2>2, <2>3
<1> QED BY <1>1, <1>3, <1>4 DEF RefInv

(* A job that gets another controller, or goes, marks the runs that have read it. *)
LEMMA MovedRefs ==
  ASSUME TypeOK, RefInv, NEW j \in Jobs, NEW id \in IDs \cup {NoID},
         refs' = [refs EXCEPT ![j] = id], Moved(j, id),
         UNCHANGED <<ctrls, lastID, born>>,
         loose \subseteq loose', id # NoID => Exists(id) \/ id \in loose'
  PROVE  RefInv'
<1>1. \A n \in IDs : n > lastID' => ~Exists(n)' /\ born'[n] = 0
  BY DEF RefInv, Exists
<1>2. refs'[j] = id /\ \A k \in Jobs \ {j} : refs'[k] = refs[k]
  BY DEF TypeOK
<1>3. \A k \in Jobs : refs'[k] # NoID => ctrls'[refs'[k]] # NoRow \/ refs'[k] \in loose'
  BY <1>2 DEF RefInv, Exists
<1>4. ASSUME NEW r \in Runners, run'[r] # NoRun
      PROVE  /\ ~run'[r].moved => refs'[run'[r].job] = run'[r].id
             /\ run'[r].born \in {0, born'[run'[r].id]}
  <2>1. run \in [Runners -> Pending \cup {NoRun}]
    BY DEF TypeOK, Pending
  <2>2. CASE run[r] # NoRun /\ run[r].job = j /\ run[r].id # id
    <3>1. run[r] \in Pending /\ run'[r] = [run[r] EXCEPT !.moved = TRUE]
      BY <2>1, <2>2, MovedType
    <3>2. run'[r].moved /\ run'[r].born = run[r].born /\ run'[r].id = run[r].id
      BY <3>1 DEF Pending
    <3> QED BY <2>2, <3>2 DEF RefInv
  <2>3. CASE ~(run[r] # NoRun /\ run[r].job = j /\ run[r].id # id)
    <3>1. run'[r] = run[r] /\ run[r] # NoRun
      BY <1>4, <2>1, <2>3, MovedType
    <3>2. run[r].job \in Jobs
      BY <2>1, <3>1 DEF Pending
    <3> QED BY <1>2, <2>3, <3>1, <3>2 DEF RefInv
  <2> QED BY <2>2, <2>3
<1> QED BY <1>1, <1>3, <1>4 DEF RefInv, Exists

LEMMA RunRefs ==
  ASSUME TypeOK, RefInv, NEW r \in Runners
  PROVE  /\ RunTakesController(r) => RefInv'
         /\ \A j \in Jobs : RunReadsJob(r, j) => RefInv'
<1>1. ASSUME RunTakesController(r) PROVE RefInv'
  <2>1. \A q \in Runners : run'[q] # NoRun => run'[q] = run[q]
    BY <1>1 DEF RunTakesController, TypeOK
  <2> QED BY <1>1, <2>1 DEF RunTakesController, RefInv, Exists
<1>2. ASSUME NEW j \in Jobs, RunReadsJob(r, j) PROVE RefInv'
  <2>1. PICK p \in Pending : /\ run' = [run EXCEPT ![r] = p]
                             /\ p.job = j /\ p.id = refs[j] /\ p.born \in {0, born[refs[j]]}
    BY <1>2, ReadsPending, TypeSplit
  <2>2. run'[r] = p /\ \A q \in Runners \ {r} : run'[q] = run[q]
    BY <2>1 DEF TypeOK
  <2>3. UNCHANGED <<ctrls, lastID, refs, born, loose>>
    BY <1>2 DEF RunReadsJob
  <2> QED BY <2>1, <2>2, <2>3 DEF RefInv, Exists
<1> QED BY <1>1, <1>2

LEMMA NextRefs == TypeOK /\ RefInv /\ [Next]_vars => RefInv'
<1> SUFFICES ASSUME TypeOK, RefInv, [Next]_vars PROVE RefInv'
  OBVIOUS
<1>1. ASSUME NEW j \in Jobs, DeleteJob(j) PROVE RefInv'
  BY <1>1, MovedRefs DEF DeleteJob
<1>2. ASSUME NEW j \in Jobs, NEW id \in IDs, SaveJob(j, id) PROVE RefInv'
  <2>1. loose \subseteq loose' /\ (Exists(id) \/ id \in loose')
    BY <1>2 DEF SaveJob, Dangles
  <2> QED BY <1>2, <2>1, MovedRefs DEF SaveJob
<1>3. CASE ControllerStep
  <2>1. ASSUME NEW c \in Clients, UpdateWrite(c) PROVE RefInv'
    <3>1. PICK id \in IDs, site \in Sites : id = req[c].id /\ site = req[c].site
      BY <2>1 DEF UpdateWrite, TypeOK
    <3>2. Blank \in Submitted
      BY DEF Submitted
    <3> QED BY <2>1, <3>1, <3>2, UpdateRefs
  <2>2. ASSUME NEW key \in Submitted, NEW site \in Sites, NEW id \in IDs,
               \/ UpdateWithKey(id, key, site)
               \/ \E c \in Clients : UpdateRead(c, id, key, site)
        PROVE  RefInv'
    BY <2>2, UpdateRefs
  <2> QED BY <1>1, <1>2, <1>3, <2>1, <2>2, CreateRefs, DeleteRefs, RunRefs DEF ControllerStep
<1>4. CASE ServerStep
  BY <1>4, ServerStepKeeps, RewriteRefs DEF ctrlVars, Exists
<1>5. CASE Crash
  <2>1. \A r \in Runners : run'[r] = NoRun
    BY <1>5 DEF Crash
  <2> QED BY <1>5, <2>1 DEF Crash, RefInv, Exists
<1>6. CASE UNCHANGED vars
  BY <1>6, RewriteRefs DEF vars, runVars, Exists
<1> QED BY <1>3, <1>4, <1>5, <1>6, NextCases

(* Whether or not a connection has the pragma: between its two reads a run  *)
(* never comes by another controller, and loses its own only if its job has *)
(* been moved or deleted, or if a reference was left dangling.              *)
THEOREM RunsKeepController == Spec => []RunKeepsController
<1>1. TypeOK /\ RefInv => RunKeepsController
  <2> SUFFICES ASSUME TypeOK, RefInv, NEW r \in Runners, run[r] # NoRun
               PROVE  IF Exists(run[r].id) THEN run[r].born \in {0, born[run[r].id]}
                      ELSE run[r].moved \/ run[r].id \in loose
    BY DEF RunKeepsController
  <2>1. run[r].job \in Jobs /\ run[r].id \in IDs /\ NoID \notin IDs
    BY SettingsAssumption DEF TypeOK, IDs
  <2> QED BY <2>1 DEF RefInv
<1> QED BY <1>1, InitRefs, NextRefs, TypeCorrect, PTL DEF Spec
-----------------------------------------------------------------------------
(* The DNS servers *)

LEMMA NoServersZero ==
  NoServers \in [ServerRow -> Nat] /\ \A s \in ServerRow : NoServers[s] = 0
  BY DEF NoServers

LEMMA InitServers == Init => ServerInv
  BY NoServersZero DEF Init, ServerInv, SeedInv, RestartKeepsServers

(* What migrate inserts was not there: the rows before it are of other      *)
(* addresses.                                                               *)
LEMMA SeedServers == ASSUME TypeOK, ServerInv, Seed PROVE ServerInv'
<1>1. ServerTypes
  BY TypeSplit
<1>2. PICK s \in ServerRow : s = [addr |-> Seeds[seeding], on |-> TRUE]
  BY <1>1, SeedRow
<1>3. /\ seeding \in DOMAIN Seeds /\ seeding' = seeding + 1
      /\ left \in {Untouched, NoServers} /\ left' = left /\ phase = "seed"
      /\ servers[s] = 0
      /\ servers' = servers \/ servers' = Insert(servers, s)
  BY <1>1, <1>2, SeedRow, SettingsAssumption DEF Seed, ServerInv, SeedInv, ServerTypes
<1>4. servers'[s] \in {0, 1} /\ \A t \in ServerRow \ {s} : servers'[t] = servers[t]
  BY <1>1, <1>3, TableTypes DEF ServerTypes
<1>5. RestartKeepsServers'
  <2>1. s.on
    BY <1>2
  <2>2. left = Untouched => \A t \in ServerRow : servers[t] > 0 => servers[t] = 1 /\ t.on
    BY DEF ServerInv, RestartKeepsServers
  <2>3. left = Untouched => \A t \in ServerRow : servers'[t] > 0 => servers'[t] = 1 /\ t.on
    BY <1>4, <2>1, <2>2
  <2> QED BY <1>3, <2>3 DEF RestartKeepsServers
<1>6. SeedInv'
  <2> SUFFICES ASSUME NEW i \in DOMAIN Seeds, i >= seeding'
               PROVE  servers'[[addr |-> Seeds[i], on |-> TRUE]] = 0
    BY <1>3 DEF SeedInv
  <2>1. i \in Nat /\ seeding \in Nat /\ i >= seeding /\ i # seeding
    BY <1>1, <1>3, SettingsAssumption DEF ServerTypes
  <2>2. Seeds[i] # Seeds[seeding] /\ Seeds[i] \in Addresses
    BY <1>3, <2>1, SettingsAssumption
  <2>3. PICK t \in ServerRow : t = [addr |-> Seeds[i], on |-> TRUE]
    BY <2>2 DEF ServerRow
  <2>4. t.addr # s.addr
    BY <1>2, <2>2, <2>3
  <2>5. servers'[t] = servers[t]
    BY <1>4, <2>4
  <2> QED BY <1>3, <2>1, <2>3, <2>5 DEF ServerInv, SeedInv
<1> QED BY <1>5, <1>6 DEF ServerInv

LEMMA NextServers == TypeOK /\ ServerInv /\ [Next]_vars => ServerInv'
<1> SUFFICES ASSUME TypeOK, ServerInv, [Next]_vars PROVE ServerInv'
  OBVIOUS
<1>1. ServerTypes
  BY TypeSplit
<1>2. CASE OperatorStep
  BY <1>1, <1>2, OperatorTypes, UntouchedIsNone
     DEF ServerInv, SeedInv, RestartKeepsServers, boot
<1>3. CASE Count
  <2>1. UNCHANGED <<servers, left>> /\ (phase' = "seed" => servers = NoServers)
    BY <1>3 DEF Count, serverVars
  <2>2. servers = NoServers => left \in {Untouched, NoServers}
    BY DEF ServerInv, RestartKeepsServers
  <2>3. \A i \in DOMAIN Seeds : [addr |-> Seeds[i], on |-> TRUE] \in ServerRow
    BY SettingsAssumption DEF ServerRow
  <2>4. SeedInv'
    BY <2>1, <2>2, <2>3, NoServersZero DEF SeedInv
  <2>5. RestartKeepsServers'
    BY <2>1 DEF ServerInv, RestartKeepsServers
  <2> QED BY <2>4, <2>5 DEF ServerInv
<1>4. CASE Start \/ Up \/ Crash
  BY <1>4 DEF Start, Up, Crash, serverVars, ServerInv, SeedInv, RestartKeepsServers
<1>5. CASE Seed
  BY <1>5, SeedServers
<1>6. CASE UNCHANGED <<serverVars, boot>>
  BY <1>6 DEF serverVars, boot, ServerInv, SeedInv, RestartKeepsServers
<1>7. CASE UNCHANGED vars
  BY <1>6, <1>7 DEF vars, serverVars, boot
<1> QED BY <1>2, <1>3, <1>4, <1>5, <1>6, <1>7, NextCases, ControllerStepKeeps DEF ServerStep

(* A start leaves alone the servers that an operator has left; and while    *)
(* none has changed the table, no well-known server is there twice, however *)
(* often the process ends while it seeds the table.                         *)
THEOREM ServersSafe == Spec => []RestartKeepsServers
<1>1. ServerInv => RestartKeepsServers
  BY DEF ServerInv
<1> QED BY <1>1, InitServers, NextServers, TypeCorrect, PTL DEF Spec
=============================================================================
