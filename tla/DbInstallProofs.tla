--------------------------- MODULE DbInstallProofs ---------------------------
(***************************************************************************)
(* Proofs about DbInstall, for any number of clients and of runs of the    *)
(* installer.  The invariant follows psql through its script: which        *)
(* statements are still to come tells what the earlier ones, failed or     *)
(* not, have left in the database.                                         *)
(***************************************************************************)
EXTENDS DbInstall, SequenceTheorems, TLAPS

-----------------------------------------------------------------------------
(***************************************************************************)
(* What is left of a script.                                               *)
(***************************************************************************)
FromViews == <<"views">>
FromSeed == <<"seed", "views">>
FromTables == <<"tables", "seed", "views">>
FromConnect == <<"connect", "tables", "seed", "views">>
FromOwner == <<"owner", "connect", "tables", "seed", "views">>
FromCreateDb == <<"createdb", "owner", "connect", "tables", "seed", "views">>
FromDrop ==
    <<"drop", "createdb", "owner", "connect", "tables", "seed", "views">>
FromTerminate ==
    <<"terminate", "drop", "createdb", "owner", "connect", "tables", "seed",
      "views">>
FromUser ==
    <<"user", "terminate", "drop", "createdb", "owner", "connect", "tables",
      "seed", "views">>

Statements == {"user", "terminate", "drop", "createdb", "owner", "connect",
               "tables", "seed", "views"}

OnlyOwner == <<"owner">>
OnlyCreateDb == <<"createdb", "owner">>
OnlyDrop == <<"drop", "createdb", "owner">>
OnlyTerminate == <<"terminate", "drop", "createdb", "owner">>
UpdateConnect == <<"connect", "views">>

USE DEF FromViews, FromSeed, FromTables, FromConnect, FromOwner, FromCreateDb,
        FromDrop, FromTerminate, FromUser, OnlyOwner, OnlyCreateDb, OnlyDrop,
        OnlyTerminate, UpdateConnect, Statements

LEMMA Programs ==
    /\ Program("init") = FromUser
    /\ Program("install") = FromTerminate
    /\ Program("create") = FromTables
    /\ Program("database") = OnlyTerminate
    /\ Program("update") = UpdateConnect
<1> DEFINE D == OnlyTerminate  C == <<"connect">>  T == FromTables
           U == <<"user">>
<1>1. /\ D \in Seq(Statements) /\ C \in Seq(Statements) /\ T \in Seq(Statements)
      /\ U \in Seq(Statements)
      /\ Len(D) = 4 /\ Len(C) = 1 /\ Len(T) = 3 /\ Len(U) = 1
  OBVIOUS
<1>2. D \o C \in Seq(Statements) /\ Len(D \o C) = 5
      /\ \A i \in 1 .. 5 : (D \o C)[i] = IF i <= 4 THEN D[i] ELSE C[i - 4]
  BY <1>1, ConcatProperties
<1>3. (D \o C) \o T \in Seq(Statements) /\ Len((D \o C) \o T) = 8
      /\ \A i \in 1 .. 8 : ((D \o C) \o T)[i] =
            IF i <= 5 THEN (D \o C)[i] ELSE T[i - 5]
  BY <1>1, <1>2, ConcatProperties
<1>4. (D \o C) \o T = FromTerminate
  <2>1. FromTerminate \in Seq(Statements) /\ Len(FromTerminate) = 8 OBVIOUS
  <2>2. ASSUME NEW i \in 1 .. 8
        PROVE  ((D \o C) \o T)[i] = FromTerminate[i]
    <3>1. ((D \o C) \o T)[i] =
             IF i <= 4 THEN D[i] ELSE IF i = 5 THEN C[1] ELSE T[i - 5]
      BY <1>2, <1>3
    <3>2. i \in {1, 2, 3, 4, 5, 6, 7, 8} OBVIOUS
    <3>3. QED BY <3>1, <3>2
  <2>3. QED BY <1>3, <2>1, <2>2, SeqEqual
<1>5. ((U \o D) \o C) \o T = FromUser
  <2>1. ((U \o D) \o C) \o T = U \o ((D \o C) \o T)
    <3>1. U \o D \in Seq(Statements) BY <1>1, ConcatProperties
    <3>2. (U \o D) \o C = U \o (D \o C) BY <1>1, ConcatAssociative
    <3>3. (U \o (D \o C)) \o T = U \o ((D \o C) \o T)
      BY <1>1, <1>2, ConcatAssociative
    <3>4. QED BY <3>2, <3>3
  <2>2. U \o FromTerminate = FromUser
    <3>1. /\ FromTerminate \in Seq(Statements) /\ Len(FromTerminate) = 8
          /\ FromUser \in Seq(Statements) /\ Len(FromUser) = 9
      OBVIOUS
    <3>2. /\ U \o FromTerminate \in Seq(Statements)
          /\ Len(U \o FromTerminate) = 9
          /\ \A i \in 1 .. 9 : (U \o FromTerminate)[i] =
                IF i <= 1 THEN U[i] ELSE FromTerminate[i - 1]
      BY <1>1, <3>1, ConcatProperties
    <3>3. ASSUME NEW i \in 1 .. 9
          PROVE  (U \o FromTerminate)[i] = FromUser[i]
      <4>1. i \in {1, 2, 3, 4, 5, 6, 7, 8, 9} OBVIOUS
      <4>2. QED BY <3>2, <4>1
    <3>4. QED BY <3>1, <3>2, <3>3, SeqEqual
  <2>3. QED BY <1>4, <2>1, <2>2
<1>6. QED BY <1>4, <1>5 DEF Program, db_psql, create_psql
-----------------------------------------------------------------------------
(***************************************************************************)
(* psql is somewhere in its script; and which statement follows which.     *)
(***************************************************************************)
Building == {FromViews, FromSeed, FromTables, FromConnect, FromOwner,
             FromCreateDb, FromDrop, FromTerminate, FromUser}
Alone == {OnlyOwner, OnlyCreateDb, OnlyDrop, OnlyTerminate}

Position ==
    \/ pc = <<>>
    \/ script = "init" /\ pc \in Building
    \/ script = "install" /\ pc \in Building \ {FromUser}
    \/ script = "create" /\ pc \in {FromTables, FromSeed, FromViews}
    \/ script = "database" /\ pc \in Alone
    \/ script = "update" /\ pc \in {UpdateConnect, FromViews}

Follows(h, S) == pc # <<>> /\ Head(pc) = h => pc' # <<>> /\ Head(pc') \in S
Ends(h) == pc # <<>> /\ Head(pc) = h => pc' = <<>>

LEMMA Successors ==
    ASSUME Position, pc # <<>>, pc' = Tail(pc), script' = script
    PROVE  /\ Position'
           /\ Follows("user", {"terminate"}) /\ Follows("terminate", {"drop"})
           /\ Follows("drop", {"createdb"}) /\ Follows("createdb", {"owner"})
           /\ IF script = "database" THEN Ends("owner")
                                     ELSE Follows("owner", {"connect"})
           /\ IF script = "update" THEN Follows("connect", {"views"})
                                   ELSE Follows("connect", {"tables"})
           /\ Follows("tables", {"seed"}) /\ Follows("seed", {"views"})
           /\ Ends("views")
<1> USE DEF Building, Alone, Position, Follows, Ends
<1>1. CASE pc = FromViews BY <1>1
<1>2. CASE pc = FromSeed BY <1>2
<1>3. CASE pc = FromTables BY <1>3
<1>4. CASE pc = FromConnect BY <1>4
<1>5. CASE pc = FromOwner BY <1>5
<1>6. CASE pc = FromCreateDb BY <1>6
<1>7. CASE pc = FromDrop BY <1>7
<1>8. CASE pc = FromTerminate BY <1>8
<1>9. CASE pc = FromUser BY <1>9
<1>10. CASE pc = OnlyOwner BY <1>10
<1>11. CASE pc = OnlyCreateDb BY <1>11
<1>12. CASE pc = OnlyDrop BY <1>12
<1>13. CASE pc = OnlyTerminate BY <1>13
<1>14. CASE pc = UpdateConnect BY <1>14
<1>15. QED
  BY <1>1, <1>2, <1>3, <1>4, <1>5, <1>6, <1>7, <1>8, <1>9, <1>10, <1>11,
     <1>12, <1>13, <1>14

LEMMA Statement ==
    ASSUME Position, pc # <<>>
    PROVE  /\ script = "update" => Head(pc) \in {"connect", "views"}
           /\ script = "create" => Head(pc) \in {"tables", "seed", "views"}
           /\ script = "database" =>
                Head(pc) \in {"terminate", "drop", "createdb", "owner"}
BY DEF Position, Building, Alone

LEMMA Start ==
    ASSUME NEW s \in Scripts, script' = s, pc' = Program(s)
    PROVE  /\ Position' /\ pc' # <<>>
           /\ Head(pc') \in {"user", "terminate", "tables", "connect"}
           /\ Head(pc') = "tables" => s = "create"
           /\ Head(pc') = "connect" => s = "update"
BY Programs DEF Scripts, Position, Building, Alone

HIDE DEF FromViews, FromSeed, FromTables, FromConnect, FromOwner, FromCreateDb,
         FromDrop, FromTerminate, FromUser, OnlyOwner, OnlyCreateDb, OnlyDrop,
         OnlyTerminate, UpdateConnect, Statements

-----------------------------------------------------------------------------
Database == [exists : BOOLEAN, tables : BOOLEAN, seeded : BOOLEAN,
             rows : SUBSET (0 .. MaxRuns), views : -1 .. MaxRuns]

InstallInv ==
    /\ TypeOK /\ Position
    /\ db \in [Databases -> Database]
    /\ db["template1"].exists
    /\ pc # <<>> /\ at = "web" =>
          db["web"].exists /\ Head(pc) \in {"tables", "seed", "views"}
    /\ script = "update" /\ Doing("views") => at = "web"

(***************************************************************************)
(* A statement that changes one database into another of its kind.         *)
(***************************************************************************)
LEMMA OneDatabase ==
    ASSUME InstallInv, NEW d \in Databases, NEW new \in Database,
           db' = [db EXCEPT ![d] = new], new.exists \/ new = Absent
    PROVE  /\ db' \in [Databases -> Database]
           /\ db'[d] = new /\ \A e \in Databases \ {d} : db'[e] = db[e]
           /\ \A e \in Databases :
                 /\ db'[e].rows \subseteq 0 .. MaxRuns
                 /\ db'[e].views \in -1 .. MaxRuns
                 /\ ~db'[e].exists => db'[e] = Absent
<1>1. db' \in [Databases -> Database] BY DEF InstallInv
<1>2. db'[d] = new /\ \A e \in Databases \ {d} : db'[e] = db[e]
  BY DEF InstallInv
<1>3. new.rows \subseteq 0 .. MaxRuns /\ new.views \in -1 .. MaxRuns
  BY DEF Database
<1>4. QED BY <1>1, <1>2, <1>3 DEF InstallInv, TypeOK

LEMMA Kinds ==
    /\ Absent \in Database /\ ~Absent.exists /\ Absent.rows = {}
    /\ Empty \in Database /\ Empty.exists /\ Empty.rows = {}
<1>1. Absent \in Database BY DbInstallAssumption DEF Absent, Database
<1>2. ~Absent.exists /\ Absent.rows = {} BY DEF Absent
<1>3. Empty \in Database /\ Empty.exists /\ Empty.rows = {}
  BY <1>1, <1>2 DEF Database, Empty
<1>4. QED BY <1>1, <1>2, <1>3

LEMMA InUse ==
    ASSUME NEW new,
           new = [Empty EXCEPT !.tables = TRUE, !.seeded = TRUE, !.rows = {0},
                               !.views = 0]
    PROVE  new \in Database /\ new.exists
<1>1. {0} \in SUBSET (0 .. MaxRuns) /\ 0 \in -1 .. MaxRuns
  BY DbInstallAssumption
<1>2. new.exists = Empty.exists BY Kinds DEF Database
<1>3. new \in Database BY Kinds, <1>1 DEF Database
<1>4. QED BY <1>2, <1>3, Kinds

LEMMA InstallStart == Init => InstallInv
<1> SUFFICES ASSUME Init PROVE InstallInv OBVIOUS
<1>1. PICK web :
         /\ web \in Database /\ ((~role /\ web = Absent) \/ (role /\ web.exists))
         /\ \A d \in Databases : db[d] = IF d = "web" THEN web ELSE Empty
         /\ DOMAIN db = Databases
  <2>1. CASE /\ role = FALSE
             /\ db = [d \in Databases |-> IF d = "web" THEN Absent ELSE Empty]
    <3>1. PICK new : new = Absent OBVIOUS
    <3>2. /\ \A d \in Databases : db[d] = IF d = "web" THEN new ELSE Empty
          /\ DOMAIN db = Databases
      BY <2>1, <3>1
    <3>3. QED BY <2>1, <3>1, <3>2, Kinds
  <2>2. CASE role = TRUE
    <3>1. PICK new :
             new = [Empty EXCEPT !.tables = TRUE, !.seeded = TRUE,
                                 !.rows = {0}, !.views = 0]
      OBVIOUS
    <3>2. /\ \A d \in Databases : db[d] = IF d = "web" THEN new ELSE Empty
          /\ DOMAIN db = Databases
      BY <2>2, <3>1 DEF Init
    <3>3. QED BY <2>2, <3>1, <3>2, InUse
  <2>3. QED BY <2>1, <2>2 DEF Init
<1>2. /\ db["web"] = web /\ db["template1"] = Empty
      /\ \A d \in Databases : db[d] \in Database
  BY <1>1, Kinds DEF Databases
<1>3. db \in [Databases -> Database]
  <2>1. db = [d \in Databases |-> db[d]] BY <1>1 DEF Init
  <2>2. QED BY <1>2, <2>1
<1>4. conns # {} => role /\ db["web"].exists
  BY <1>1, <1>2, Kinds DEF Init
<1>5. \A d \in Databases :
         /\ db[d].rows \subseteq 0 .. MaxRuns /\ db[d].views \in -1 .. MaxRuns
         /\ ~db[d].exists => db[d] = Absent
  BY <1>1, <1>2, Kinds DEF Databases, Database
<1>6. conns \subseteq Clients /\ role \in BOOLEAN BY DEF Init
<1>7. QED
  BY <1>2, <1>3, <1>4, <1>5, <1>6, Kinds, DbInstallAssumption
     DEF Init, InstallInv, TypeOK, Position, Databases, Scripts, Doing

LEMMA InstallSteps == InstallInv /\ [Next]_vars => InstallInv'
<1> SUFFICES ASSUME InstallInv, [Next]_vars PROVE InstallInv' OBVIOUS
<1> USE DEF InstallInv, TypeOK, Databases
<1>1. ASSUME NEW s \in Scripts, Invoke(s) PROVE InstallInv'
  <2>1. Position' /\ pc' # <<>> /\ ~Doing("views")'
    BY <1>1, Start DEF Invoke, Doing
  <2>2. run' \in 0 .. MaxRuns BY <1>1, DbInstallAssumption DEF Invoke
  <2>3. QED BY <1>1, <2>1, <2>2 DEF Invoke
<1>2. ASSUME Step, UNCHANGED <<script, at>>, pc # <<>>, ~Doing("connect")
      PROVE  /\ Position' /\ (code' = -1) = (pc' # <<>>) /\ code' \in -1 .. 1
             /\ script = "update" => ~Doing("views")'
             /\ at = "web" /\ pc' # <<>> => Head(pc') \in {"seed", "views"}
  BY <1>2, Successors, Statement DEF Step, Exits, Doing, Ends, Follows
<1>3. CASE CreateUser BY <1>2, <1>3 DEF CreateUser, Doing
<1>4. CASE Terminate BY <1>2, <1>4 DEF Terminate, Doing
<1>5. CASE Drop
  <2>1. pc # <<>> /\ at # "web" /\ ~Doing("connect") BY <1>5 DEF Drop, Doing
  <2>2. CASE conns = {}
    <3>1. db' = [db EXCEPT !["web"] = Absent] BY <1>5, <2>2 DEF Drop
    <3>2. QED BY <1>2, <1>5, <2>1, <2>2, <3>1, OneDatabase, Kinds DEF Drop
  <2>3. CASE conns # {} BY <1>2, <1>5, <2>1, <2>3 DEF Drop
  <2>4. QED BY <2>2, <2>3
<1>6. CASE CreateDb
  <2>1. pc # <<>> /\ ~Doing("connect") BY <1>6 DEF CreateDb, Doing
  <2>2. CASE ~db["web"].exists
    <3>1. db' = [db EXCEPT !["web"] = Empty] BY <1>6, <2>2 DEF CreateDb
    <3>2. QED BY <1>2, <1>6, <2>1, <2>2, <3>1, OneDatabase, Kinds DEF CreateDb
  <2>3. CASE db["web"].exists BY <1>2, <1>6, <2>1, <2>3 DEF CreateDb
  <2>4. QED BY <2>2, <2>3
<1>7. CASE Owner BY <1>2, <1>7 DEF Owner, Doing
<1>8. CASE Reconnect
  <2>1. CASE role /\ db["web"].exists
    BY <1>8, <2>1, Successors, Statement
       DEF Reconnect, Doing, Step, Exits, Follows
  <2>2. CASE ~(role /\ db["web"].exists)
    BY <1>8, <2>2 DEF Reconnect, Doing, Position
  <2>3. QED BY <2>1, <2>2
<1>9. ASSUME NEW new \in Database, db' = [db EXCEPT ![at] = new],
             new.exists = db[at].exists, Step, pc # <<>>, ~Doing("connect"),
             Head(pc) \in {"tables", "seed", "views"},
             UNCHANGED <<role, conns, script, run, at, inUse>>
      PROVE  InstallInv'
  <2>1. db[at].exists BY <1>9
  <2>2. QED BY <1>2, <1>9, <2>1, OneDatabase
<1>10. db[at] \in Database OBVIOUS
<1>11. CASE CreateTables
  <2>1. PICK new : new = [db[at] EXCEPT !.tables = TRUE] OBVIOUS
  <2>2. new \in Database /\ new.exists = db[at].exists
    BY <1>10, <2>1 DEF Database
  <2>3. db' = [db EXCEPT ![at] = new] BY <1>11, <2>1 DEF CreateTables
  <2>4. QED BY <1>9, <1>11, <2>2, <2>3 DEF CreateTables, Doing
<1>12. CASE Seed
  <2>1. PICK new : new = [db[at] EXCEPT !.seeded = @ \/ db[at].tables] OBVIOUS
  <2>2. new \in Database /\ new.exists = db[at].exists
    BY <1>10, <2>1 DEF Database
  <2>3. db' = [db EXCEPT ![at] = new] BY <1>12, <2>1 DEF Seed
  <2>4. QED BY <1>9, <1>12, <2>2, <2>3 DEF Seed, Doing
<1>13. CASE Views
  <2>1. PICK new : new = [db[at] EXCEPT !.views = IF db[at].tables THEN run
                                                  ELSE @] OBVIOUS
  <2>2. new \in Database /\ new.exists = db[at].exists
    BY <1>10, <2>1, DbInstallAssumption DEF Database
  <2>3. db' = [db EXCEPT ![at] = new] BY <1>13, <2>1 DEF Views
  <2>4. QED BY <1>9, <1>13, <2>2, <2>3 DEF Views, Doing
<1>14. ASSUME NEW c \in Clients, Connect(c) PROVE InstallInv'
  BY <1>14 DEF Connect, Position, Doing
<1>15. ASSUME NEW c \in Clients, Disconnect(c) PROVE InstallInv'
  BY <1>15 DEF Disconnect, Position, Doing
<1>16. ASSUME NEW c \in Clients, Publish(c) PROVE InstallInv'
  <2>1. PICK new : new = [db["web"] EXCEPT !.rows = @ \cup {run}] OBVIOUS
  <2>2. new \in Database /\ new.exists
    <3>1. db["web"] \in Database /\ db["web"].exists BY <1>16 DEF Publish
    <3>2. db["web"].rows \cup {run} \in SUBSET (0 .. MaxRuns) OBVIOUS
    <3>3. QED BY <2>1, <3>1, <3>2 DEF Database
  <2>3. db' = [db EXCEPT !["web"] = new] BY <1>16, <2>1 DEF Publish
  <2>4. QED
    BY <1>16, <2>2, <2>3, OneDatabase DEF Publish, Position, Doing
<1>17. CASE UNCHANGED vars BY <1>17 DEF vars, Position, Doing
<1>18. QED
  BY <1>1, <1>3, <1>4, <1>5, <1>6, <1>7, <1>8, <1>11, <1>12, <1>13, <1>14,
     <1>15, <1>16, <1>17 DEF Next, Psql

(***************************************************************************)
(* Types: a database that does not exist holds nothing and has no clients, *)
(* and install.sh has an exit code once psql has ended.                    *)
(***************************************************************************)
THEOREM TypeCorrect == Spec => []TypeOK
<1>1. Spec => []InstallInv BY InstallStart, InstallSteps, PTL DEF Spec
<1>2. InstallInv => TypeOK BY DEF InstallInv
<1>3. QED BY <1>1, <1>2, PTL

(***************************************************************************)
(* --update of install.sh loses no row, no table and no client, whatever   *)
(* the clients do meanwhile.                                               *)
(***************************************************************************)
THEOREM UpdateCorrect == Spec => UpdateKeepsData
<1> DEFINE Keeps == script = "update" /\ pc # <<>> =>
        /\ db["web"].rows \subseteq db'["web"].rows
        /\ db["web"].tables => db'["web"].tables
        /\ \E c \in Clients : conns \ {c} \subseteq conns'
<1>1. InstallInv /\ [Next]_vars => [Keeps]_vars
  <2> SUFFICES ASSUME InstallInv, Next, script = "update", pc # <<>>
               PROVE  Keeps
    OBVIOUS
  <2>1. Head(pc) \in {"connect", "views"} BY Statement DEF InstallInv
  <2>2. ASSUME UNCHANGED <<db, conns>> PROVE Keeps
    BY <2>2, DbInstallAssumption
  <2>3. CASE Reconnect BY <2>2, <2>3 DEF Reconnect
  <2>4. CASE Views
    <3>1. PICK new : new = [db[at] EXCEPT !.views = IF db[at].tables THEN run
                                                    ELSE @]
      OBVIOUS
    <3>2. db[at] \in Database BY DEF InstallInv, TypeOK
    <3>3. new.rows = db[at].rows /\ new.tables = db[at].tables
      BY <3>1, <3>2 DEF Database
    <3>4. db' = [db EXCEPT ![at] = new] /\ UNCHANGED conns
      BY <2>4, <3>1 DEF Views
    <3>5. db'["web"].rows = db["web"].rows /\ db'["web"].tables = db["web"].tables
      BY <3>3, <3>4 DEF InstallInv, Databases
    <3>6. QED BY <3>4, <3>5, DbInstallAssumption
  <2>5. ASSUME NEW c \in Clients, Connect(c) PROVE Keeps
    BY <2>5 DEF Connect
  <2>6. ASSUME NEW c \in Clients, Disconnect(c) PROVE Keeps
    BY <2>6 DEF Disconnect
  <2>7. ASSUME NEW c \in Clients, Publish(c) PROVE Keeps
    <3>1. PICK new : new = [db["web"] EXCEPT !.rows = @ \cup {run}] OBVIOUS
    <3>2. db["web"] \in Database BY DEF InstallInv, Databases
    <3>3. /\ new.rows = db["web"].rows \cup {run}
          /\ new.tables = db["web"].tables
      BY <3>1, <3>2 DEF Database
    <3>4. db' = [db EXCEPT !["web"] = new] /\ UNCHANGED conns
      BY <2>7, <3>1 DEF Publish
    <3>5. db'["web"] = new BY <3>4 DEF InstallInv, Databases
    <3>6. QED BY <3>3, <3>4, <3>5, DbInstallAssumption
  <2>8. QED
    BY <2>1, <2>3, <2>4, <2>5, <2>6, <2>7
       DEF Next, Psql, Invoke, CreateUser, Terminate, Drop, CreateDb, Owner,
           CreateTables, Seed, Doing
<1>2. QED BY <1>1, InstallStart, InstallSteps, PTL DEF Spec, UpdateKeepsData

-----------------------------------------------------------------------------
(***************************************************************************)
(* What the script has left behind when DROP DATABASE found nobody         *)
(* connected: it succeeded, and the statements that follow find nothing    *)
(* that could make them fail, whoever connects meanwhile.                  *)
(***************************************************************************)
Before(S) == pc # <<>> /\ Head(pc) \in S

RebuildInv ==
    /\ inUse = {} /\ script \in {"init", "install", "database"} =>
        /\ Before({"createdb", "owner", "connect", "tables", "seed", "views"})
              => db["web"].rows \subseteq {run}
        /\ Before({"owner", "connect", "tables", "seed", "views"})
              => db["web"].exists
    /\ script \in {"init", "install"} =>
           (Before({"tables", "seed", "views"}) => at = "web")
    /\ inUse = {} /\ script \in {"init", "install"} =>
        /\ Before({"seed", "views"}) => db["web"].tables
        /\ Before({"views"}) => db["web"].seeded
    /\ LostUnlessInUse

LEMMA RebuildStart == Init => RebuildInv
BY DEF Init, RebuildInv, Before, LostUnlessInUse, DataLostAsWarned, Ended

LEMMA RebuildSteps ==
    ASSUME InstallInv, RebuildInv, [Next]_vars
    PROVE  RebuildInv'
<1> USE DEF RebuildInv, Before, LostUnlessInUse, DataLostAsWarned, Ended
<1>1. ASSUME NEW s \in Scripts, Invoke(s) PROVE RebuildInv'
  BY <1>1, Start DEF Invoke
<1>2. CASE CreateUser
  BY <1>2, Successors DEF CreateUser, Doing, Step, Exits, InstallInv, Follows
<1>3. CASE Terminate
  BY <1>3, Successors DEF Terminate, Doing, Step, Exits, InstallInv, Follows
<1>4. CASE Drop
  <2>1. script \in {"init", "install", "database"}
    BY <1>4, Statement DEF Drop, Doing, InstallInv, TypeOK, Scripts
  <2>2. inUse' = {} => db'["web"].rows = {}
    BY <1>4, <2>1, Kinds DEF Drop, InstallInv, Databases
  <2>3. QED
    BY <1>4, <2>1, <2>2, Successors
       DEF Drop, Doing, Step, Exits, InstallInv, Follows
<1>5. CASE CreateDb
  <2>1. script \in {"init", "install", "database"}
    BY <1>5, Statement DEF CreateDb, Doing, InstallInv, TypeOK, Scripts
  <2>2. db'["web"].exists /\ (inUse = {} => db'["web"].rows \subseteq {run})
    BY <1>5, <2>1, Kinds DEF CreateDb, Doing, InstallInv, Databases
  <2>3. QED
    BY <1>5, <2>1, <2>2, Successors
       DEF CreateDb, Doing, Step, Exits, InstallInv, Follows
<1>6. CASE Owner
  BY <1>6, Successors
     DEF Owner, Doing, Step, Exits, InstallInv, Follows, Ends
<1>7. CASE Reconnect
  BY <1>7, Successors, Statement
     DEF Reconnect, Doing, Step, Exits, InstallInv, Follows
<1>8. CASE CreateTables
  <2>1. PICK new : new = [db[at] EXCEPT !.tables = TRUE] OBVIOUS
  <2>2. /\ new.tables /\ new.rows = db[at].rows /\ new.exists = db[at].exists
        /\ db' = [db EXCEPT ![at] = new]
    BY <1>8, <2>1 DEF CreateTables, InstallInv, TypeOK, Database
  <2>3. /\ db'[at].tables /\ db'["web"].rows = db["web"].rows
        /\ db'["web"].exists = db["web"].exists
    BY <2>2 DEF InstallInv, TypeOK, Databases
  <2>4. QED
    BY <1>8, <2>3, Successors
       DEF CreateTables, Doing, Step, Exits, InstallInv, Follows
<1>9. CASE Seed
  <2>1. PICK new : new = [db[at] EXCEPT !.seeded = @ \/ db[at].tables] OBVIOUS
  <2>2. /\ db[at].tables => new.seeded
        /\ new.tables = db[at].tables /\ new.rows = db[at].rows
        /\ new.exists = db[at].exists /\ db' = [db EXCEPT ![at] = new]
    BY <1>9, <2>1 DEF Seed, InstallInv, TypeOK, Database
  <2>3. /\ db[at].tables => db'[at].seeded
        /\ db'["web"].rows = db["web"].rows
        /\ db'["web"].tables = db["web"].tables
        /\ db'["web"].exists = db["web"].exists
    BY <2>2 DEF InstallInv, TypeOK, Databases
  <2>4. QED
    BY <1>9, <2>3, Successors
       DEF Seed, Doing, Step, Exits, InstallInv, Follows
<1>10. CASE Views
  <2>1. PICK new : new = [db[at] EXCEPT !.views = IF db[at].tables THEN run
                                                  ELSE @]
    OBVIOUS
  <2>2. /\ db[at].tables => new.views = run
        /\ new.seeded = db[at].seeded
        /\ new.tables = db[at].tables /\ new.rows = db[at].rows
        /\ new.exists = db[at].exists /\ db' = [db EXCEPT ![at] = new]
    BY <1>10, <2>1 DEF Views, InstallInv, TypeOK, Database
  <2>3. /\ db[at].tables => db'[at].views = run
        /\ db'["web"].seeded = db["web"].seeded
        /\ db'["web"].rows = db["web"].rows
        /\ db'["web"].tables = db["web"].tables
        /\ db'["web"].exists = db["web"].exists
    BY <2>2 DEF InstallInv, TypeOK, Databases
  <2>4. QED
    BY <1>10, <2>3, Successors, Statement
       DEF Views, Doing, Step, Exits, InstallInv, Follows, Ends
<1>11. ASSUME NEW c \in Clients, Connect(c) PROVE RebuildInv'
  BY <1>11 DEF Connect
<1>12. ASSUME NEW c \in Clients, Disconnect(c) PROVE RebuildInv'
  BY <1>12 DEF Disconnect
<1>13. ASSUME NEW c \in Clients, Publish(c) PROVE RebuildInv'
  <2>1. PICK new : new = [db["web"] EXCEPT !.rows = @ \cup {run}] OBVIOUS
  <2>2. /\ new.rows = db["web"].rows \cup {run}
        /\ new.seeded = db["web"].seeded /\ new.tables = db["web"].tables
        /\ new.exists = db["web"].exists /\ new.views = db["web"].views
        /\ db' = [db EXCEPT !["web"] = new]
    BY <1>13, <2>1 DEF Publish, InstallInv, Databases, Database
  <2>3. db'["web"] = new BY <2>2 DEF InstallInv, Databases
  <2>4. QED BY <1>13, <2>2, <2>3 DEF Publish
<1>14. CASE UNCHANGED vars BY <1>14 DEF vars
<1>15. QED
  BY <1>1, <1>2, <1>3, <1>4, <1>5, <1>6, <1>7, <1>8, <1>9, <1>10, <1>11,
     <1>12, <1>13, <1>14 DEF Next, Psql

(***************************************************************************)
(* After --init, --install or --database of install.sh, exited with 0, no  *)
(* older row is left and all the option creates is there, although psql    *)
(* goes on after every error and clients come and write as they like:      *)
(* unless one was connected at the moment DROP DATABASE ran.               *)
(***************************************************************************)
THEOREM RebuildCorrect == Spec => []LostUnlessInUse
<1>1. InstallInv /\ RebuildInv /\ [Next]_vars => (InstallInv /\ RebuildInv)'
  BY InstallSteps, RebuildSteps
<1>2. InstallInv /\ RebuildInv => LostUnlessInUse BY DEF RebuildInv
<1>3. QED BY <1>1, <1>2, InstallStart, RebuildStart, PTL DEF Spec
=============================================================================
