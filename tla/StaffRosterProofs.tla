------------------------- MODULE StaffRosterProofs -------------------------
(***************************************************************************)
(* Proofs about StaffRoster, for every set of members, roles and run slots *)
(* and for every amount of overlap the statement does not exclude.         *)
(***************************************************************************)
EXTENDS StaffRoster, TLAPS

-----------------------------------------------------------------------------
(* Every variable keeps its type, whatever runs overlap or crash.          *)
LEMMA TypeInit == Init => TypeOK
  BY DEF Init, TypeOK, Roster, RunType, Idle

(* A run that may start has an idle slot, and starts with a typed record.  *)
LEMMA StartType ==
  ASSUME TypeOK, NEW r \in Runs, NEW op \in Ops, NEW stage \in Stages, NEW u \in Users,
         NEW list \in SUBSET Roles, NEW todo \in SUBSET Roles,
         NEW sr \in Roles \cup {NoRole}, Start(r, op, stage, u, list, todo, sr)
  PROVE  run' \in [Runs -> RunType]
<1>1. RunOf(op, stage, u, staff, list, todo, sr) \in RunType
  BY DEF TypeOK, RunOf, RunType
<1> QED BY <1>1 DEF TypeOK, Start

(* An active run's record has its fields, each of its type.                *)
LEMMA ActiveType ==
  ASSUME TypeOK, NEW r \in Runs, Active(r)
  PROVE  /\ run[r] \in [op : Ops, stage : Stages, user : Users, row : Roster,
                         list : SUBSET Roles, todo : SUBSET Roles,
                         staffRole : Roles \cup {NoRole}]
         /\ run[r].user \in Users
         /\ run[r].row \in Roster
         /\ run[r].row.roles \in SUBSET Roles
         /\ run[r].row.hiatus \in [Users -> SUBSET Roles]
         /\ run[r].list \in SUBSET Roles
         /\ run[r].todo \in SUBSET Roles
         /\ run[r].staffRole \in Roles \cup {NoRole}
<1>1. run[r] \in RunType
  BY DEF TypeOK
<1>2. run[r] # Idle
  BY DEF Active, Idle
<1>3. run[r] \in [op : Ops, stage : Stages, user : Users, row : Roster,
                   list : SUBSET Roles, todo : SUBSET Roles,
                   staffRole : Roles \cup {NoRole}]
  BY <1>1, <1>2 DEF RunType
<1> QED BY <1>3 DEF Roster

LEMMA TypeNext == TypeOK /\ [Next]_vars => TypeOK'
<1> SUFFICES ASSUME TypeOK, [Next]_vars PROVE TypeOK'
  OBVIOUS
<1>1. ASSUME NEW r \in Runs, NEW u \in Users, StartHiatus(r, u)
      PROVE  TypeOK'
  <2>1. run' \in [Runs -> RunType]
    BY <1>1, StartType DEF StartHiatus, TypeOK, Ops, Stages, Roster
  <2> QED BY <1>1, <2>1 DEF StartHiatus, TypeOK, Roster, database
<1>2. ASSUME NEW r \in Runs, NEW u \in Users, StartUnhiatus(r, u)
      PROVE  TypeOK'
  <2>1. run' \in [Runs -> RunType]
    BY <1>2, StartType DEF StartUnhiatus, TypeOK, Ops, Stages, Roster
  <2> QED BY <1>2, <2>1 DEF StartUnhiatus, TypeOK, database, history
<1>3. ASSUME NEW r \in Runs, NEW u \in Users, NEW ids \in SUBSET Roles,
             StartStaffRoles(r, u, ids)
      PROVE  TypeOK'
  <2>1. run' \in [Runs -> RunType]
    BY <1>3, StartType DEF StartStaffRoles, TypeOK, Ops, Stages
  <2> QED BY <1>3, <2>1 DEF StartStaffRoles, TypeOK, database, history
<1>4. ASSUME NEW r \in Runs, NEW u \in Users, NEW ids \in SUBSET Roles,
             StartStaffRolesPick(r, u, ids)
      PROVE  TypeOK'
  <2>1. ids \cup {staffRole} \in SUBSET Roles
    BY <1>4 DEF StartStaffRolesPick, TypeOK
  <2>2. run' \in [Runs -> RunType]
    BY <1>4, <2>1, StartType DEF StartStaffRolesPick, TypeOK, Ops, Stages
  <2> QED BY <1>4, <2>2 DEF StartStaffRolesPick, TypeOK, database, history
<1>5. ASSUME NEW r \in Runs, NEW u \in Users, NEW given \in Roles \cup {NoRole},
             StartSetup(r, u, given)
      PROVE  TypeOK'
  <2>1. run' \in [Runs -> RunType]
    BY <1>5, StartType DEF StartSetup, TypeOK, Ops, Stages
  <2> QED BY <1>5, <2>1 DEF StartSetup, TypeOK, database, history
<1>6. ASSUME NEW r \in Runs, NEW u \in Users, NEW given \in Roles \cup {NoRole},
             StartBootstrap(r, u, given)
      PROVE  TypeOK'
  <2>1. run' \in [Runs -> RunType]
    BY <1>6, StartType DEF StartBootstrap, TypeOK, Ops, Stages
  <2> QED BY <1>6, <2>1 DEF StartBootstrap, TypeOK, database, history
<1>7. ASSUME NEW r \in Runs, NEW x \in Roles, TakeRole(r, x)
      PROVE  TypeOK'
  BY <1>7, ActiveType DEF TakeRole, At, TypeOK, RunType, database
<1>8. ASSUME NEW r \in Runs, NEW x \in Roles, GiveRole(r, x)
      PROVE  TypeOK'
  BY <1>8, ActiveType DEF GiveRole, At, TypeOK, RunType, database
<1>9. ASSUME NEW r \in Runs, SaveHiatus(r)
      PROVE  TypeOK'
  <2>1. run[r].user \in Users /\ run[r].row \in Roster /\ run[r].list \in SUBSET Roles
    BY <1>9, ActiveType DEF SaveHiatus, At
  <2>2. staff' \in Roster
    BY <1>9, <2>1 DEF SaveHiatus, Roster
  <2> QED BY <1>9, <2>2 DEF SaveHiatus, TypeOK, RunType, history
<1>10. ASSUME NEW r \in Runs, SaveUnhiatus(r)
       PROVE  TypeOK'
  BY <1>10, ActiveType DEF SaveUnhiatus, At, TypeOK, Roster, RunType
<1>11. ASSUME NEW r \in Runs, SaveStaffRoles(r)
       PROVE  TypeOK'
  BY <1>11, ActiveType DEF SaveStaffRoles, At, TypeOK, Roster, RunType, history
<1>12. ASSUME NEW r \in Runs, SaveSetup(r)
       PROVE  TypeOK'
  BY <1>12, ActiveType DEF SaveSetup, At, TypeOK, RunType, history
<1>13. ASSUME NEW r \in Runs, BootstrapSaveRolesRow(r)
       PROVE  TypeOK'
  BY <1>13, ActiveType DEF BootstrapSaveRolesRow, At, TypeOK, RunType, Stages, history
<1>14. ASSUME NEW r \in Runs, BootstrapSaveStaffRow(r)
       PROVE  TypeOK'
  BY <1>14, ActiveType DEF BootstrapSaveStaffRow, At, TypeOK, RunType, history
<1>15. ASSUME NEW r \in Runs, Crash(r)
       PROVE  TypeOK'
  BY <1>15, ActiveType DEF Crash, TypeOK, RunType, database
<1>16. CASE Environment
  BY <1>16 DEF Environment, GrantRole, RevokeRole, DeleteGuildRole, TypeOK, database, history
<1>17. CASE UNCHANGED vars
  BY <1>17 DEF vars, TypeOK
<1> QED
  BY <1>1, <1>2, <1>3, <1>4, <1>5, <1>6, <1>7, <1>8, <1>9, <1>10, <1>11, <1>12,
     <1>13, <1>14, <1>15, <1>16, <1>17 DEF Next, RunStep

(* Type correctness, whatever runs overlap or crash.                       *)
THEOREM TypeCorrect == Spec => []TypeOK
  BY TypeInit, TypeNext, PTL DEF Spec

-----------------------------------------------------------------------------
(* Records stay their member's own.  OwnInv adds to the property what the  *)
(* steps that write need: the roles in a run's hands are its member's too. *)
LEMMA OwnInit == Init => OwnInv
  BY DEF Init, OwnInv, RecordsOwnRoles, RecordsOwn, HandsOwnRoles, Active, Idle

(* A run that starts copies the row; what it takes in hand must be its     *)
(* member's if it is a hiatus or an unhiatus.                              *)
LEMMA StartOwn ==
  ASSUME TypeOK, TypeOK', OwnInv, NEW r \in Runs, NEW op \in Ops, NEW stage \in Stages,
         NEW u \in Users, NEW list \in SUBSET Roles, NEW todo \in SUBSET Roles,
         NEW sr \in Roles \cup {NoRole}, Start(r, op, stage, u, list, todo, sr),
         staff' = staff, \A v \in Users : everHeld[v] \subseteq everHeld'[v],
         op \in {"hiatus", "unhiatus"} => todo \subseteq list /\ list \subseteq everHeld'[u]
  PROVE  OwnInv'
<1>1. \A s \in Runs : s # r => run'[s] = run[s]
  BY DEF Start, TypeOK
<1>2. run'[r] = RunOf(op, stage, u, staff, list, todo, sr)
  BY DEF Start, TypeOK
<1>3. /\ run'[r].op = op /\ run'[r].user = u /\ run'[r].row = staff
      /\ run'[r].list = list /\ run'[r].todo = todo
  BY <1>2 DEF RunOf
<1>4. RecordsOwn(staff)'
  BY DEF OwnInv, RecordsOwnRoles, RecordsOwn
<1>5. ASSUME NEW s \in Runs, Active(s)'
      PROVE  RecordsOwn(run[s].row)'
  <2>1. CASE s = r
    BY <1>3, <1>4, <2>1 DEF RecordsOwn
  <2>2. CASE s # r
    BY <1>1, <1>5, <2>2 DEF OwnInv, RecordsOwnRoles, RecordsOwn, Active
  <2> QED BY <2>1, <2>2
<1>6. HandsOwnRoles'
  <2> SUFFICES ASSUME NEW s \in Runs, run'[s].op \in {"hiatus", "unhiatus"}
               PROVE  /\ run'[s].todo \subseteq run'[s].list
                      /\ run'[s].list \subseteq everHeld'[run'[s].user]
    BY DEF HandsOwnRoles
  <2>1. CASE s = r
    BY <1>3, <2>1
  <2>2. CASE s # r
    <3>1. Active(s) /\ run'[s] = run[s]
      BY <1>1, <2>2 DEF Active
    <3>2. run[s].user \in Users
      BY <3>1, ActiveType
    <3> QED BY <3>1, <3>2 DEF OwnInv, HandsOwnRoles
  <2> QED BY <2>1, <2>2
<1> QED BY <1>4, <1>5, <1>6 DEF OwnInv, RecordsOwnRoles

(* A run that ends leaves the other runs as they are; what it wrote must   *)
(* hold records of their own members.                                      *)
LEMMA EndOwn ==
  ASSUME TypeOK, OwnInv, NEW r \in Runs, run' = [run EXCEPT ![r] = Idle],
         everHeld' = everHeld, RecordsOwn(staff)'
  PROVE  OwnInv'
<1>1. \A s \in Runs : s # r => run'[s] = run[s]
  BY DEF TypeOK
<1>2. run'[r].op = "none"
  BY DEF TypeOK, Idle
<1>3. \A s \in Runs : Active(s)' => Active(s) /\ run'[s] = run[s]
  BY <1>1, <1>2 DEF Active
<1>4. \A s \in Runs : Active(s)' => RecordsOwn(run[s].row)'
  BY <1>3 DEF OwnInv, RecordsOwnRoles, RecordsOwn
<1>5. HandsOwnRoles'
  BY <1>1, <1>2 DEF OwnInv, HandsOwnRoles
<1> QED BY <1>4, <1>5 DEF OwnInv, RecordsOwnRoles

(* A run that takes or gives one role keeps its row and its list.          *)
LEMMA TodoOwn ==
  ASSUME TypeOK, OwnInv, NEW r \in Runs, Active(r), NEW x \in Roles,
         run' = [run EXCEPT ![r].todo = @ \ {x}], staff' = staff, everHeld' = everHeld
  PROVE  OwnInv'
<1>1. \A s \in Runs : s # r => run'[s] = run[s]
  BY DEF TypeOK
<1>2. run'[r] = [run[r] EXCEPT !.todo = @ \ {x}]
  BY DEF TypeOK
<1>3. /\ run'[r].op = run[r].op /\ run'[r].user = run[r].user
      /\ run'[r].row = run[r].row /\ run'[r].list = run[r].list
      /\ run'[r].todo = run[r].todo \ {x}
  BY <1>2, ActiveType
<1>4. \A s \in Runs : Active(s)' => Active(s) /\ run'[s].row = run[s].row
  BY <1>1, <1>3 DEF Active
<1>5. RecordsOwnRoles'
  BY <1>4 DEF OwnInv, RecordsOwnRoles, RecordsOwn
<1>6. HandsOwnRoles'
  BY <1>1, <1>3 DEF OwnInv, HandsOwnRoles
<1> QED BY <1>5, <1>6 DEF OwnInv

LEMMA OwnNext == TypeOK /\ TypeOK' /\ OwnInv /\ [Next]_vars => OwnInv'
<1> SUFFICES ASSUME TypeOK, TypeOK', OwnInv, [Next]_vars PROVE OwnInv'
  OBVIOUS
<1>0. \A u \in Users : staff.hiatus[u] \subseteq everHeld[u]
  BY DEF OwnInv, RecordsOwnRoles, RecordsOwn
<1>1. ASSUME NEW r \in Runs, NEW u \in Users, StartHiatus(r, u)
      PROVE  OwnInv'
  <2> DEFINE held == staff.roles \cap worn[u]
  <2>1. held \in SUBSET Roles /\ held \subseteq everHeld'[u]
    BY <1>1 DEF StartHiatus, TypeOK, Roster
  <2>2. \A v \in Users : everHeld[v] \subseteq everHeld'[v]
    BY <1>1 DEF StartHiatus, TypeOK
  <2>3. Start(r, "hiatus", "roles", u, held, held, NoRole) /\ staff' = staff
    BY <1>1 DEF StartHiatus, database
  <2> HIDE DEF held
  <2> QED BY <2>1, <2>2, <2>3, StartOwn DEF Ops, Stages
<1>2. ASSUME NEW r \in Runs, NEW u \in Users, StartUnhiatus(r, u)
      PROVE  OwnInv'
  <2> DEFINE restore == staff.hiatus[u] \cap staff.roles
  <2>1. restore \in SUBSET Roles /\ restore \subseteq everHeld'[u] /\ everHeld' = everHeld
    BY <1>0, <1>2 DEF StartUnhiatus, TypeOK, Roster, history
  <2>2. Start(r, "unhiatus", "roles", u, restore, restore, NoRole) /\ staff' = staff
    BY <1>2 DEF StartUnhiatus, database
  <2> HIDE DEF restore
  <2> QED BY <2>1, <2>2, StartOwn DEF Ops, Stages
<1>3. ASSUME NEW r \in Runs, NEW u \in Users, NEW ids \in SUBSET Roles,
             StartStaffRoles(r, u, ids)
      PROVE  OwnInv'
  <2>1. PICK list \in SUBSET Roles : Start(r, "staff_roles", "save", u, list, {}, staffRole)
    BY <1>3 DEF StartStaffRoles, TypeOK
  <2>2. staff' = staff /\ everHeld' = everHeld /\ staffRole \in Roles \cup {NoRole}
    BY <1>3 DEF StartStaffRoles, TypeOK, database, history
  <2> QED BY <2>1, <2>2, StartOwn DEF Ops, Stages
<1>4. ASSUME NEW r \in Runs, NEW u \in Users, NEW ids \in SUBSET Roles,
             StartStaffRolesPick(r, u, ids)
      PROVE  OwnInv'
  <2>1. ids \cup {staffRole} \in SUBSET Roles
    BY <1>4 DEF StartStaffRolesPick, TypeOK
  <2>2. staff' = staff /\ everHeld' = everHeld /\ staffRole \in Roles \cup {NoRole}
    BY <1>4 DEF StartStaffRolesPick, TypeOK, database, history
  <2> QED BY <1>4, <2>1, <2>2, StartOwn DEF StartStaffRolesPick, Ops, Stages
<1>5. ASSUME NEW r \in Runs, NEW u \in Users, NEW given \in Roles \cup {NoRole},
             StartSetup(r, u, given) \/ StartBootstrap(r, u, given)
      PROVE  OwnInv'
  <2>1. PICK sr \in Roles \cup {NoRole} :
          \/ Start(r, "setup", "save_roles_row", u, {}, {}, sr)
          \/ Start(r, "bootstrap", "save_roles_row", u, {}, {}, sr)
    BY <1>5 DEF StartSetup, StartBootstrap, TypeOK
  <2>2. staff' = staff /\ everHeld' = everHeld
    BY <1>5 DEF StartSetup, StartBootstrap, database, history
  <2> QED BY <2>1, <2>2, StartOwn DEF Ops, Stages
<1>6. ASSUME NEW r \in Runs, NEW x \in Roles, TakeRole(r, x) \/ GiveRole(r, x)
      PROVE  OwnInv'
  BY <1>6, TodoOwn DEF TakeRole, GiveRole, At, database
<1>7. ASSUME NEW r \in Runs, SaveHiatus(r)
      PROVE  OwnInv'
  <2> DEFINE u == run[r].user
  <2>1. /\ Active(r) /\ run[r].op = "hiatus" /\ everHeld' = everHeld
        /\ run' = [run EXCEPT ![r] = Idle]
        /\ staff' = [run[r].row EXCEPT !.hiatus[u] = @ \cup run[r].list]
    BY <1>7 DEF SaveHiatus, At, history
  <2>2. RecordsOwn(run[r].row) /\ run[r].list \subseteq everHeld[u]
    BY <2>1 DEF OwnInv, RecordsOwnRoles, HandsOwnRoles
  <2>3. u \in Users /\ run[r].row \in Roster
    BY <2>1, ActiveType
  <2>4. RecordsOwn(staff)'
    BY <2>1, <2>2, <2>3 DEF RecordsOwn, Roster
  <2> QED BY <2>1, <2>4, EndOwn
<1>8. ASSUME NEW r \in Runs, SaveUnhiatus(r)
      PROVE  OwnInv'
  <2> DEFINE u == run[r].user
  <2>1. /\ Active(r) /\ everHeld' = everHeld /\ run' = [run EXCEPT ![r] = Idle]
        /\ staff' = [run[r].row EXCEPT !.hiatus[u] = {}]
    BY <1>8 DEF SaveUnhiatus, At
  <2>2. RecordsOwn(run[r].row) /\ u \in Users /\ run[r].row \in Roster
    BY <2>1, ActiveType DEF OwnInv, RecordsOwnRoles
  <2>3. RecordsOwn(staff)'
    BY <2>1, <2>2 DEF RecordsOwn, Roster
  <2> QED BY <2>1, <2>3, EndOwn
<1>9. ASSUME NEW r \in Runs, SaveStaffRoles(r)
      PROVE  OwnInv'
  <2>1. /\ Active(r) /\ everHeld' = everHeld /\ run' = [run EXCEPT ![r] = Idle]
        /\ staff' = [run[r].row EXCEPT !.roles = run[r].list]
    BY <1>9 DEF SaveStaffRoles, At, history
  <2>2. RecordsOwn(run[r].row) /\ run[r].row \in Roster
    BY <2>1, ActiveType DEF OwnInv, RecordsOwnRoles
  <2>3. RecordsOwn(staff)'
    BY <2>1, <2>2 DEF RecordsOwn, Roster
  <2> QED BY <2>1, <2>3, EndOwn
<1>10. ASSUME NEW r \in Runs, SaveSetup(r) \/ Crash(r)
       PROVE  OwnInv'
  <2>1. run' = [run EXCEPT ![r] = Idle] /\ everHeld' = everHeld /\ staff' = staff
    BY <1>10 DEF SaveSetup, Crash, history, database
  <2>2. RecordsOwn(staff)'
    BY <1>0, <2>1 DEF RecordsOwn
  <2> QED BY <2>1, <2>2, EndOwn
<1>11. ASSUME NEW r \in Runs, BootstrapSaveRolesRow(r)
       PROVE  OwnInv'
  <2>1. /\ Active(r) /\ run[r].op = "bootstrap" /\ run' = [run EXCEPT ![r].stage = "save"]
        /\ everHeld' = everHeld /\ staff' = staff
    BY <1>11 DEF BootstrapSaveRolesRow, At, history
  <2>2. \A s \in Runs : /\ run'[s].op = run[s].op
                        /\ Active(s) => run'[s].row = run[s].row
                        /\ run[s].op # "bootstrap" => run'[s] = run[s]
    BY <2>1, ActiveType DEF TypeOK
  <2>3. RecordsOwnRoles'
    BY <2>1, <2>2 DEF OwnInv, RecordsOwnRoles, RecordsOwn, Active
  <2>4. HandsOwnRoles'
    BY <2>1, <2>2 DEF OwnInv, HandsOwnRoles
  <2> QED BY <2>3, <2>4 DEF OwnInv
<1>12. ASSUME NEW r \in Runs, BootstrapSaveStaffRow(r)
       PROVE  OwnInv'
  <2>1. /\ Active(r) /\ everHeld' = everHeld /\ run' = [run EXCEPT ![r] = Idle]
        /\ staff' = run[r].row
    BY <1>12 DEF BootstrapSaveStaffRow, At, history
  <2>2. RecordsOwn(staff)'
    BY <2>1 DEF OwnInv, RecordsOwnRoles, RecordsOwn
  <2> QED BY <2>1, <2>2, EndOwn
<1>13. CASE Environment \/ UNCHANGED vars
  <2>1. run' = run /\ staff' = staff /\ everHeld' = everHeld
    BY <1>13 DEF Environment, GrantRole, RevokeRole, DeleteGuildRole, vars, history, database
  <2> QED BY <2>1 DEF OwnInv, RecordsOwnRoles, RecordsOwn, HandsOwnRoles, Active
<1> QED
  BY <1>1, <1>2, <1>3, <1>4, <1>5, <1>6, <1>7, <1>8, <1>9, <1>10, <1>11, <1>12, <1>13
  DEF Next, RunStep

(* However runs overlap and crash, a record names only roles a /hiatus     *)
(* found on that very member.                                              *)
THEOREM RecordsStayOwn == Spec => []RecordsOwnRoles
<1>1. OwnInv => RecordsOwnRoles
  BY DEF OwnInv
<1> QED BY <1>1, OwnInit, OwnNext, TypeCorrect, PTL DEF Spec

(* However runs overlap and crash, /unhiatus gives a member only roles     *)
(* that member gave up.                                                    *)
THEOREM RestoredWasGivenUp == Spec => RestoresOnlyGivenUp
<1>1. TypeOK /\ OwnInv =>
        \A r \in Runs, x \in Roles : GiveRole(r, x) => x \in everHeld[run[r].user]
  BY DEF OwnInv, HandsOwnRoles, GiveRole, At
<1> QED
  BY <1>1, OwnInit, OwnNext, TypeCorrect, PTL DEF Spec, RestoresOnlyGivenUp

-----------------------------------------------------------------------------
(* One run at a time: nothing is lost.  SerialInv adds that no copy of the *)
(* row is stale, so that writing it back changes only what the run means   *)
(* to change, and that an unhiatus run has not yet to give back a role it  *)
(* will delete the record of.                                              *)
LEMMA SerialInit == Init => SerialInv
  BY DEF Init, SerialInv, NoneStale, HandsAccounted, RolesAccounted, Active, Idle

(* The only active run, when r is one.                                     *)
LEMMA OnlyActive ==
  ASSUME SerialInv, NEW r \in Runs, Active(r)
  PROVE  /\ \A s \in Runs : s # r => run[s].op = "none"
         /\ run[r].row = staff
  BY DEF SerialInv, NoneStale, Active

LEMMA StartSerial ==
  ASSUME Overlap = "none", TypeOK, SerialInv, NEW r \in Runs, NEW op \in Ops,
         NEW stage \in Stages, NEW u \in Users, NEW list \in SUBSET Roles,
         NEW todo \in SUBSET Roles, NEW sr \in Roles \cup {NoRole},
         Start(r, op, stage, u, list, todo, sr),
         staff' = staff, taken' = taken, abandoned' = abandoned,
         op \in {"hiatus", "unhiatus"} => todo = list,
         op = "unhiatus" => list = staff.hiatus[u] \cap staff.roles
  PROVE  SerialInv'
<1>1. \A s \in Runs : run[s].op = "none"
  BY DEF Start, MayStart, Active
<1>2. \A s \in Runs : s # r => run'[s].op = "none"
  BY <1>1 DEF Start, TypeOK
<1>3. run'[r] = RunOf(op, stage, u, staff, list, todo, sr)
  BY DEF Start, TypeOK
<1>4. /\ run'[r].op = op /\ run'[r].user = u /\ run'[r].row = staff
      /\ run'[r].list = list /\ run'[r].todo = todo
  BY <1>3 DEF RunOf
<1>5. NoneStale'
  BY <1>2, <1>4 DEF NoneStale, Active
<1>6. HandsAccounted'
  BY <1>2, <1>4 DEF HandsAccounted
<1>7. \A v \in Users, x \in Roles : ~InHand(v, x)
  BY <1>1 DEF InHand
<1>8. \A v \in Users : taken[v] \subseteq Roles
  BY DEF TypeOK
<1>9. RolesAccounted'
  BY <1>7, <1>8 DEF SerialInv, RolesAccounted
<1> QED BY <1>5, <1>6, <1>9 DEF SerialInv

(* A run that ends leaves no run active.                                   *)
LEMMA EndSerial ==
  ASSUME TypeOK, SerialInv, NEW r \in Runs, Active(r), run' = [run EXCEPT ![r] = Idle],
         \A u \in Users : \A x \in taken'[u] : x \in staff'.hiatus[u] \cup abandoned'[u]
  PROVE  SerialInv'
<1>1. \A s \in Runs : run'[s].op = "none"
  BY OnlyActive DEF TypeOK, Idle
<1> QED BY <1>1 DEF SerialInv, NoneStale, HandsAccounted, RolesAccounted, Active

LEMMA SerialNext ==
  ASSUME Overlap = "none"
  PROVE  TypeOK /\ TypeOK' /\ SerialInv /\ [Next]_vars => SerialInv'
<1> SUFFICES ASSUME TypeOK, TypeOK', SerialInv, [Next]_vars PROVE SerialInv'
  OBVIOUS
<1>0. \A u \in Users : \A x \in taken[u] : x \in staff.hiatus[u] \cup abandoned[u] \/ InHand(u, x)
  BY DEF SerialInv, RolesAccounted
<1>1. ASSUME NEW r \in Runs, NEW u \in Users, StartHiatus(r, u)
      PROVE  SerialInv'
  <2> DEFINE held == staff.roles \cap worn[u]
  <2>1. /\ held \in SUBSET Roles /\ staff' = staff /\ taken' = taken /\ abandoned' = abandoned
        /\ Start(r, "hiatus", "roles", u, held, held, NoRole)
    BY <1>1 DEF StartHiatus, database, TypeOK, Roster
  <2> HIDE DEF held
  <2> QED BY <2>1, StartSerial DEF Ops, Stages
<1>2. ASSUME NEW r \in Runs, NEW u \in Users, StartUnhiatus(r, u)
      PROVE  SerialInv'
  <2> DEFINE restore == staff.hiatus[u] \cap staff.roles
  <2>1. /\ restore \in SUBSET Roles /\ staff' = staff /\ taken' = taken /\ abandoned' = abandoned
        /\ Start(r, "unhiatus", "roles", u, restore, restore, NoRole)
    BY <1>2 DEF StartUnhiatus, database, history, TypeOK, Roster
  <2>2. restore = staff.hiatus[u] \cap staff.roles
    OBVIOUS
  <2> HIDE DEF restore
  <2> QED BY <2>1, <2>2, StartSerial DEF Ops, Stages
<1>3. ASSUME NEW r \in Runs, NEW u \in Users, NEW ids \in SUBSET Roles,
             StartStaffRoles(r, u, ids) \/ StartStaffRolesPick(r, u, ids)
      PROVE  SerialInv'
  <2>1. PICK list \in SUBSET Roles :
          \/ Start(r, "staff_roles", "save", u, list, {}, staffRole)
          \/ Start(r, "staff_roles_pick", "save", u, list, {}, staffRole)
    <3>1. CASE StartStaffRoles(r, u, ids)
      BY <3>1 DEF StartStaffRoles, TypeOK
    <3>2. CASE StartStaffRolesPick(r, u, ids)
      <4>1. ids \cup {staffRole} \in SUBSET Roles
        BY <3>2 DEF StartStaffRolesPick, TypeOK
      <4> QED BY <3>2, <4>1 DEF StartStaffRolesPick
    <3> QED BY <1>3, <3>1, <3>2
  <2>2. /\ staff' = staff /\ taken' = taken /\ abandoned' = abandoned
        /\ staffRole \in Roles \cup {NoRole}
    BY <1>3 DEF StartStaffRoles, StartStaffRolesPick, database, history, TypeOK
  <2> QED BY <2>1, <2>2, StartSerial DEF Ops, Stages
<1>4. ASSUME NEW r \in Runs, NEW u \in Users, NEW given \in Roles \cup {NoRole},
             StartSetup(r, u, given) \/ StartBootstrap(r, u, given)
      PROVE  SerialInv'
  <2>1. PICK sr \in Roles \cup {NoRole} :
          \/ Start(r, "setup", "save_roles_row", u, {}, {}, sr)
          \/ Start(r, "bootstrap", "save_roles_row", u, {}, {}, sr)
    BY <1>4 DEF StartSetup, StartBootstrap, TypeOK
  <2>2. staff' = staff /\ taken' = taken /\ abandoned' = abandoned
    BY <1>4 DEF StartSetup, StartBootstrap, history, database
  <2> QED BY <2>1, <2>2, StartSerial DEF Ops, Stages
<1>5. ASSUME NEW r \in Runs, NEW x \in Roles, TakeRole(r, x) \/ GiveRole(r, x)
      PROVE  SerialInv'
  <2>1. /\ Active(r) /\ x \in run[r].todo /\ staff' = staff /\ abandoned' = abandoned
        /\ run' = [run EXCEPT ![r].todo = @ \ {x}]
    BY <1>5 DEF TakeRole, GiveRole, At, database
  <2>2. run'[r] = [run[r] EXCEPT !.todo = @ \ {x}] /\ \A s \in Runs : s # r => run'[s] = run[s]
    BY <2>1 DEF TypeOK
  <2>3. /\ run'[r].op = run[r].op /\ run'[r].user = run[r].user
        /\ run'[r].row = run[r].row /\ run'[r].list = run[r].list
        /\ run'[r].todo = run[r].todo \ {x}
    BY <2>1, <2>2, ActiveType
  <2>4. \A s \in Runs : s # r => run'[s].op = "none"
    BY <2>1, <2>2, OnlyActive
  <2>5. NoneStale'
    BY <2>1, <2>3, <2>4, OnlyActive DEF NoneStale, Active
  <2>6. \A v \in Users, y \in Roles : InHand(v, y) => InHand(v, y)'
    BY <2>2, <2>3 DEF InHand
  <2>7. run[r].user \in Users
    BY <2>1, ActiveType
  <2>8. CASE TakeRole(r, x)
    <3>1. run[r].op = "hiatus" /\ run[r].todo \subseteq run[r].list
      BY <2>8 DEF TakeRole, At, SerialInv, HandsAccounted
    <3>2. HandsAccounted'
      BY <2>3, <2>4, <3>1 DEF HandsAccounted
    <3>3. InHand(run[r].user, x)'
      BY <2>1, <2>3, <3>1 DEF InHand
    <3>4. \A v \in Users : \A y \in taken'[v] : y \in taken[v] \/ (v = run[r].user /\ y = x)
      BY <2>8 DEF TakeRole, TypeOK
    <3>5. RolesAccounted'
      <4> SUFFICES ASSUME NEW v \in Users, NEW y \in taken'[v]
                   PROVE  y \in staff'.hiatus[v] \cup abandoned'[v] \/ InHand(v, y)'
        BY DEF RolesAccounted
      <4>1. y \in Roles
        BY DEF TypeOK
      <4>2. CASE y \in taken[v]
        BY <1>0, <2>1, <2>6, <4>1, <4>2
      <4>3. CASE v = run[r].user /\ y = x
        BY <2>7, <2>3, <3>3, <4>3 DEF InHand
      <4> QED BY <3>4, <4>2, <4>3
    <3> QED BY <2>5, <3>2, <3>5 DEF SerialInv
  <2>9. CASE GiveRole(r, x)
    <3>1. /\ run[r].op = "unhiatus"
          /\ taken' = [taken EXCEPT ![run[r].user] = @ \ {x}]
      BY <2>9 DEF GiveRole, At
    <3>2. /\ run[r].list = run[r].row.hiatus[run[r].user] \cap run[r].row.roles
          /\ run[r].todo \subseteq run[r].list
          /\ taken[run[r].user] \cap run[r].list \subseteq run[r].todo
      BY <3>1 DEF SerialInv, HandsAccounted
    <3>3. taken'[run[r].user] = taken[run[r].user] \ {x} /\ \A v \in Users : taken'[v] \subseteq taken[v]
      BY <2>7, <3>1 DEF TypeOK
    <3>4. HandsAccounted'
      BY <2>3, <2>4, <3>1, <3>2, <3>3 DEF HandsAccounted
    <3>5. RolesAccounted'
      BY <1>0, <2>1, <2>6, <3>3 DEF RolesAccounted, TypeOK
    <3> QED BY <2>5, <3>4, <3>5 DEF SerialInv
  <2> QED BY <1>5, <2>8, <2>9
<1>6. ASSUME NEW r \in Runs, SaveHiatus(r)
      PROVE  SerialInv'
  <2> DEFINE u == run[r].user
  <2>1. /\ Active(r) /\ run[r].op = "hiatus" /\ taken' = taken /\ abandoned' = abandoned
        /\ run' = [run EXCEPT ![r] = Idle]
        /\ staff' = [run[r].row EXCEPT !.hiatus[u] = @ \cup run[r].list]
    BY <1>6 DEF SaveHiatus, At, history
  <2>2. /\ u \in Users /\ run[r].row = staff
        /\ \A v \in Users, x \in Roles : InHand(v, x) => v = u /\ x \in run[r].list
    BY <2>1, ActiveType, OnlyActive DEF InHand
  <2>3. \A v \in Users : staff'.hiatus[v] = IF v = u THEN staff.hiatus[u] \cup run[r].list
                                             ELSE staff.hiatus[v]
    BY <2>1, <2>2 DEF TypeOK, Roster
  <2>4. \A v \in Users : \A x \in taken'[v] : x \in staff'.hiatus[v] \cup abandoned'[v]
    BY <1>0, <2>1, <2>2, <2>3 DEF TypeOK
  <2> QED BY <2>1, <2>4, EndSerial
<1>7. ASSUME NEW r \in Runs, SaveUnhiatus(r)
      PROVE  SerialInv'
  <2> DEFINE u == run[r].user
  <2>1. /\ Active(r) /\ run[r].op = "unhiatus" /\ run[r].todo = {}
        /\ abandoned' = abandoned /\ run' = [run EXCEPT ![r] = Idle]
        /\ staff' = [run[r].row EXCEPT !.hiatus[u] = {}]
        /\ taken' = [taken EXCEPT ![u] = @ \ (run[r].row.hiatus[u] \ run[r].row.roles)]
    BY <1>7 DEF SaveUnhiatus, At
  <2>2. /\ u \in Users /\ run[r].row = staff
        /\ \A v \in Users, x \in Roles : ~InHand(v, x)
    BY <2>1, ActiveType, OnlyActive DEF InHand
  <2>3. taken[u] \cap staff.hiatus[u] \cap staff.roles = {}
    BY <2>1, <2>2 DEF SerialInv, HandsAccounted
  <2>4. \A v \in Users : v # u => staff'.hiatus[v] = staff.hiatus[v] /\ taken'[v] = taken[v]
    BY <2>1, <2>2 DEF TypeOK, Roster
  <2>5. taken'[u] = taken[u] \ (staff.hiatus[u] \ staff.roles)
    BY <2>1, <2>2 DEF TypeOK
  <2>6. ASSUME NEW v \in Users, NEW x \in taken'[v]
        PROVE  x \in staff'.hiatus[v] \cup abandoned'[v]
    <3>1. x \in taken[v] /\ x \in Roles
      BY <2>4, <2>5 DEF TypeOK
    <3>2. x \in staff.hiatus[v] \cup abandoned[v]
      BY <1>0, <2>2, <3>1
    <3>3. CASE v = u
      BY <2>1, <2>3, <2>5, <3>1, <3>2, <3>3
    <3>4. CASE v # u
      BY <2>1, <2>4, <3>2, <3>4
    <3> QED BY <3>3, <3>4
  <2> QED BY <2>1, <2>6, EndSerial
<1>8. ASSUME NEW r \in Runs,
             SaveStaffRoles(r) \/ SaveSetup(r) \/ BootstrapSaveStaffRow(r)
      PROVE  SerialInv'
  <2>1. /\ Active(r) /\ run[r].op # "hiatus" /\ taken' = taken /\ abandoned' = abandoned
        /\ run' = [run EXCEPT ![r] = Idle]
    BY <1>8 DEF SaveStaffRoles, SaveSetup, BootstrapSaveStaffRow, At, history
  <2>2. run[r].row = staff /\ \A v \in Users, x \in Roles : ~InHand(v, x)
    BY <2>1, OnlyActive DEF InHand
  <2>3. staff'.hiatus = staff.hiatus
    BY <1>8, <2>2 DEF SaveStaffRoles, SaveSetup, BootstrapSaveStaffRow, TypeOK, Roster
  <2>4. \A v \in Users : \A x \in taken'[v] : x \in staff'.hiatus[v] \cup abandoned'[v]
    BY <1>0, <2>1, <2>2, <2>3 DEF TypeOK
  <2> QED BY <2>1, <2>4, EndSerial
<1>9. ASSUME NEW r \in Runs, BootstrapSaveRolesRow(r)
      PROVE  SerialInv'
  <2>1. /\ Active(r) /\ run[r].op = "bootstrap" /\ run' = [run EXCEPT ![r].stage = "save"]
        /\ staff' = staff /\ taken' = taken /\ abandoned' = abandoned
    BY <1>9 DEF BootstrapSaveRolesRow, At, history
  <2>2. /\ \A s \in Runs : s # r => run'[s].op = "none"
        /\ run'[r].op = "bootstrap" /\ run'[r].row = staff'
    BY <2>1, ActiveType, OnlyActive DEF TypeOK
  <2>3. NoneStale' /\ HandsAccounted'
    BY <2>2 DEF NoneStale, HandsAccounted, Active
  <2>4. \A v \in Users, x \in Roles : ~InHand(v, x)
    BY <2>1, OnlyActive DEF InHand
  <2>5. RolesAccounted'
    BY <1>0, <2>1, <2>4 DEF RolesAccounted, TypeOK
  <2> QED BY <2>3, <2>5 DEF SerialInv
<1>10. ASSUME NEW r \in Runs, Crash(r)
       PROVE  SerialInv'
  <2>1. /\ Active(r) /\ staff' = staff /\ taken' = taken /\ run' = [run EXCEPT ![r] = Idle]
    BY <1>10 DEF Crash, database
  <2>2. run[r].user \in Users
    BY <2>1, ActiveType
  <2>3. \A v \in Users, x \in Roles :
          /\ x \in abandoned[v] => x \in abandoned'[v]
          /\ InHand(v, x) => x \in abandoned'[v]
    BY <1>10, <2>1, <2>2, OnlyActive DEF Crash, InHand, TypeOK
  <2>4. \A v \in Users : \A x \in taken'[v] : x \in staff'.hiatus[v] \cup abandoned'[v]
    BY <1>0, <2>1, <2>3 DEF TypeOK
  <2> QED BY <2>1, <2>4, EndSerial
<1>11. CASE Environment \/ UNCHANGED vars
  <2>1. /\ run' = run /\ staff' = staff /\ abandoned' = abandoned
        /\ \A v \in Users : taken'[v] \subseteq taken[v]
    BY <1>11 DEF Environment, GrantRole, RevokeRole, DeleteGuildRole, vars, history, database, TypeOK
  <2>2. NoneStale' /\ RolesAccounted'
    BY <1>0, <2>1 DEF SerialInv, NoneStale, RolesAccounted, InHand, Active
  <2>3. \A s \in Runs : run[s].op = "unhiatus" => run[s].user \in Users
    BY ActiveType DEF Active
  <2>4. HandsAccounted'
    BY <2>1, <2>3 DEF SerialInv, HandsAccounted
  <2> QED BY <2>2, <2>4 DEF SerialInv
<1> QED
  BY <1>1, <1>2, <1>3, <1>4, <1>5, <1>6, <1>7, <1>8, <1>9, <1>10, <1>11
  DEF Next, RunStep

(* One run at a time, crashes or not: a role /hiatus took is in its        *)
(* member's record until it comes back.                                    *)
THEOREM NothingLost ==
  ASSUME Overlap = "none"
  PROVE  Spec => []RolesAccounted
<1>1. SerialInv => RolesAccounted
  BY DEF SerialInv
<1>2. TypeOK /\ TypeOK' /\ SerialInv /\ [Next]_vars => SerialInv'
  BY SerialNext
<1> QED BY <1>1, <1>2, SerialInit, TypeCorrect, PTL DEF Spec

(* One run at a time: /unhiatus gives a role only while it is a staff role.*)
THEOREM RestoredWasStaffRole ==
  ASSUME Overlap = "none"
  PROVE  Spec => RestoresOnlyStaffRoles
<1>1. SerialInv =>
        \A r \in Runs, x \in Roles : GiveRole(r, x) => x \in staff.roles
  BY OnlyActive DEF SerialInv, HandsAccounted, GiveRole, At
<1>2. TypeOK /\ TypeOK' /\ SerialInv /\ [Next]_vars => SerialInv'
  BY SerialNext
<1> QED
  BY <1>1, <1>2, SerialInit, TypeCorrect, PTL DEF Spec, RestoresOnlyStaffRoles
=============================================================================
