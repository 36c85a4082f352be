---------------------------- MODULE StaffRoster ----------------------------
(***************************************************************************)
(* The staff roster: the database row "Staff" (its two keys, Roles and     *)
(* Hiatus), the configured Staff role (key "Staff" of the row "Roles") and *)
(* the roles members wear, shared by the runs of                           *)
(*   commands/members/hiatus_slash.gohtml, unhiatus_slash.gohtml,          *)
(*   staff_roles.gohtml, staff_roles_pick.gohtml,                          *)
(*   commands/plumbing/setup_slash.gohtml and bootstrap.gohtml.            *)
(*                                                                         *)
(* A run is a sequence of steps: it reads the whole row, calls the bot's   *)
(* API once per role, and writes the whole row back.  Steps of different   *)
(* runs interleave as far as Overlap allows.  Reads of a run that no call  *)
(* or write of the same run separates are one step.                        *)
(***************************************************************************)
CONSTANTS
  Users,
  Roles,               \* every role ID a list can hold, of the guild or not
  NoRole,              \* no Staff role is configured
  Runs,                \* run slots: at most this many runs at the same time
  Overlap,             \* which runs the bot lets overlap, see MayStart
  MayCrash,            \* a run may end between any two of its steps
  EmbedExecInstalled,  \* Commands "embed_exec" holds a positive ID
  Embeds               \* role IDs whose digits contain those of another role:
                       \* Embeds[x] is the set of IDs whose text contains x's

ASSUME OverlapAssumption == Overlap \in {"none", "commands", "all"}
ASSUME FlagsAssumption == MayCrash \in BOOLEAN /\ EmbedExecInstalled \in BOOLEAN
ASSUME NoRoleAssumption == NoRole \notin Roles
ASSUME EmbedsAssumption == Embeds \in [Roles -> SUBSET Roles]

VARIABLES
  guildRoles,  \* the roles that exist on the server
  worn,        \* worn[u]: the roles member u has
  staffRole,   \* Roles "Staff"
  staff,       \* the row "Staff": roles (Staff.Roles), hiatus (Staff.Hiatus)
  run,         \* run[r]: the local variables of the run in slot r
  (* history: what happened, read by no action *)
  taken,       \* taken[u]: roles hiatus runs took from u, not come back since
  everHeld,    \* everHeld[u]: roles some hiatus run found u wearing
  abandoned    \* abandoned[u]: roles a hiatus run held in hand when it crashed

database == <<staffRole, staff>>
history  == <<taken, everHeld, abandoned>>
vars == <<guildRoles, worn, staffRole, staff, run, taken, everHeld, abandoned>>

-----------------------------------------------------------------------------
Ops    == {"hiatus", "unhiatus", "staff_roles", "staff_roles_pick", "setup", "bootstrap"}
Stages == {"roles", "save", "save_roles_row"}
Roster == [roles : SUBSET Roles, hiatus : [Users -> SUBSET Roles]]

(* A run: its command, where it is, who called it, the row as it read it,  *)
(* the roles it works on (list), those still to take or give (todo), and   *)
(* the Staff role it read or was given.                                    *)
Idle  == [op |-> "none"]
RunOf(op, stage, u, row, list, todo, sr) ==
  [op |-> op, stage |-> stage, user |-> u, row |-> row, list |-> list,
   todo |-> todo, staffRole |-> sr]
RunType == {Idle} \cup
  [op : Ops, stage : Stages, user : Users, row : Roster, list : SUBSET Roles,
   todo : SUBSET Roles, staffRole : Roles \cup {NoRole}]

Active(r) == run[r].op # "none"

TypeOK ==
  /\ guildRoles \in SUBSET Roles
  /\ worn \in [Users -> SUBSET Roles]
  /\ staffRole \in Roles \cup {NoRole}
  /\ staff \in Roster
  /\ run \in [Runs -> RunType]
  /\ taken \in [Users -> SUBSET Roles]
  /\ everHeld \in [Users -> SUBSET Roles]
  /\ abandoned \in [Users -> SUBSET Roles]

(* A server after its first bootstrap: an empty roster, members with any   *)
(* roles, the Staff role set or not.  No role of the server has an ID that *)
(* contains another's: such an ID is two, pasted without a space.          *)
Init ==
  /\ guildRoles = Roles \ UNION {Embeds[x] : x \in Roles}
  /\ worn \in [Users -> SUBSET guildRoles]
  /\ staffRole \in Roles \cup {NoRole}
  /\ staff = [roles |-> {}, hiatus |-> [u \in Users |-> {}]]
  /\ run = [r \in Runs |-> Idle]
  /\ taken = [u \in Users |-> {}]
  /\ everHeld = [u \in Users |-> {}]
  /\ abandoned = [u \in Users |-> {}]

(* What the bot's scheduler guarantees.  "none": one run at a time;        *)
(* "commands": a command does not overlap itself; "all": nothing.          *)
MayStart(r, op) ==
  /\ ~Active(r)
  /\ Overlap = "none" => \A s \in Runs : ~Active(s)
  /\ Overlap = "commands" => \A s \in Runs : run[s].op # op

Start(r, op, stage, u, list, todo, sr) ==
  /\ MayStart(r, op)
  /\ run' = [run EXCEPT ![r] = RunOf(op, stage, u, staff, list, todo, sr)]

At(r, op, stage) == Active(r) /\ run[r].op = op /\ run[r].stage = stage

-----------------------------------------------------------------------------
(* A plausible slip: all staff roles are recorded, worn or not.            *)
StartHiatusAllStaffRoles(r, u) ==
  /\ EmbedExecInstalled
  /\ staff.roles # {}
  /\ Start(r, "hiatus", "roles", u, staff.roles, staff.roles, NoRole)
  /\ everHeld' = [everHeld EXCEPT ![u] = @ \cup (staff.roles \cap worn[u])]
  /\ UNCHANGED <<guildRoles, worn, database, taken, abandoned>>

(* /hiatus.  The run reads the row and keeps the staff roles its user      *)
(* wears; it refuses when a helper is missing or there is none.            *)
StartHiatus(r, u) ==
  LET held == staff.roles \cap worn[u]
  IN  /\ EmbedExecInstalled
      /\ held # {}
      /\ Start(r, "hiatus", "roles", u, held, held, NoRole)
      /\ everHeld' = [everHeld EXCEPT ![u] = @ \cup held]
      /\ UNCHANGED <<guildRoles, worn, database, taken, abandoned>>

(* takeRoleID: a role the member no longer has is passed over in silence.  *)
TakeRole(r, x) ==
  LET u == run[r].user
  IN  /\ At(r, "hiatus", "roles")
      /\ x \in run[r].todo
      /\ worn' = [worn EXCEPT ![u] = @ \ {x}]
      /\ taken' = [taken EXCEPT ![u] = @ \cup (worn[u] \cap {x})]
      /\ run' = [run EXCEPT ![r].todo = @ \ {x}]
      /\ UNCHANGED <<guildRoles, database, everHeld, abandoned>>

(* The record is what the run read of its user's record, and the roles the *)
(* run found; the rest of the row is written as it was read.               *)
SaveHiatus(r) ==
  LET u == run[r].user
  IN  /\ At(r, "hiatus", "roles")
      /\ run[r].todo = {}
      /\ staff' = [run[r].row EXCEPT !.hiatus[u] = @ \cup run[r].list]
      /\ run' = [run EXCEPT ![r] = Idle]
      /\ UNCHANGED <<guildRoles, worn, staffRole, history>>

-----------------------------------------------------------------------------
(* A plausible slip: roles come back that are not both recorded and staff. *)
StartUnhiatusRestoring(r, u, restore) ==
  /\ EmbedExecInstalled
  /\ restore # {}
  /\ Start(r, "unhiatus", "roles", u, restore, restore, NoRole)
  /\ UNCHANGED <<guildRoles, worn, database, history>>

StartUnhiatusAllRecorded(r, u) == StartUnhiatusRestoring(r, u, staff.hiatus[u])
StartUnhiatusAllStaffRoles(r, u) == StartUnhiatusRestoring(r, u, staff.roles)

(* A plausible slip: the record is deleted before the roles are given.     *)
StartUnhiatusDeletingFirst(r, u) ==
  LET restore == staff.hiatus[u] \cap staff.roles
  IN  /\ EmbedExecInstalled
      /\ restore # {}
      /\ Start(r, "unhiatus", "roles", u, restore, restore, NoRole)
      /\ staff' = [staff EXCEPT !.hiatus[u] = {}]
      /\ UNCHANGED <<guildRoles, worn, staffRole, history>>

(* /unhiatus.  Only recorded roles that are staff roles come back; with    *)
(* none of them the run refuses and the record stays.                      *)
StartUnhiatus(r, u) ==
  LET restore == staff.hiatus[u] \cap staff.roles
  IN  /\ EmbedExecInstalled
      /\ restore # {}
      /\ Start(r, "unhiatus", "roles", u, restore, restore, NoRole)
      /\ UNCHANGED <<guildRoles, worn, database, history>>

(* giveRoleID: a role the server no longer has is passed over in silence.  *)
GiveRole(r, x) ==
  LET u == run[r].user
  IN  /\ At(r, "unhiatus", "roles")
      /\ x \in run[r].todo
      /\ worn' = [worn EXCEPT ![u] = @ \cup (guildRoles \cap {x})]
      /\ taken' = [taken EXCEPT ![u] = @ \ {x}]
      /\ run' = [run EXCEPT ![r].todo = @ \ {x}]
      /\ UNCHANGED <<guildRoles, database, everHeld, abandoned>>

(* The record goes as a whole: the roles it held that are no staff roles   *)
(* any more are named in the reply and forgotten.                          *)
SaveUnhiatus(r) ==
  LET u == run[r].user
  IN  /\ At(r, "unhiatus", "roles")
      /\ run[r].todo = {}
      /\ staff' = [run[r].row EXCEPT !.hiatus[u] = {}]
      /\ taken' = [taken EXCEPT ![u] = @ \ (run[r].row.hiatus[u] \ run[r].row.roles)]
      /\ run' = [run EXCEPT ![r] = Idle]
      /\ UNCHANGED <<guildRoles, worn, staffRole, everHeld, abandoned>>

-----------------------------------------------------------------------------
(* staff_roles with IDs, by text or by /staff: the configured Staff role   *)
(* joins unless its digits appear in the text, and IDs the server does not *)
(* have are left out.  None left: nothing is written.                      *)
StartStaffRoles(r, u, ids) ==
  LET mentioned == staffRole \in ids \/ ids \cap Embeds[staffRole] # {}
      wanted == IF staffRole = NoRole \/ mentioned THEN ids ELSE ids \cup {staffRole}
      valid  == wanted \cap guildRoles
  IN  /\ ids # {}
      /\ valid # {}
      /\ Start(r, "staff_roles", "save", u, valid, {}, staffRole)
      /\ UNCHANGED <<guildRoles, worn, database, history>>

(* The panel's role select: its user must wear the Staff role, the picked  *)
(* roles exist, and the Staff role joins them.                             *)
StartStaffRolesPick(r, u, values) ==
  /\ values # {} /\ values \subseteq guildRoles
  /\ staffRole \in worn[u]
  /\ Start(r, "staff_roles_pick", "save", u, values \cup {staffRole}, {}, staffRole)
  /\ UNCHANGED <<guildRoles, worn, database, history>>

SaveStaffRoles(r) ==
  /\ At(r, "staff_roles", "save") \/ At(r, "staff_roles_pick", "save")
  /\ staff' = [run[r].row EXCEPT !.roles = run[r].list]
  /\ run' = [run EXCEPT ![r] = Idle]
  /\ UNCHANGED <<guildRoles, worn, staffRole, history>>

-----------------------------------------------------------------------------
(* /setup roles: reads the row "Roles" and writes it back with the given   *)
(* keys; without `staff` the Staff role is written as it was read.         *)
StartSetup(r, u, given) ==
  /\ given \in guildRoles \cup {NoRole}
  /\ Start(r, "setup", "save_roles_row", u, {}, {},
           IF given = NoRole THEN staffRole ELSE given)
  /\ UNCHANGED <<guildRoles, worn, database, history>>

SaveSetup(r) ==
  /\ At(r, "setup", "save_roles_row")
  /\ staffRole' = run[r].staffRole
  /\ run' = [run EXCEPT ![r] = Idle]
  /\ UNCHANGED <<guildRoles, worn, staff, history>>

(* bootstrap reads every row and writes every one back, "Roles" (with the  *)
(* Staff role when one was given) before "Staff".                          *)
StartBootstrap(r, u, given) ==
  /\ given \in Roles \cup {NoRole}
  /\ Start(r, "bootstrap", "save_roles_row", u, {}, {},
           IF given = NoRole THEN staffRole ELSE given)
  /\ UNCHANGED <<guildRoles, worn, database, history>>

BootstrapSaveRolesRow(r) ==
  /\ At(r, "bootstrap", "save_roles_row")
  /\ staffRole' = run[r].staffRole
  /\ run' = [run EXCEPT ![r].stage = "save"]
  /\ UNCHANGED <<guildRoles, worn, staff, history>>

BootstrapSaveStaffRow(r) ==
  /\ At(r, "bootstrap", "save")
  /\ staff' = run[r].row
  /\ run' = [run EXCEPT ![r] = Idle]
  /\ UNCHANGED <<guildRoles, worn, staffRole, history>>

-----------------------------------------------------------------------------
(* Members and administrators, through Discord.                            *)
GrantRole(u, x) ==
  /\ x \in guildRoles \ worn[u]
  /\ worn' = [worn EXCEPT ![u] = @ \cup {x}]
  /\ taken' = [taken EXCEPT ![u] = @ \ {x}]
  /\ UNCHANGED <<guildRoles, database, run, everHeld, abandoned>>

RevokeRole(u, x) ==
  /\ x \in worn[u]
  /\ worn' = [worn EXCEPT ![u] = @ \ {x}]
  /\ UNCHANGED <<guildRoles, database, run, history>>

DeleteGuildRole(x) ==
  /\ x \in guildRoles
  /\ guildRoles' = guildRoles \ {x}
  /\ worn' = [u \in Users |-> worn[u] \ {x}]
  /\ taken' = [u \in Users |-> taken[u] \ {x}]
  /\ UNCHANGED <<database, run, everHeld, abandoned>>

(* The bot stops, or a call of the run fails: what it wrote stays.         *)
Crash(r) ==
  /\ MayCrash
  /\ Active(r)
  /\ abandoned' = IF run[r].op = "hiatus"
                  THEN [abandoned EXCEPT ![run[r].user] = @ \cup run[r].list]
                  ELSE abandoned
  /\ run' = [run EXCEPT ![r] = Idle]
  /\ UNCHANGED <<guildRoles, worn, database, taken, everHeld>>

-----------------------------------------------------------------------------
RunStep(r) ==
  \/ \E u \in Users : StartHiatus(r, u) \/ StartUnhiatus(r, u)
  \/ \E u \in Users, ids \in SUBSET Roles :
        StartStaffRoles(r, u, ids) \/ StartStaffRolesPick(r, u, ids)
  \/ \E u \in Users, given \in Roles \cup {NoRole} :
        StartSetup(r, u, given) \/ StartBootstrap(r, u, given)
  \/ \E x \in Roles : TakeRole(r, x) \/ GiveRole(r, x)
  \/ SaveHiatus(r)
  \/ SaveUnhiatus(r)
  \/ SaveStaffRoles(r)
  \/ SaveSetup(r)
  \/ BootstrapSaveRolesRow(r)
  \/ BootstrapSaveStaffRow(r)
  \/ Crash(r)

Environment ==
  \/ \E u \in Users, x \in Roles : GrantRole(u, x) \/ RevokeRole(u, x)
  \/ \E x \in Roles : DeleteGuildRole(x)

Next == (\E r \in Runs : RunStep(r)) \/ Environment

Spec == Init /\ [][Next]_vars

-----------------------------------------------------------------------------
(* A role that /hiatus took and that has not come back is in its member's  *)
(* record, or in the hands of a /hiatus run of that member that will write *)
(* it there; the roles of a crashed /hiatus are the exception, those of a  *)
(* crashed /unhiatus are not (it writes after it gives).                   *)
InHand(u, x) ==
  \E r \in Runs : run[r].op = "hiatus" /\ run[r].user = u /\ x \in run[r].list

RolesAccounted ==
  \A u \in Users : \A x \in taken[u] :
    x \in staff.hiatus[u] \cup abandoned[u] \/ InHand(u, x)

(* However stale the row a run writes back, a record, stored or in a run's *)
(* copy, names only roles that a /hiatus found on that very member: no     *)
(* interleaving moves a role from one member's record to another's.        *)
RecordsOwn(row) == \A u \in Users : row.hiatus[u] \subseteq everHeld[u]

RecordsOwnRoles ==
  /\ RecordsOwn(staff)
  /\ \A r \in Runs : Active(r) => RecordsOwn(run[r].row)

(* Whatever a run of /unhiatus gives, its member once gave up by /hiatus.  *)
RestoresOnlyGivenUp ==
  [][\A r \in Runs, x \in Roles : GiveRole(r, x) => x \in everHeld[run[r].user]]_vars

(* A run of /unhiatus gives a role only while it is a staff role: "someone *)
(* removed from staff while on hiatus must not get the roles back".        *)
RestoresOnlyStaffRoles ==
  [][\A r \in Runs, x \in Roles : GiveRole(r, x) => x \in staff.roles]_vars

-----------------------------------------------------------------------------
(* The strengthenings the proofs need.                                     *)

(* The roles a hiatus or unhiatus run works on are its member's own.       *)
HandsOwnRoles ==
  \A r \in Runs : run[r].op \in {"hiatus", "unhiatus"} =>
    /\ run[r].todo \subseteq run[r].list
    /\ run[r].list \subseteq everHeld[run[r].user]

OwnInv == RecordsOwnRoles /\ HandsOwnRoles

(* With one run at a time, no copy of the row is stale, and what an        *)
(* unhiatus run has given back so far is not missing any more.             *)
NoneStale ==
  /\ \A r, s \in Runs : Active(r) /\ Active(s) => r = s
  /\ \A r \in Runs : Active(r) => run[r].row = staff

HandsAccounted ==
  /\ \A r \in Runs : run[r].op = "hiatus" => run[r].todo \subseteq run[r].list
  /\ \A r \in Runs : run[r].op = "unhiatus" =>
       /\ run[r].list = run[r].row.hiatus[run[r].user] \cap run[r].row.roles
       /\ run[r].todo \subseteq run[r].list
       /\ taken[run[r].user] \cap run[r].list \subseteq run[r].todo

SerialInv == NoneStale /\ HandsAccounted /\ RolesAccounted
=============================================================================
