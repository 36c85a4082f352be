------------------------------ MODULE Mentions ------------------------------
(* Whom a message pings (runtime/mentions.go) and which role a function's   *)
(* argument names (runtime/roles.go).                                       *)
(*                                                                          *)
(* The content of a message is the set of its mentions, [of, id], with a    *)
(* size.  Allowed mentions are as discordgo has them: kinds that ping       *)
(* whoever is mentioned, and users and roles that ping when mentioned.      *)
EXTENDS SequencesExt

CONSTANTS
  Guild,          \* the server's ID, which is @everyone's too
  ServerRoles,    \* its roles in their order: [id, name]
  Mentionable,    \* those anyone may mention
  MaxListed       \* users or roles allowed_mentions may list

Everyone    == [of |-> "everyone", id |-> 0]
User(id)    == [of |-> "user", id |-> id]
RoleOf(id)  == [of |-> "role", id |-> id]

-----------------------------------------------------------------------------
(* Roles.  An argument is [as, id, name]: a number, a text that is an ID, a *)
(* mention or a name, or a role.                                            *)

AllInput == {"id", "mention", "name", "object"}

\* guildRole: with no roles declared, any is taken to exist.
GuildRole(id) ==
  IF id \in {r.id : r \in Range(ServerRoles)} \/ (ServerRoles = <<>> /\ id # 0) THEN id ELSE 0

\* The first role with a name; a name is what a text is that is nothing else accepted.
NamedRole(name) ==
  LET at == SelectInSeq(ServerRoles, LAMBDA r : r.name = name)
  IN  IF name = "@everyone" THEN GuildRole(Guild) ELSE IF at = 0 THEN 0 ELSE ServerRoles[at].id

\* findRole: 0 is no role.
FindRole(arg, accept) ==
  CASE arg.as = "object" -> IF "object" \in accept THEN arg.id ELSE 0
    [] arg.as = "number" -> IF "id" \in accept THEN GuildRole(arg.id) ELSE 0
    [] arg.as \in {"id", "mention"} /\ arg.as \in accept -> GuildRole(arg.id)
    [] arg.as \in {"id", "mention", "name"} /\ arg.as \notin accept \ {"name"} ->
         IF "name" \in accept THEN NamedRole(arg.name) ELSE 0

-----------------------------------------------------------------------------
Nobody    == [parse |-> {}, users |-> {}, roles |-> {}, replied |-> FALSE]
UsersOnly == [Nobody EXCEPT !.parse = {"users"}]
NoEscape  == [Nobody EXCEPT !.parse = {"users", "roles", "everyone"}, !.replied = TRUE]

\* responseMentions: what mentionEveryone, mentionHere and mentionRole let it ping.
ResponseMentions(mentioned) ==
  [UsersOnly EXCEPT !.parse = @ \cup (IF Everyone \in mentioned THEN {"everyone"} ELSE {}),
                    !.roles = {m.id : m \in {r \in mentioned : r.of = "role"}}]

\* parseAllowedMentions: a value [parse, users, roles, replied, fits] of lists, which fits
\* when they are lists of what they should be, under known keys.
ParsesMentions(v) ==
  /\ v.fits
  /\ Range(v.parse) \subseteq {"users", "roles", "everyone"}
  /\ 0 \notin Range(v.users) \cup Range(v.roles)
  /\ "users" \in Range(v.parse) => v.users = <<>>
  /\ "roles" \in Range(v.parse) => v.roles = <<>>
FirstListed(ids) == {ids[i] : i \in {j \in DOMAIN ids : j <= MaxListed}}
AllowedMentions(v) ==
  [parse |-> Range(v.parse), users |-> FirstListed(v.users), roles |-> FirstListed(v.roles), replied |-> v.replied]

\* A plausible slip: those listed ping although they are not mentioned.
PingsOfListed(mentions, allowed) ==
  {m \in mentions : \/ m.of = "everyone" /\ "everyone" \in allowed.parse
                    \/ m.of = "user" /\ "users" \in allowed.parse
                    \/ m.of = "role" /\ "roles" \in allowed.parse}
  \cup {User(id) : id \in allowed.users} \cup {RoleOf(id) : id \in allowed.roles}

\* pingsOf
PingsOf(mentions, allowed) ==
  {m \in mentions : \/ m.of = "everyone" /\ "everyone" \in allowed.parse
                    \/ m.of = "user" /\ ("users" \in allowed.parse \/ m.id \in allowed.users)
                    \/ m.of = "role" /\ ("roles" \in allowed.parse \/ m.id \in allowed.roles)}

\* pings: less those the bot may not ping, and the author of the message replied to
\* (0 if there is none, or it is the bot).
Pings(mentions, allowed, mayMention, repliedTo) ==
  {m \in PingsOf(mentions, allowed) :
     mayMention \/ m.of = "user" \/ (m.of = "role" /\ m.id \in Mentionable)}
  \cup (IF allowed.replied /\ repliedTo # 0 THEN {User(repliedTo)} ELSE {})
=============================================================================
