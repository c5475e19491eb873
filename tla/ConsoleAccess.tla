---------------------------- MODULE ConsoleAccess ----------------------------
(***************************************************************************)
(* Under whose access the console reads: \as, \session, \restrict and      *)
(* \refresh of the console (repl/mod.rs, access.rs of the CLI) over the    *)
(* stores of open-sdbl-db (AccessStore of access.rs, RestrictionStore of   *)
(* restrict.rs), and the conditions a ВЫБРАТЬ РАЗРЕШЕННЫЕ statement gets.  *)
(*                                                                         *)
(* A command reads the base at its awaits, each of which may fail and end  *)
(* the command where it stands.  The base is what the constants say; a     *)
(* failure that also kills the session ends the console and this state.    *)
(*                                                                         *)
(* A condition is the set of the restrictions it joins by ИЛИ: a role and  *)
(* the values its templates were expanded with.  The empty set is ЛОЖЬ.    *)
(***************************************************************************)
EXTENDS Naturals, Sequences, FiniteSets, Functions

CONSTANTS
  Users, NoUser,
  Roles,
  RolesOf,      \* user -> his roles, in the order of v8users.Data
  Place,        \* role -> where its rights are: "config", "extension", "nowhere"
  Entries,      \* role -> the objects it lists -> what it says of Чтение there
  ByDefault,    \* the roles with setForNewObjects
  Reads,        \* role -> the session parameters its templates read
  Joining,      \* the roles whose restrictions join other tables
  Elements,     \* the users with an element in Справочник.Пользователи
  Objects,      \* the metadata objects
  Entered,      \* the session parameters the operator gives values
  Restricted    \* the targets the operator restricts

(* What a role's entry of an object says of reading: allowed or not, with a *)
(* restriction or without, or nothing of this right.                        *)
Says == {"granted", "restricted", "denied", "barred", "silent"}

(* ТекущийПользователь, ТекущийВнешнийПользователь, and the values of the   *)
(* register ПараметрыОграниченияДоступа.                                    *)
Names == {"User", "External", "Templates"}

(* A table a statement reads: an object, or a tabular section of it.        *)
Targets == [object : Objects, section : BOOLEAN]

ASSUME ConsoleAccessAssumption ==
  /\ NoUser \notin Users
  /\ RolesOf \in [Users -> Seq(Roles)]
  /\ Place \in [Roles -> {"config", "extension", "nowhere"}]
  /\ \A r \in Roles : \A o \in DOMAIN Entries[r] : Entries[r][o] \in Says
  /\ Reads \in [Roles -> SUBSET Names]
  /\ Elements \subseteq Users
  /\ Entered \subseteq Names /\ Restricted \subseteq Targets

VARIABLES
  known,        \* v8users has been read
  rights,       \* AccessStore.rights: the roles whose rights are read
  unreadable,   \* AccessStore.unreadable
  extensions,   \* the index of the extension store has been read
  current,      \* AccessStore.current: a user, or NoUser
  parameters,   \* the session parameters: a function of the names that have a value
  typed,        \* history: the names whose value is the operator's
  stored,       \* RestrictionStore: target -> [origin, condition]
  derivedFor,   \* history: the user the derived restrictions were expanded for
  command       \* the command being run: [name, user, roles, at]

store == <<known, rights, unreadable, extensions>>
vars == <<store, current, parameters, typed, stored, derivedFor, command>>

RolesIn(u) == IF u = NoUser THEN {} ELSE Range(RolesOf[u])

None == [name |-> "none", user |-> NoUser, roles |-> {}, at |-> "end"]

Whole(o) == [object |-> o, section |-> FALSE]

(* The first function, and the second where the first says nothing.         *)
Over(f, g) ==
  [x \in DOMAIN f \cup DOMAIN g |-> IF x \in DOMAIN f THEN f[x] ELSE g[x]]

Only(x, v) == [y \in {x} |-> v]

-----------------------------------------------------------------------------
(* RoleRights and read_access.                                              *)

Lists(r, o) == o \in DOMAIN Entries[r]

Grants(r, o) ==
  IF Lists(r, o) /\ Entries[r][o] # "silent"
  THEN Entries[r][o] \in {"granted", "restricted"}
  ELSE r \in ByDefault

(* The role attaches a restriction, whether it grants the right or not.     *)
Restricts(r, o) == Lists(r, o) /\ Entries[r][o] \in {"restricted", "barred"}

Missing(r, values) == ~(Reads[r] \subseteq DOMAIN values)

Unrestricted == [kind |-> "free", by |-> {}]
Refused      == [kind |-> "error", by |-> {}]

Expanded(r, values) ==
  [role |-> r, values |-> Restrict(values, Reads[r] \cap DOMAIN values)]

(* The access the user's roles among those give to reading o: they are      *)
(* asked in their order, until one grants it freely or one's restriction    *)
(* does not expand; then at most one of the restrictions may join other     *)
(* tables.                                                                  *)
ReadAccess(u, among, o, values) ==
  LET role(i)  == RolesOf[u][i]
      granting == {i \in DOMAIN RolesOf[u] : role(i) \in among /\ Grants(role(i), o)}
      free     == {i \in granting : ~Restricts(role(i), o)}
      failing  == {i \in granting : Restricts(role(i), o) /\ Missing(role(i), values)}
      First(s) == \E i \in s : \A k \in free \cup failing : i <= k
  IN CASE First(failing) -> Refused
       [] First(free)    -> Unrestricted
       [] OTHER ->
            IF Cardinality({i \in granting : role(i) \in Joining}) > 1
            THEN Refused
            ELSE [kind |-> "restricted",
                  by |-> {Expanded(role(i), values) : i \in granting}]

-----------------------------------------------------------------------------
(* RestrictionStore.                                                        *)

Typed(s) == {t \in DOMAIN s : s[t].origin = "typed"}

ForgetDerived(s) == Restrict(s, Typed(s))

(* role_restrictions: of the objects some role restricts, those no role     *)
(* grants by its default without listing them, under the roles that do.     *)
RoleRestrictions(u, values) ==
  LET roles == RolesIn(u) \cap rights
      open(o) == \E r \in roles : r \in ByDefault /\ ~Lists(r, o)
      access(o) == ReadAccess(u, {r \in rights : Lists(r, o)}, o, values)
  IN [o \in {o \in Objects : /\ \E r \in roles : Restricts(r, o)
                             /\ ~open(o) /\ access(o).kind = "restricted"} |->
        access(o).by]

(* Mutant: a derived restriction replaces the one that was typed.           *)
DeriveOver(s, u, values) ==
  LET derived == RoleRestrictions(u, values)
  IN Over([t \in {Whole(o) : o \in DOMAIN derived} |->
             [origin |-> "derived", condition |-> derived[t.object]]],
          ForgetDerived(s))

(* derive: the derived restrictions are replaced, the typed ones stay.      *)
Derive(s, u, values) ==
  LET derived == RoleRestrictions(u, values)
  IN Over(ForgetDerived(s),
          [t \in {Whole(o) : o \in DOMAIN derived} |->
             [origin |-> "derived", condition |-> derived[t.object]]])

-----------------------------------------------------------------------------
(* What a ВЫБРАТЬ РАЗРЕШЕННЫЕ statement applies to a target: the restriction *)
(* stored for it, and otherwise that of the current user's roles.           *)

Applied(t) ==
  IF t \in DOMAIN stored
  THEN [kind |-> "restricted", by |-> stored[t].condition]
  ELSE IF current = NoUser THEN Unrestricted
  ELSE ReadAccess(current, rights, t.object, parameters)

(* Mutant: a role whose rights are not there is passed over.                *)
DecisionOfReadRoles(t) ==
  IF current = NoUser THEN Refused
  ELSE ReadAccess(current, rights, t.object, parameters)

(* user_decisions, for callers that want every target answered: silence of  *)
(* a role whose rights are unread is no permission.                         *)
Decision(t) ==
  IF current = NoUser \/ ~(RolesIn(current) \subseteq rights)
  THEN Refused
  ELSE ReadAccess(current, rights, t.object, parameters)

-----------------------------------------------------------------------------
Init ==
  /\ known = FALSE /\ rights = {} /\ unreadable = {} /\ extensions = FALSE
  /\ current = NoUser /\ parameters = <<>> /\ typed = {}
  /\ stored = <<>> /\ derivedFor = NoUser /\ command = None

Idle == command = None

Start(name, user, roles, at) ==
  /\ Idle
  /\ command' = [name |-> name, user |-> user, roles |-> roles, at |-> at]
  /\ UNCHANGED <<store, current, parameters, typed, stored, derivedFor>>

(* \as <user>.                                                              *)
As == \E u \in Users : Start("as", u, RolesIn(u), "users")

(* \users and \user; \role and \template of one role by its name; \rls of   *)
(* the roles of the current user, or of every declared role.                *)
Show ==
  \/ Start("users", NoUser, {}, "users")
  \/ \E r \in Roles : Start("rights", NoUser, {r}, "rights")
  \/ Start("rights", NoUser, IF current = NoUser THEN Roles ELSE RolesIn(current), "rights")

At(point) == command.at = point

(* The command goes on at a point, or is done.                              *)
Continue(point) ==
  command' = IF point = "end" THEN None ELSE [command EXCEPT !.at = point]

(* missing_rights: neither read nor known not to be there.                  *)
Lacking == command.roles \ (rights \cup unreadable)

(* An await failed: what was read before it stays.                          *)
Fail ==
  /\ \/ At("users") /\ ~known
     \/ At("rights") /\ Lacking # {}
     \/ At("index") /\ ~extensions
     \/ \E p \in {"extension", "templates", "element"} : At(p)
  /\ command' = None
  /\ UNCHANGED <<store, current, parameters, typed, stored, derivedFor>>

(* ensure_users: read once.                                                 *)
EnsureUsers ==
  /\ At("users")
  /\ known' = TRUE
  /\ Continue(IF command.name = "as" THEN "rights" ELSE "end")
  /\ UNCHANGED <<rights, unreadable, extensions, current, parameters, typed,
                 stored, derivedFor>>

AfterRights == IF command.name = "as" THEN "accept" ELSE "end"

(* ensure_rights, from Config: what the store lacks.                        *)
ReadConfigRights ==
  /\ At("rights")
  /\ LET found == {r \in Lacking : Place[r] = "config"}
     IN /\ rights' = rights \cup found
        /\ Continue(IF Lacking = found THEN AfterRights ELSE "index")
  /\ UNCHANGED <<known, unreadable, extensions, current, parameters, typed,
                 stored, derivedFor>>

(* ensure_rights: the index of the extension store, read once.              *)
ReadExtensionIndex ==
  /\ At("index")
  /\ extensions' = TRUE
  /\ Continue("extension")
  /\ UNCHANGED <<known, rights, unreadable, current, parameters, typed, stored,
                 derivedFor>>

(* Mutant: a role no resource was found of is not remembered.               *)
ReadExtensionForgets ==
  /\ At("extension")
  /\ rights' = rights \cup {r \in Lacking : Place[r] = "extension"}
  /\ Continue(AfterRights)
  /\ UNCHANGED <<known, unreadable, extensions, current, parameters, typed,
                 stored, derivedFor>>

(* ensure_rights, from the extensions; what they do not carry either is     *)
(* remembered and not asked again.                                          *)
ReadExtensionRights ==
  /\ At("extension")
  /\ LET found == {r \in Lacking : Place[r] = "extension"}
     IN /\ rights' = rights \cup found
        /\ unreadable' = unreadable \cup (Lacking \ found)
  /\ Continue(AfterRights)
  /\ UNCHANGED <<known, extensions, current, parameters, typed, stored, derivedFor>>

(* The user is current before his parameters are read.                      *)
Accept ==
  /\ At("accept")
  /\ current' = command.user
  /\ Continue("templates")
  /\ UNCHANGED <<store, parameters, typed, stored, derivedFor>>

(* set_if_absent: what is stored already stays.                             *)
SetIfAbsent(values, name, value) == Over(values, Only(name, value))

(* read_template_parameters: the values of the register, or none: there is  *)
(* no register, it has no row, or reading it needs a separator's value.     *)
ReadTemplates ==
  /\ At("templates")
  /\ parameters' \in {parameters, SetIfAbsent(parameters, "Templates", "read")}
  /\ Continue("element")
  /\ UNCHANGED <<store, current, typed, stored, derivedFor>>

(* read_current_user, the empty external user, and the derivation.          *)
ReadElement ==
  /\ At("element")
  /\ LET own == IF command.user \in Elements
                THEN SetIfAbsent(parameters, "User", command.user)
                ELSE parameters
     IN parameters' = SetIfAbsent(own, "External", "empty")
  /\ stored' = Derive(stored, current, parameters')
  /\ derivedFor' = current
  /\ Continue("end")
  /\ UNCHANGED <<store, current, typed>>

(* A \session command changed the values: the restrictions of a current     *)
(* user are derived again.                                                  *)
DeriveAgain ==
  IF current = NoUser THEN UNCHANGED <<stored, derivedFor>>
  ELSE /\ stored' = Derive(stored, current, parameters')
       /\ derivedFor' = current

(* \session <name> <literal>.                                               *)
SetParameter(n) ==
  /\ Idle
  /\ parameters' = Over(Only(n, "typed"), parameters)
  /\ typed' = typed \cup {n}
  /\ DeriveAgain
  /\ UNCHANGED <<store, current, command>>

(* Mutant: \session clear leaves the derived restrictions as they were.     *)
ClearParametersOnly ==
  /\ Idle
  /\ parameters' = <<>> /\ typed' = {}
  /\ UNCHANGED <<store, current, stored, derivedFor, command>>

(* \session clear.                                                          *)
ClearParameters ==
  /\ Idle
  /\ parameters' = <<>> /\ typed' = {}
  /\ DeriveAgain
  /\ UNCHANGED <<store, current, command>>

OperatorsOwn == {[role |-> "operator", values |-> <<>>]}

(* \restrict <target> <condition>.                                          *)
SetRestriction(t) ==
  /\ Idle
  /\ stored' = Over(Only(t, [origin |-> "typed", condition |-> OperatorsOwn]), stored)
  /\ UNCHANGED <<store, current, parameters, typed, derivedFor, command>>

(* \restrict clear: the derived ones too; a statement takes the access of   *)
(* the current user's roles for what is not stored.                         *)
ClearRestrictions ==
  /\ Idle
  /\ stored' = <<>>
  /\ UNCHANGED <<store, current, parameters, typed, derivedFor, command>>

(* \as clear.  The parameters it read stay.                                 *)
AsClear ==
  /\ Idle
  /\ current' = NoUser
  /\ stored' = ForgetDerived(stored)
  /\ derivedFor' = NoUser
  /\ UNCHANGED <<store, parameters, typed, command>>

(* \refresh once the metadata is read: AccessStore::reset.                  *)
Refresh ==
  /\ Idle
  /\ known' = FALSE /\ rights' = {} /\ unreadable' = {} /\ extensions' = FALSE
  /\ current' = NoUser
  /\ stored' = ForgetDerived(stored)
  /\ derivedFor' = NoUser
  /\ UNCHANGED <<parameters, typed, command>>

Next ==
  \/ As \/ Show
  \/ EnsureUsers \/ ReadConfigRights \/ ReadExtensionIndex \/ ReadExtensionRights
  \/ Accept \/ ReadTemplates \/ ReadElement \/ Fail
  \/ \E n \in Entered : SetParameter(n)
  \/ \E t \in Restricted : SetRestriction(t)
  \/ ClearParameters \/ ClearRestrictions \/ AsClear \/ Refresh

Spec == Init /\ [][Next]_vars

-----------------------------------------------------------------------------
(* TypeOK: the stores keep their shape; a role is read or known not to be   *)
(* there, never both, and a command stands at one of its awaits.            *)
TypeOK ==
  /\ known \in BOOLEAN /\ extensions \in BOOLEAN
  /\ rights \subseteq Roles /\ unreadable \subseteq Roles
  /\ rights \cap unreadable = {}
  /\ current \in Users \cup {NoUser} /\ derivedFor \in Users \cup {NoUser}
  /\ typed \subseteq DOMAIN parameters /\ DOMAIN parameters \subseteq Names
  /\ DOMAIN stored \subseteq Targets
  /\ command \in [name : {"none", "as", "users", "rights"},
                   user : Users \cup {NoUser}, roles : SUBSET Roles,
                   at : {"users", "rights", "index", "extension", "accept",
                         "templates", "element", "end"}]

(* RightsKnown: the rights of every role of a current user are read, or     *)
(* known not to be there, whatever failed after he was accepted and in      *)
(* whatever order users were made current (ensure_rights).                  *)
RightsKnown == RolesIn(current) \subseteq rights \cup unreadable

(* What the roles of the current user give together, asked in no order.     *)
Verdict(o) ==
  LET granting == {r \in RolesIn(current) \cap rights : Grants(r, o)}
  IN IF current = NoUser \/ \E r \in granting : ~Restricts(r, o)
     THEN Unrestricted
     ELSE [kind |-> "restricted", by |-> {Expanded(r, parameters) : r \in granting}]

(* AccessApplied: once \as is done, a target the operator did not restrict  *)
(* is filtered by what the roles of the current user, and nobody else's,    *)
(* give together under the parameters of now, and by nothing without a      *)
(* user; or the statement is refused for a restriction that needs more.     *)
(* Holds however \as, \session, \restrict and \refresh follow each other,   *)
(* failures included (RestrictionStore, user_restrictions).                 *)
AccessApplied ==
  Idle /\ derivedFor = current =>
    \A t \in Targets \ Typed(stored) :
      IF Applied(t) = Refused
      THEN \E r \in RolesIn(current) \cap rights :
             Restricts(r, t.object) /\ (Missing(r, parameters) \/ r \in Joining)
      ELSE Applied(t) = Verdict(t.object)

(* DecisionsAgree: the strict answer of user_decisions is given only when   *)
(* the rights of all the user's roles are read, and then it is what the     *)
(* console applies through its stored restrictions.                         *)
DecisionsAgree ==
  Idle /\ derivedFor = current =>
    \A t \in Targets \ Typed(stored) :
      Decision(t) # Refused => /\ unreadable \cap RolesIn(current) = {}
                              /\ Decision(t) = Applied(t)

(* TypedStays: what the operator typed changes only by his \session or      *)
(* \restrict of the same name or by their clear; no reading of the base, no *)
(* derivation and no change of user replaces it.                            *)
TypedRestrictionsStay ==
  \A t \in Typed(stored) :
    \/ SetRestriction(t) \/ ClearRestrictions
    \/ t \in DOMAIN stored' /\ stored'[t] = stored[t]

TypedParametersStay ==
  \A n \in typed :
    \/ SetParameter(n) \/ ClearParameters
    \/ n \in DOMAIN parameters' /\ parameters'[n] = parameters[n]

TypedStays == [][TypedRestrictionsStay /\ TypedParametersStay]_vars

(* ElementOfCurrentUser: openspec/specs/query-repl/spec.md, "The current    *)
(* user of the base": after \as of a user with an element,                  *)
(* ТекущийПользователь holds it, unless the operator typed a value.         *)
ElementOfCurrentUser ==
  Idle /\ derivedFor = current /\ current \in Elements
       /\ "User" \in DOMAIN parameters \ typed
    => parameters["User"] = current
=============================================================================
