------------------------- MODULE ConsoleAccessProofs -------------------------
(* Of the console's access, for every base: users, roles, where their rights *)
(* are, and what they say.                                                  *)
EXTENDS ApplicationAccess, FiniteSums

(* What makes RightsKnown inductive: a \as command looks for all the roles  *)
(* of its user, has found them or knows them missing once it accepts him,   *)
(* and works for the current user from then on.                             *)
InvCommand ==
  /\ command.name = "as" =>
       /\ command.user \in Users
       /\ command.roles = RolesIn(command.user)
  /\ command.at \in {"accept", "templates", "element"} =>
       /\ command.name = "as"
       /\ command.roles \subseteq rights \cup unreadable
  /\ command.at \in {"templates", "element"} => current = command.user

IInv == TypeOK /\ InvCommand /\ RightsKnown

(* NoUser is no user of the base.                                           *)
LEMMA NoUserIsNone == NoUser \notin Users
BY ConsoleAccessAssumption DEF ConsoleAccessAssumption

(* A user of the base has roles of the base (v8users.Data).                *)
LEMMA RolesInType == ASSUME NEW u \in Users \cup {NoUser}
                     PROVE  RolesIn(u) \subseteq Roles
<1>1. CASE u = NoUser
  BY <1>1 DEF RolesIn
<1>2. CASE u # NoUser
  <2>1. RolesOf[u] \in Seq(Roles)
    BY <1>2, ConsoleAccessAssumption DEF ConsoleAccessAssumption
  <2>2. Range(RolesOf[u]) \subseteq Roles
    BY <2>1 DEF Range
  <2> QED BY <1>2, <2>2 DEF RolesIn
<1> QED BY <1>1, <1>2

(* RestrictionStore.derive names targets of the metadata only.              *)
LEMMA DeriveType == ASSUME NEW s, NEW u, NEW values, DOMAIN s \subseteq Targets
                    PROVE  DOMAIN Derive(s, u, values) \subseteq Targets
<1> DEFINE objects == DOMAIN RoleRestrictions(u, values)
<1>1. objects \subseteq Objects
  BY Zenon DEF RoleRestrictions
<1>2. DOMAIN Derive(s, u, values) =
        DOMAIN ForgetDerived(s) \cup {Whole(o) : o \in objects}
  BY DEF Derive, Over
<1>3. DOMAIN ForgetDerived(s) \subseteq Targets
  BY DEF ForgetDerived, Restrict, Typed
<1> HIDE DEF objects
<1>4. {Whole(o) : o \in objects} \subseteq Targets
  <2>1. \A o \in objects : Whole(o) \in Targets
    BY <1>1 DEF Whole, Targets
  <2> QED BY <2>1, Zenon
<1> QED BY <1>2, <1>3, <1>4

(* forget_derived adds no target.                                           *)
LEMMA ForgetType == ASSUME NEW s, DOMAIN s \subseteq Targets
                    PROVE  DOMAIN ForgetDerived(s) \subseteq Targets
BY DEF ForgetDerived, Restrict, Typed

(* set_if_absent stores under a known name and drops none.                  *)
LEMMA SetIfAbsentType ==
  ASSUME NEW values, NEW n \in Names, NEW v,
         DOMAIN values \subseteq Names, typed \subseteq DOMAIN values
  PROVE  /\ DOMAIN SetIfAbsent(values, n, v) \subseteq Names
         /\ typed \subseteq DOMAIN SetIfAbsent(values, n, v)
BY DEF SetIfAbsent, Over, Only

-----------------------------------------------------------------------------
(* A console that has read nothing satisfies the invariant.                 *)
THEOREM Initial == Init => IInv
<1>1. ASSUME Init PROVE DOMAIN parameters = {} /\ DOMAIN stored = {}
  <2>1. DOMAIN <<>> = {}
    OBVIOUS
  <2> QED BY <1>1, <2>1, Zenon DEF Init
<1>2. Init => TypeOK
  <2> SUFFICES ASSUME Init PROVE TypeOK
    OBVIOUS
  <2>1. DOMAIN parameters = {} /\ DOMAIN stored = {}
    BY <1>1
  <2>2. command = None
    BY DEF Init
  <2>3. command \in [name : {"none", "as", "users", "rights"},
                    user : Users \cup {NoUser}, roles : SUBSET Roles,
                    at : {"users", "rights", "index", "extension", "accept",
                          "templates", "element", "end"}]
    BY <2>2 DEF None
  <2> QED BY <2>1, <2>3 DEF Init, TypeOK
<1>3. Init => InvCommand /\ RightsKnown
  BY DEF Init, InvCommand, RightsKnown, RolesIn, None
<1> QED BY <1>2, <1>3 DEF IInv

(* Every command, every await of it and every failure keeps the invariant.  *)
THEOREM Inductive == IInv /\ [Next]_vars => IInv'
<1> SUFFICES ASSUME IInv, [Next]_vars PROVE IInv'
  OBVIOUS
<1> USE DEF IInv, TypeOK, InvCommand, RightsKnown
<1>1. CASE As
  <2>1. PICK u \in Users : Start("as", u, RolesIn(u), "users")
    BY <1>1 DEF As
  <2>2. RolesIn(u) \subseteq Roles
    BY RolesInType
  <2> QED BY <2>1, <2>2 DEF Start, store
<1>2. CASE Show
  <2>1. RolesIn(current) \subseteq Roles
    BY RolesInType
  <2>2. PICK name \in {"users", "rights"}, roles \in SUBSET Roles :
          Start(name, NoUser, roles, name)
    BY <1>2, <2>1 DEF Show
  <2> QED BY <2>2 DEF Start, store
<1>3. CASE EnsureUsers
  BY <1>3 DEF EnsureUsers, Continue, At, None
<1>4. CASE ReadConfigRights
  BY <1>4 DEF ReadConfigRights, Continue, At, None, AfterRights, Lacking
<1>5. CASE ReadExtensionIndex
  BY <1>5 DEF ReadExtensionIndex, Continue, At, None
<1>6. CASE ReadExtensionRights
  BY <1>6 DEF ReadExtensionRights, Continue, At, None, AfterRights, Lacking
<1>7. CASE Accept
  BY <1>7 DEF Accept, Continue, At, None, store
<1>8. CASE ReadTemplates
  <2>1. /\ DOMAIN SetIfAbsent(parameters, "Templates", "read") \subseteq Names
        /\ typed \subseteq DOMAIN SetIfAbsent(parameters, "Templates", "read")
    BY SetIfAbsentType DEF Names
  <2> QED BY <1>8, <2>1 DEF ReadTemplates, Continue, At, None, store
<1>9. CASE ReadElement
  <2> DEFINE own == IF command.user \in Elements
                    THEN SetIfAbsent(parameters, "User", command.user)
                    ELSE parameters
  <2>1. DOMAIN own \subseteq Names /\ typed \subseteq DOMAIN own
    BY SetIfAbsentType DEF Names
  <2>2. parameters' = SetIfAbsent(own, "External", "empty")
    BY <1>9 DEF ReadElement
  <2> HIDE DEF own
  <2>3. typed' \subseteq DOMAIN parameters' /\ DOMAIN parameters' \subseteq Names
    BY <1>9, <2>1, <2>2, SetIfAbsentType DEF ReadElement, Names
  <2>4. DOMAIN stored' \subseteq Targets
    BY <1>9, DeriveType DEF ReadElement
  <2> QED BY <1>9, <2>3, <2>4 DEF ReadElement, Continue, At, None, store
<1>10. CASE Fail
  BY <1>10 DEF Fail, None, store
<1>11. ASSUME NEW n \in Entered, SetParameter(n) PROVE IInv'
  <2>1. typed' \subseteq DOMAIN parameters' /\ DOMAIN parameters' \subseteq Names
    BY <1>11, ConsoleAccessAssumption DEF SetParameter, Over, Only, ConsoleAccessAssumption
  <2>2. DOMAIN stored' \subseteq Targets /\ derivedFor' \in Users \cup {NoUser}
    BY <1>11, DeriveType DEF SetParameter, DeriveAgain
  <2> QED BY <1>11, <2>1, <2>2 DEF SetParameter, store
<1>12. ASSUME NEW t \in Restricted, SetRestriction(t) PROVE IInv'
  <2>1. DOMAIN stored' \subseteq Targets
    BY <1>12, ConsoleAccessAssumption DEF SetRestriction, Over, Only, ConsoleAccessAssumption
  <2> QED BY <1>12, <2>1 DEF SetRestriction, store
<1>13. CASE ClearParameters
  <2>1. DOMAIN stored' \subseteq Targets /\ derivedFor' \in Users \cup {NoUser}
    BY <1>13, DeriveType DEF ClearParameters, DeriveAgain
  <2> QED BY <1>13, <2>1 DEF ClearParameters, store
<1>14. CASE ClearRestrictions
  BY <1>14 DEF ClearRestrictions, store
<1>15. CASE AsClear
  BY <1>15, ForgetType DEF AsClear, Idle, None, store, RolesIn
<1>16. CASE Refresh
  BY <1>16, ForgetType DEF Refresh, Idle, None, RolesIn
<1>17. CASE UNCHANGED vars
  BY <1>17 DEF vars, store
<1> QED
  BY <1>1, <1>2, <1>3, <1>4, <1>5, <1>6, <1>7, <1>8, <1>9, <1>10, <1>11, <1>12,
     <1>13, <1>14, <1>15, <1>16, <1>17 DEF Next

(* TypeCorrect: the stores and the running command keep their shape, for    *)
(* every base and whatever the operator enters (AccessStore,                *)
(* RestrictionStore, ParameterStore).                                       *)
THEOREM TypeCorrect == Spec => []TypeOK
<1>1. IInv => TypeOK
  BY DEF IInv
<1> QED BY <1>1, Initial, Inductive, PTL DEF Spec

(* CurrentRightsKnown: whenever a user is current, the rights of each of    *)
(* his roles are read or known to be nowhere, in every sequence of \as,     *)
(* \refresh and failed reads (ensure_rights, set_current_user).             *)
THEOREM CurrentRightsKnown == Spec => []RightsKnown
<1>1. IInv => RightsKnown
  BY DEF IInv
<1> QED BY <1>1, Initial, Inductive, PTL DEF Spec

-----------------------------------------------------------------------------
(* derive leaves a typed restriction as it is.                              *)
LEMMA DeriveKeepsTyped ==
  ASSUME NEW s, NEW u, NEW values, NEW t \in Typed(s)
  PROVE  t \in DOMAIN Derive(s, u, values) /\ Derive(s, u, values)[t] = s[t]
<1>1. t \in DOMAIN ForgetDerived(s) /\ ForgetDerived(s)[t] = s[t]
  BY DEF ForgetDerived, Restrict
<1> DEFINE derived == [d \in {Whole(o) : o \in DOMAIN RoleRestrictions(u, values)} |->
                         [origin |-> "derived",
                          condition |-> RoleRestrictions(u, values)[d.object]]]
<1>2. Derive(s, u, values) = Over(ForgetDerived(s), derived)
  BY DEF Derive
<1> HIDE DEF derived
<1> QED BY <1>1, <1>2 DEF Over

(* forget_derived leaves a typed restriction as it is.                      *)
LEMMA ForgetKeepsTyped ==
  ASSUME NEW s, NEW t \in Typed(s)
  PROVE  t \in DOMAIN ForgetDerived(s) /\ ForgetDerived(s)[t] = s[t]
BY DEF ForgetDerived, Restrict

(* set_if_absent leaves every stored value as it is.                        *)
LEMMA SetIfAbsentKeeps ==
  ASSUME NEW values, NEW name, NEW v, NEW n \in DOMAIN values
  PROVE  /\ n \in DOMAIN SetIfAbsent(values, name, v)
         /\ SetIfAbsent(values, name, v)[n] = values[n]
BY DEF SetIfAbsent, Over

(* One step of the console changes what was typed only by the operator.     *)
LEMMA TypedStep == TypeOK /\ [Next]_vars => TypedRestrictionsStay /\ TypedParametersStay
<1> SUFFICES ASSUME TypeOK, [Next]_vars
             PROVE  TypedRestrictionsStay /\ TypedParametersStay
  OBVIOUS
<1> USE DEF TypedRestrictionsStay, TypedParametersStay
<1>1. typed \subseteq DOMAIN parameters
  BY DEF TypeOK
<1>2. Typed(stored) \subseteq DOMAIN stored
  BY DEF Typed
<1>3. CASE stored' = stored /\ parameters' = parameters
  BY <1>1, <1>2, <1>3
<1>4. CASE As \/ Show \/ EnsureUsers \/ ReadConfigRights \/ ReadExtensionIndex
           \/ ReadExtensionRights \/ Accept \/ Fail \/ UNCHANGED vars
  BY <1>3, <1>4 DEF As, Show, Start, EnsureUsers, ReadConfigRights, ReadExtensionIndex,
     ReadExtensionRights, Accept, Fail, vars
<1>5. CASE ReadTemplates
  BY <1>1, <1>2, <1>5, SetIfAbsentKeeps DEF ReadTemplates
<1>6. CASE ReadElement
  <2> DEFINE own == IF command.user \in Elements
                    THEN SetIfAbsent(parameters, "User", command.user)
                    ELSE parameters
  <2>1. parameters' = SetIfAbsent(own, "External", "empty")
    BY <1>6 DEF ReadElement
  <2>2. \A n \in typed : n \in DOMAIN own /\ own[n] = parameters[n]
    BY <1>1, SetIfAbsentKeeps
  <2> HIDE DEF own
  <2>3. TypedParametersStay
    BY <2>1, <2>2, SetIfAbsentKeeps
  <2>4. TypedRestrictionsStay
    BY <1>6, DeriveKeepsTyped DEF ReadElement
  <2> QED BY <2>3, <2>4
<1>7. ASSUME NEW n \in Entered, SetParameter(n)
      PROVE  TypedRestrictionsStay /\ TypedParametersStay
  <2>1. \A k \in typed \ {n} : k \in DOMAIN parameters' /\ parameters'[k] = parameters[k]
    BY <1>1, <1>7 DEF SetParameter, Over, Only
  <2>2. TypedRestrictionsStay
    BY <1>2, <1>7, DeriveKeepsTyped DEF SetParameter, DeriveAgain
  <2> QED BY <1>7, <2>1, <2>2
<1>8. ASSUME NEW t \in Restricted, SetRestriction(t)
      PROVE  TypedRestrictionsStay /\ TypedParametersStay
  <2>1. \A k \in Typed(stored) \ {t} : k \in DOMAIN stored' /\ stored'[k] = stored[k]
    BY <1>2, <1>8 DEF SetRestriction, Over, Only
  <2>2. parameters' = parameters
    BY <1>8 DEF SetRestriction
  <2> QED BY <1>1, <1>8, <2>1, <2>2
<1>9. CASE ClearParameters
  BY <1>2, <1>9, DeriveKeepsTyped DEF ClearParameters, DeriveAgain
<1>10. CASE ClearRestrictions
  BY <1>1, <1>10 DEF ClearRestrictions
<1>11. CASE AsClear
  BY <1>1, <1>11, ForgetKeepsTyped DEF AsClear
<1>12. CASE Refresh
  BY <1>1, <1>12, ForgetKeepsTyped DEF Refresh
<1> QED BY <1>4, <1>5, <1>6, <1>7, <1>8, <1>9, <1>10, <1>11, <1>12 DEF Next

(* TypedAlwaysStays: nothing but the operator's own \session and \restrict  *)
(* changes what he typed, for every base (set_if_absent, derive,            *)
(* forget_derived).                                                         *)
THEOREM TypedAlwaysStays == Spec => TypedStays
<1>1. IInv => TypeOK
  BY DEF IInv
<1> QED BY <1>1, Initial, Inductive, TypedStep, PTL DEF Spec, TypedStays
-----------------------------------------------------------------------------
(* What the access of several roles says.                                   *)

Granting(u, among, o) == {r \in RolesIn(u) \cap among : Grants(r, o)}

(* read_access asks the roles in their order and stops at the first that    *)
(* settles the question; what it answers does not depend on that order,     *)
(* except that it may be a refusal: then some granting role's restriction   *)
(* lacks a parameter or joins another table.                                *)
LEMMA AccessAnswers ==
  ASSUME NEW u \in Users, NEW among, NEW o, NEW values
  PROVE  LET access == ReadAccess(u, among, o, values) IN
         \/ /\ access = Refused
            /\ \E r \in Granting(u, among, o) :
                 Restricts(r, o) /\ (Missing(r, values) \/ r \in Joining)
         \/ /\ access = Unrestricted
            /\ \E r \in Granting(u, among, o) : ~Restricts(r, o)
         \/ /\ access = [kind |-> "restricted",
                         by |-> {Expanded(r, values) : r \in Granting(u, among, o)}]
            /\ \A r \in Granting(u, among, o) : Restricts(r, o) /\ ~Missing(r, values)
<1> DEFINE role(i)  == RolesOf[u][i]
           granting == {i \in DOMAIN RolesOf[u] : role(i) \in among /\ Grants(role(i), o)}
           free     == {i \in granting : ~Restricts(role(i), o)}
           failing  == {i \in granting : Restricts(role(i), o) /\ Missing(role(i), values)}
           First(s) == \E i \in s : \A k \in free \cup failing : i <= k
           joins    == {i \in granting : role(i) \in Joining}
           access   == ReadAccess(u, among, o, values)
           by       == {Expanded(role(i), values) : i \in granting}
<1>1. granting \subseteq Nat
  <2>1. RolesOf[u] \in Seq(Roles)
    BY ConsoleAccessAssumption, NoUserIsNone DEF ConsoleAccessAssumption
  <2> QED BY <2>1
<1>2. /\ \A i \in granting : role(i) \in Granting(u, among, o)
      /\ \A r \in Granting(u, among, o) : \E i \in granting : r = role(i)
  BY NoUserIsNone DEF Granting, RolesIn, Range
<1>3. by = {Expanded(r, values) : r \in Granting(u, among, o)}
  BY <1>2, Zenon
<1>4. access = CASE First(failing) -> Refused
                 [] First(free)    -> Unrestricted
                 [] OTHER -> IF Cardinality(joins) > 1 THEN Refused
                             ELSE [kind |-> "restricted", by |-> by]
  BY DEF ReadAccess
<1> HIDE DEF by
<1>5. ASSUME free \cup failing # {} PROVE First(failing) \/ First(free)
  <2>1. PICK i \in free \cup failing : \A k \in free \cup failing : i <= k
    <3> DEFINE settling == free \cup failing
    <3>1. settling \in SUBSET Nat /\ settling # {}
      BY <1>1, <1>5
    <3> HIDE DEF settling
    <3>2. \E i \in settling : \A k \in settling : i <= k
      BY <3>1, Smallest
    <3> QED BY <3>2 DEF settling
  <2> QED BY <2>1
<1>6. joins = {} => ~(Cardinality(joins) > 1)
  BY FS_EmptySet
<1>7. ~(First(failing) /\ First(free))
  <2> SUFFICES ASSUME NEW i \in failing, \A k \in free \cup failing : i <= k,
                      NEW j \in free, \A k \in free \cup failing : j <= k
               PROVE  FALSE
    OBVIOUS
  <2>1. i = j
    BY <1>1
  <2> QED BY <2>1
<1>8. CASE First(failing)
  <2>1. access = Refused
    BY <1>4, <1>7, <1>8
  <2>2. PICK i \in failing : TRUE
    BY <1>8
  <2> QED BY <1>2, <2>1, <2>2
<1>9. CASE First(free)
  <2>1. access = Unrestricted
    BY <1>4, <1>7, <1>9
  <2>2. PICK i \in free : TRUE
    BY <1>9
  <2> QED BY <1>2, <2>1, <2>2
<1>10. CASE ~First(failing) /\ ~First(free)
  <2>1. \A r \in Granting(u, among, o) : Restricts(r, o) /\ ~Missing(r, values)
    BY <1>2, <1>5, <1>10
  <2>2. CASE Cardinality(joins) > 1
    <3>1. access = Refused
      BY <1>4, <1>10, <2>2
    <3>2. PICK i \in joins : TRUE
      BY <1>6, <2>2
    <3> QED BY <1>2, <2>1, <3>1, <3>2
  <2>3. CASE ~(Cardinality(joins) > 1)
    <3>1. access = [kind |-> "restricted", by |-> by]
      BY <1>4, <1>10, <2>3
    <3> QED BY <1>3, <2>1, <3>1
  <2> QED BY <2>2, <2>3
<1> QED BY <1>8, <1>9, <1>10

-----------------------------------------------------------------------------
(* The derived restrictions, as inductive as AccessApplied needs them: they *)
(* are about derivedFor, who is not always the current user.                *)

(* The condition stands for every role that grants reading, and each of     *)
(* them restricts it and has the parameters it reads.                       *)
Covers(o, condition, roles, values) ==
  /\ \A r \in roles : Restricts(r, o) /\ ~Missing(r, values)
  /\ condition = {Expanded(r, values) : r \in roles}

InvDerived ==
  /\ RolesIn(derivedFor) \subseteq rights \cup unreadable
  /\ current = NoUser => derivedFor = NoUser
  /\ \A t \in DOMAIN stored \ Typed(stored) :
       /\ derivedFor # NoUser
       /\ t \in {Whole(o) : o \in Objects}
       /\ Covers(t.object, stored[t].condition,
                 Granting(derivedFor, rights, t.object), parameters)

(* What derive leaves is as the invariant says, whoever it was about.       *)
LEMMA DeriveCovers ==
  ASSUME NEW u \in Users, NEW s, NEW values,
         NEW t \in DOMAIN Derive(s, u, values) \ Typed(Derive(s, u, values))
  PROVE  /\ t \in {Whole(o) : o \in Objects}
         /\ Covers(t.object, Derive(s, u, values)[t].condition,
                   Granting(u, rights, t.object), values)
<1> DEFINE derived == RoleRestrictions(u, values)
           ours == [d \in {Whole(o) : o \in DOMAIN derived} |->
                      [origin |-> "derived", condition |-> derived[d.object]]]
<1>1. Derive(s, u, values) = Over(ForgetDerived(s), ours)
  BY DEF Derive
<1>2. t \notin DOMAIN ForgetDerived(s)
  <2> SUFFICES ASSUME t \in DOMAIN ForgetDerived(s) PROVE FALSE
    OBVIOUS
  <2> HIDE DEF ours
  <2>1. Derive(s, u, values)[t] = s[t] /\ s[t].origin = "typed"
    BY <1>1 DEF Over, ForgetDerived, Restrict, Typed
  <2> QED BY <2>1 DEF Typed
<1>3. t \in DOMAIN ours /\ Derive(s, u, values)[t] = ours[t]
  <2> HIDE DEF ours
  <2> QED BY <1>1, <1>2 DEF Over
<1>4. PICK o \in DOMAIN derived : t = Whole(o)
  BY <1>3
<1>5. t.object = o /\ ours[t].condition = derived[o]
  BY <1>3, <1>4 DEF Whole
<1> DEFINE roles == RolesIn(u) \cap rights
           among == {r \in rights : Lists(r, o)}
           access == ReadAccess(u, among, o, values)
<1>6. /\ o \in Objects /\ derived[o] = access.by /\ access.kind = "restricted"
      /\ \A r \in roles : ~(r \in ByDefault /\ ~Lists(r, o))
  BY DEF RoleRestrictions
<1>7. Granting(u, rights, o) = Granting(u, among, o)
  <2>1. \A r \in roles : Grants(r, o) => Lists(r, o)
    BY <1>6 DEF Grants
  <2> QED BY <2>1 DEF Granting
<1>8. Covers(o, access.by, Granting(u, among, o), values)
  <2> HIDE DEF among
  <2> QED BY <1>6, AccessAnswers DEF Covers, Refused, Unrestricted
<1> QED BY <1>3, <1>4, <1>5, <1>6, <1>7, <1>8

(* set_if_absent changes no expansion that was complete.                    *)
LEMMA SetIfAbsentExpands ==
  ASSUME NEW values, NEW name, NEW v, NEW r, ~Missing(r, values)
  PROVE  LET more == SetIfAbsent(values, name, v) IN
         ~Missing(r, more) /\ Expanded(r, more) = Expanded(r, values)
<1> DEFINE more == SetIfAbsent(values, name, v)
<1>1. Reads[r] \subseteq DOMAIN values /\ Reads[r] \subseteq DOMAIN more
  BY DEF Missing, SetIfAbsent, Over
<1>2. \A n \in Reads[r] : more[n] = values[n]
  BY <1>1, SetIfAbsentKeeps
<1> HIDE DEF more
<1>3. Restrict(more, Reads[r] \cap DOMAIN more) = Restrict(values, Reads[r] \cap DOMAIN values)
  <2>1. Reads[r] \cap DOMAIN more = Reads[r] /\ Reads[r] \cap DOMAIN values = Reads[r]
    BY <1>1
  <2> QED BY <1>2, <2>1 DEF Restrict
<1>4. ~Missing(r, more)
  BY <1>1 DEF Missing
<1> QED BY <1>3, <1>4 DEF Expanded, more

LEMMA CoversMore ==
  ASSUME NEW values, NEW name, NEW v, NEW o, NEW condition, NEW roles,
         Covers(o, condition, roles, values)
  PROVE  Covers(o, condition, roles, SetIfAbsent(values, name, v))
<1> DEFINE more == SetIfAbsent(values, name, v)
<1>1. \A r \in roles : ~Missing(r, more) /\ Expanded(r, more) = Expanded(r, values)
  BY SetIfAbsentExpands DEF Covers
<1> HIDE DEF more
<1>2. {Expanded(r, more) : r \in roles} = {Expanded(r, values) : r \in roles}
  BY <1>1, Zenon
<1> QED BY <1>1, <1>2 DEF Covers, more

(* A derivation for the current user establishes the invariant anew.        *)
LEMMA DerivedAnew ==
  ASSUME TypeOK, RightsKnown, current # NoUser, rights' = rights, unreadable' = unreadable,
         current' = current, derivedFor' = current,
         stored' = Derive(stored, current, parameters')
  PROVE  InvDerived'
<1> DEFINE values == parameters'
           after == stored'
<1>1. current \in Users
  BY DEF TypeOK
<1>2. RolesIn(derivedFor') \subseteq rights' \cup unreadable'
  BY DEF RightsKnown
<1>3. after = Derive(stored, current, values)
  OBVIOUS
<1> HIDE DEF values, after
<1>4. ASSUME NEW t \in DOMAIN after \ Typed(after)
      PROVE  /\ t \in {Whole(o) : o \in Objects}
             /\ Covers(t.object, after[t].condition, Granting(current, rights, t.object), values)
  BY <1>1, <1>3, <1>4, DeriveCovers
<1>5. Typed(stored)' = Typed(after)
  BY DEF Typed, after
<1>6. \A o : Granting(derivedFor, rights, o)' = Granting(current, rights, o)
  BY DEF Granting, RolesIn
<1>7. \A t \in (DOMAIN stored \ Typed(stored))' :
        Covers(t.object, stored'[t].condition, Granting(derivedFor, rights, t.object)', parameters')
  BY <1>4, <1>5, <1>6 DEF after, values
<1> QED BY <1>2, <1>4, <1>5, <1>7 DEF InvDerived, after, Covers

(* Dropping the derived restrictions leaves nothing to say.                 *)
LEMMA DerivedForgotten ==
  ASSUME current' = NoUser, derivedFor' = NoUser, stored' = ForgetDerived(stored)
  PROVE  InvDerived'
<1>1. \A t \in DOMAIN ForgetDerived(stored) : ForgetDerived(stored)[t].origin = "typed"
  BY DEF ForgetDerived, Restrict, Typed
<1>2. DOMAIN stored' \ Typed(stored') = {}
  BY <1>1 DEF Typed
<1> QED BY <1>2 DEF InvDerived, RolesIn, Typed

(* Rights read later are not those of the roles the restrictions are for:   *)
(* those were read, or known to be nowhere, when they were derived.         *)
LEMMA DerivedKept ==
  ASSUME InvDerived, UNCHANGED <<derivedFor, stored, parameters>>,
         current' = NoUser => current = NoUser,
         NEW more, more \cap (rights \cup unreadable) = {},
         rights' = rights \cup more, rights \cup unreadable \subseteq rights' \cup unreadable'
  PROVE  InvDerived'
<1>1. RolesIn(derivedFor) \cap rights' = RolesIn(derivedFor) \cap rights
  BY DEF InvDerived
<1>2. \A o : Granting(derivedFor, rights, o)' = Granting(derivedFor, rights, o)
  BY <1>1 DEF Granting, RolesIn
<1>3. Typed(stored)' = Typed(stored) /\ RolesIn(derivedFor)' = RolesIn(derivedFor)
  BY DEF Typed, RolesIn
<1>4. /\ RolesIn(derivedFor)' \subseteq (rights \cup unreadable)'
      /\ current' = NoUser => derivedFor' = NoUser
  BY <1>3 DEF InvDerived
<1>5. ASSUME NEW t \in (DOMAIN stored \ Typed(stored))'
      PROVE  /\ derivedFor' # NoUser
             /\ t \in {Whole(o) : o \in Objects}
             /\ Covers(t.object, stored[t].condition,
                       Granting(derivedFor, rights, t.object), parameters)'
  <2> DEFINE roles == Granting(derivedFor, rights, t.object)
  <2>1. roles' = roles
    BY <1>2
  <2>2. t \in DOMAIN stored \ Typed(stored)
    BY <1>3, <1>5
  <2>3. /\ derivedFor # NoUser /\ t \in {Whole(o) : o \in Objects}
        /\ Covers(t.object, stored[t].condition, roles, parameters)
    BY <2>2 DEF InvDerived
  <2> HIDE DEF roles
  <2>4. Covers(t.object, stored[t].condition, roles, parameters)'
    BY <2>1, <2>3 DEF Covers
  <2> QED BY <2>3, <2>4 DEF roles
<1> QED BY <1>4, <1>5 DEF InvDerived

(* Every command, every await of it and every failure keeps it.             *)
THEOREM DerivedInductive == IInv /\ InvDerived /\ [Next]_vars => InvDerived'
<1> SUFFICES ASSUME IInv, InvDerived, [Next]_vars PROVE InvDerived'
  OBVIOUS
<1>0. TypeOK /\ RightsKnown /\ InvCommand
  BY DEF IInv
<1>1. CASE UNCHANGED <<rights, unreadable, derivedFor, stored, parameters>>
           /\ (current' = NoUser => current = NoUser)
  <2>1. rights' = rights \cup {} /\ {} \cap (rights \cup unreadable) = {}
    BY <1>1
  <2> QED BY <1>1, <2>1, DerivedKept
<1>2. CASE As \/ Show \/ EnsureUsers \/ ReadExtensionIndex \/ Fail \/ UNCHANGED vars
  BY <1>1, <1>2 DEF As, Show, Start, EnsureUsers, ReadExtensionIndex, Fail, vars, store
<1>3. CASE Accept
  BY <1>0, <1>1, <1>3, NoUserIsNone DEF Accept, At, InvCommand, store
<1>4. CASE ReadConfigRights
  <2> DEFINE found == {r \in Lacking : Place[r] = "config"}
  <2>1. found \cap (rights \cup unreadable) = {} /\ rights' = rights \cup found
    BY <1>4 DEF ReadConfigRights, Lacking
  <2> HIDE DEF found
  <2> QED BY <1>4, <2>1, DerivedKept DEF ReadConfigRights
<1>5. CASE ReadExtensionRights
  <2> DEFINE found == {r \in Lacking : Place[r] = "extension"}
  <2>1. /\ found \cap (rights \cup unreadable) = {} /\ rights' = rights \cup found
        /\ unreadable' = unreadable \cup (Lacking \ found)
    BY <1>5 DEF ReadExtensionRights, Lacking
  <2> HIDE DEF found
  <2> QED BY <1>5, <2>1, DerivedKept DEF ReadExtensionRights
<1>6. CASE ReadTemplates
  <2>1. CASE parameters' = parameters
    BY <1>1, <1>6, <2>1 DEF ReadTemplates, store
  <2>2. CASE parameters' = SetIfAbsent(parameters, "Templates", "read")
    <3>1. UNCHANGED <<rights, unreadable, current, derivedFor, stored>>
      BY <1>6 DEF ReadTemplates, store
    <3>2. /\ Typed(stored)' = Typed(stored)
          /\ \A o : Granting(derivedFor, rights, o)' = Granting(derivedFor, rights, o)
      BY <3>1 DEF Typed, Granting, RolesIn
    <3>3. \A t \in DOMAIN stored \ Typed(stored) :
            Covers(t.object, stored[t].condition, Granting(derivedFor, rights, t.object), parameters')
      BY <2>2, CoversMore DEF InvDerived
    <3>4. \A t \in (DOMAIN stored \ Typed(stored))' :
            Covers(t.object, stored[t].condition, Granting(derivedFor, rights, t.object), parameters)'
      BY <3>1, <3>2, <3>3 DEF Covers
    <3> QED BY <3>1, <3>2, <3>4 DEF InvDerived, RolesIn
  <2> QED BY <1>6, <2>1, <2>2 DEF ReadTemplates
<1>7. CASE ReadElement
  <2>1. /\ rights' = rights /\ unreadable' = unreadable /\ current' = current
        /\ derivedFor' = current /\ stored' = Derive(stored, current, parameters')
    BY <1>7 DEF ReadElement, store
  <2>2. current # NoUser
    BY <1>0, <1>7, NoUserIsNone DEF ReadElement, At, InvCommand
  <2> QED BY <1>0, <2>1, <2>2, DerivedAnew
<1>8. CASE DeriveAgain /\ UNCHANGED <<rights, unreadable, current>>
  <2>1. CASE current # NoUser
    BY <1>0, <1>8, <2>1, DerivedAnew DEF DeriveAgain
  <2>2. CASE current = NoUser
    <3>1. stored' = stored /\ derivedFor' = derivedFor /\ DOMAIN stored \ Typed(stored) = {}
      BY <1>8, <2>2 DEF DeriveAgain, InvDerived
    <3> QED BY <1>8, <2>2, <3>1 DEF InvDerived, Typed, RolesIn
  <2> QED BY <2>1, <2>2
<1>9. ASSUME NEW n \in Entered, SetParameter(n) PROVE InvDerived'
  BY <1>8, <1>9 DEF SetParameter, store
<1>10. CASE ClearParameters
  BY <1>8, <1>10 DEF ClearParameters, store
<1>11. ASSUME NEW t \in Restricted, SetRestriction(t) PROVE InvDerived'
  <2> DEFINE own == Only(t, [origin |-> "typed", condition |-> OperatorsOwn])
  <2>1. stored' = Over(own, stored) /\ DOMAIN own = {t} /\ own[t].origin = "typed"
    BY <1>11 DEF SetRestriction, Only
  <2> HIDE DEF own
  <2>2. \A d \in (DOMAIN stored \ Typed(stored))' :
          d \in DOMAIN stored \ Typed(stored) /\ stored'[d] = stored[d]
    BY <2>1 DEF Over, Typed
  <2>3. UNCHANGED <<rights, unreadable, current, derivedFor, parameters>>
    BY <1>11 DEF SetRestriction, store
  <2>4. \A o : Granting(derivedFor, rights, o)' = Granting(derivedFor, rights, o)
    BY <2>3 DEF Granting, RolesIn
  <2> QED BY <2>2, <2>3, <2>4 DEF InvDerived, Covers, RolesIn
<1>12. CASE ClearRestrictions
  <2>1. DOMAIN stored' = {}
    <3>1. DOMAIN <<>> = {}
      OBVIOUS
    <3> QED BY <1>12, <3>1 DEF ClearRestrictions
  <2> QED BY <1>12, <2>1 DEF ClearRestrictions, InvDerived, store, RolesIn
<1>13. CASE AsClear
  BY <1>13, DerivedForgotten DEF AsClear
<1>14. CASE Refresh
  BY <1>14, DerivedForgotten DEF Refresh
<1> QED
  BY <1>2, <1>3, <1>4, <1>5, <1>6, <1>7, <1>9, <1>10, <1>11, <1>12, <1>13, <1>14 DEF Next

-----------------------------------------------------------------------------
(* The roles of the present user that are read give what Verdict says.      *)
LEMMA VerdictOfAccess ==
  ASSUME current \in Users, NEW o
  PROVE  LET access == ReadAccess(current, rights, o, parameters) IN
         IF access = Refused
         THEN \E r \in RolesIn(current) \cap rights :
                Restricts(r, o) /\ (Missing(r, parameters) \/ r \in Joining)
         ELSE access = Verdict(o)
<1> DEFINE access == ReadAccess(current, rights, o, parameters)
           granting == Granting(current, rights, o)
           by == {Expanded(r, parameters) : r \in granting}
<1>1. /\ granting \subseteq RolesIn(current) \cap rights
      /\ Verdict(o) = IF current = NoUser \/ \E r \in granting : ~Restricts(r, o)
                      THEN Unrestricted ELSE [kind |-> "restricted", by |-> by]
  BY DEF Verdict, Granting
<1>2. \/ /\ access = Refused
         /\ \E r \in granting : Restricts(r, o) /\ (Missing(r, parameters) \/ r \in Joining)
      \/ access = Unrestricted /\ \E r \in granting : ~Restricts(r, o)
      \/ /\ access = [kind |-> "restricted", by |-> by]
         /\ \A r \in granting : Restricts(r, o) /\ ~Missing(r, parameters)
  BY AccessAnswers
<1> HIDE DEF granting, by
<1> QED BY <1>1, <1>2, NoUserIsNone DEF Refused, Unrestricted

(* A derived restriction is what the roles it is for give together.         *)
LEMMA VerdictOfStored ==
  ASSUME InvDerived, derivedFor = current, NEW t \in DOMAIN stored \ Typed(stored)
  PROVE  [kind |-> "restricted", by |-> stored[t].condition] = Verdict(t.object)
<1> DEFINE granting == Granting(current, rights, t.object)
<1>1. current # NoUser /\ Covers(t.object, stored[t].condition, granting, parameters)
  BY DEF InvDerived
<1>2. Verdict(t.object) =
        IF current = NoUser \/ \E r \in granting : ~Restricts(r, t.object)
        THEN Unrestricted
        ELSE [kind |-> "restricted", by |-> {Expanded(r, parameters) : r \in granting}]
  BY DEF Verdict, Granting
<1> HIDE DEF granting
<1> QED BY <1>1, <1>2 DEF Covers

LEMMA AccessByInvariant == ASSUME IInv, InvDerived PROVE AccessApplied
<1> SUFFICES ASSUME derivedFor = current, NEW t \in Targets \ Typed(stored)
             PROVE  IF Applied(t) = Refused
                    THEN \E r \in RolesIn(current) \cap rights :
                           /\ Restricts(r, t.object)
                           /\ Missing(r, parameters) \/ r \in Joining
                    ELSE Applied(t) = Verdict(t.object)
  BY DEF AccessApplied
<1>1. CASE t \in DOMAIN stored
  <2>1. Applied(t) = [kind |-> "restricted", by |-> stored[t].condition]
    BY <1>1 DEF Applied
  <2>2. Applied(t) = Verdict(t.object)
    BY <1>1, <2>1, VerdictOfStored
  <2> QED BY <2>1, <2>2 DEF Refused
<1>2. CASE t \notin DOMAIN stored /\ current = NoUser
  BY <1>2 DEF Applied, Verdict, Refused, Unrestricted
<1>3. CASE t \notin DOMAIN stored /\ current # NoUser
  <2>1. current \in Users
    BY <1>3 DEF IInv, TypeOK
  <2>2. Applied(t) = ReadAccess(current, rights, t.object, parameters)
    BY <1>3 DEF Applied
  <2> QED BY <2>1, <2>2, VerdictOfAccess
<1> QED BY <1>1, <1>2, <1>3

LEMMA DecisionsByInvariant == ASSUME IInv, InvDerived PROVE DecisionsAgree
<1> SUFFICES ASSUME derivedFor = current, NEW t \in Targets \ Typed(stored),
                    Decision(t) # Refused
             PROVE  unreadable \cap RolesIn(current) = {} /\ Decision(t) = Applied(t)
  BY DEF DecisionsAgree
<1>1. /\ current # NoUser /\ RolesIn(current) \subseteq rights
      /\ Decision(t) = ReadAccess(current, rights, t.object, parameters)
  BY DEF Decision
<1>2. current \in Users /\ rights \cap unreadable = {}
  BY <1>1 DEF IInv, TypeOK
<1>3. Decision(t) = Verdict(t.object)
  BY <1>1, <1>2, VerdictOfAccess
<1>4. CASE t \in DOMAIN stored
  <2>1. Applied(t) = Verdict(t.object)
    BY <1>4, VerdictOfStored DEF Applied
  <2> QED BY <1>1, <1>2, <1>3, <2>1
<1>5. CASE t \notin DOMAIN stored
  BY <1>1, <1>2, <1>5 DEF Applied
<1> QED BY <1>4, <1>5

(* No derived restriction is there before a user is.                        *)
LEMMA DerivedInitial == Init => InvDerived
<1>1. DOMAIN <<>> = {}
  OBVIOUS
<1> QED BY <1>1 DEF Init, InvDerived, RolesIn

(* AccessAlwaysApplied: for every base and every sequence of \as, \session, *)
(* \restrict, \refresh and failed reads, a target the operator did not      *)
(* restrict is filtered by what the roles of the current user give together *)
(* under the parameters of now (RestrictionStore, read_access).             *)
THEOREM AccessAlwaysApplied == Spec => []AccessApplied
BY AccessByInvariant, Initial, Inductive, DerivedInitial, DerivedInductive, PTL DEF Spec

(* BothPathsAgree: what user_decisions answers is what the console applies, *)
(* and it answers only when every role's rights are read.                   *)
THEOREM BothPathsAgree == Spec => []DecisionsAgree
BY DecisionsByInvariant, Initial, Inductive, DerivedInitial, DerivedInductive, PTL DEF Spec

-----------------------------------------------------------------------------
(* The rows of a statement that asks for all of them.                       *)

(* The balances of some of the rows, of every key all or none: those of the  *)
(* rows with a key among them.                                               *)
LEMMA FoldOfPart ==
  ASSUME NEW B, NEW A \in SUBSET B,
         \A i, k \in B : O!Key(i) = O!Key(k) => (i \in A <=> k \in A)
  PROVE  O!Fold(A) = {b \in O!Fold(B) : \E i \in A : b.key = O!Key(i)}
<1> DEFINE amount == [i \in DOMAIN register |-> register[i].amount]
           of(S, k) == {i \in S : O!Key(i) = k}
           sum(S, k) == O!SumFunctionOnSet(amount, of(S, k))
           keys(S) == {O!Key(i) : i \in S}
           fold(S) == {[key |-> k, amount |-> sum(S, k)] : k \in {x \in keys(S) : sum(S, x) # 0}}
<1>1. \A S : O!Fold(S) = fold(S)
  BY DEF O!Fold
<1>2. \A k \in keys(A) : of(A, k) = of(B, k)
  OBVIOUS
<1>3. \A k \in keys(A) : sum(A, k) = sum(B, k)
  BY <1>2
<1>4. keys(A) \subseteq keys(B)
  OBVIOUS
<1>5. \A b : (\E i \in A : b.key = O!Key(i)) <=> b.key \in keys(A)
  OBVIOUS
<1> HIDE DEF amount, of, sum, keys
<1>6. fold(A) = {b \in fold(B) : b.key \in keys(A)}
  BY <1>3, <1>4
<1> HIDE DEF fold
<1> QED BY <1>1, <1>5, <1>6

(* An answer as it is given.                                                *)
Answered == [verdict : {"allowed", "denied", "equal", "joined"}, own : BOOLEAN,
             field : O!Dimensions, value : STRING]

(* What an answer keeps of a balance it keeps of every row of it; its       *)
(* opposite keeps the others.                                               *)
LEMMA KeepsByKey ==
  ASSUME NEW a \in Answered, NEW i
  PROVE  O!Keeps(a, register[i]) <=> O!Keeps(a, O!Key(i))
BY DEF Answered, O!Keeps, O!Key

LEMMA OppositeKeeps ==
  ASSUME NEW a \in Answered, a.verdict # "joined", NEW row
  PROVE  O!Keeps(O!Invert(a), row) <=> ~O!Keeps(a, row)
<1> DEFINE b == O!Invert(a)
           v == CASE a.verdict = "allowed" -> "denied"
                  [] a.verdict = "denied" -> "allowed"
                  [] a.verdict = "equal" -> "opposite"
<1>1. b = [a EXCEPT !.verdict = v]
  BY DEF O!Invert
<1>2. DOMAIN a = {"verdict", "own", "field", "value"}
  BY DEF Answered
<1> HIDE DEF v, b
<1>3. b.verdict = v /\ b.field = a.field /\ b.value = a.value
  BY <1>1, <1>2
<1>4. CASE a.verdict = "allowed"
  BY <1>3, <1>4 DEF O!Keeps, v, b
<1>5. CASE a.verdict = "denied"
  BY <1>3, <1>5 DEF O!Keeps, v, b
<1>6. CASE a.verdict = "equal"
  <2>1. b.verdict = "opposite"
    BY <1>3, <1>6 DEF v
  <2>2. O!Keeps(b, row) <=> ~(row[a.field] # O!Null /\ row[a.field] = a.value)
    BY <1>3, <2>1 DEF O!Keeps
  <2>3. O!Keeps(a, row) <=> (row[a.field] # O!Null /\ row[a.field] = a.value)
    BY <1>6 DEF O!Keeps
  <2> QED BY <2>2, <2>3 DEF b
<1>7. a.verdict \in {"allowed", "denied", "equal"}
  BY DEF Answered
<1> QED BY <1>4, <1>5, <1>6, <1>7

LEMMA FreeKeeps == ASSUME NEW row PROVE O!Keeps(O!Free, row)
BY DEF O!Keeps, O!Free

(* A balance has the key of a row it is of.                                 *)
LEMMA BalanceKeys == ASSUME NEW S PROVE \A b \in O!Fold(S) : \E i \in S : b.key = O!Key(i)
<1> DEFINE amount == [i \in DOMAIN register |-> register[i].amount]
           sum(k) == O!SumFunctionOnSet(amount, {i \in S : O!Key(i) = k})
           keys == {O!Key(i) : i \in S}
<1>1. O!Fold(S) = {[key |-> k, amount |-> sum(k)] : k \in {x \in keys : sum(x) # 0}}
  BY DEF O!Fold
<1>2. \A k \in keys : \E i \in S : k = O!Key(i)
  OBVIOUS
<1> HIDE DEF sum, keys
<1> QED BY <1>1, <1>2

(* The balances read under an answer, and under its opposite.               *)
LEMMA FoldUnderAnswer ==
  ASSUME NEW s, NEW a \in Answered
  PROVE  /\ O!Fold(O!Selected(s, a)) =
              {b \in O!Fold(O!Selected(s, O!Free)) : O!Keeps(a, b.key)}
         /\ a.verdict # "joined" =>
              O!Probe(s, a) = {b \in O!Fold(O!Selected(s, O!Free)) : ~O!Keeps(a, b.key)}
<1> DEFINE B == O!Selected(s, O!Free)
           A == O!Selected(s, a)
           N == O!Selected(s, O!Invert(a))
<1>1. A = {i \in B : O!Keeps(a, O!Key(i))}
  BY KeepsByKey, FreeKeeps DEF O!Selected
<1>2. a.verdict # "joined" => N = {i \in B : ~O!Keeps(a, O!Key(i))}
  BY KeepsByKey, OppositeKeeps, FreeKeeps DEF O!Selected
<1>3. \A b \in O!Fold(B) : \E i \in B : b.key = O!Key(i)
  BY BalanceKeys
<1>4. O!Probe(s, a) = O!Fold(N)
  BY DEF O!Probe
<1> HIDE DEF A, B, N
<1>5. O!Fold(A) = {b \in O!Fold(B) : O!Keeps(a, b.key)}
  <2>1. O!Fold(A) = {b \in O!Fold(B) : \E i \in A : b.key = O!Key(i)}
    BY <1>1, FoldOfPart
  <2>2. \A b \in O!Fold(B) : (\E i \in A : b.key = O!Key(i)) <=> O!Keeps(a, b.key)
    BY <1>1, <1>3
  <2> QED BY <2>1, <2>2
<1>6. a.verdict # "joined" => O!Fold(N) = {b \in O!Fold(B) : ~O!Keeps(a, b.key)}
  <2> SUFFICES ASSUME a.verdict # "joined" PROVE O!Fold(N) = {b \in O!Fold(B) : ~O!Keeps(a, b.key)}
    OBVIOUS
  <2>1. O!Fold(N) = {b \in O!Fold(B) : \E i \in N : b.key = O!Key(i)}
    BY <1>2, FoldOfPart
  <2>2. \A b \in O!Fold(B) : (\E i \in N : b.key = O!Key(i)) <=> ~O!Keeps(a, b.key)
    BY <1>2, <1>3
  <2> QED BY <2>1, <2>2
<1> QED BY <1>4, <1>5, <1>6 DEF A, B

(* What is compiled answers as AllRowsOrNone says.                          *)
LEMMA CompiledAnswer ==
  ASSUME NEW s, NEW g \in RowAnswers
  PROVE  LET c == [O!Compile(s, g) EXCEPT !.checked = TRUE]
             hidden == O!Hidden(s, g)
         IN c.ok /\ ~s.allowed =>
              /\ c.marker <=> hidden # {}
              /\ c.rows = IF hidden # {} THEN {} ELSE O!Data(s, O!Free)
<1> DEFINE about == {i \in DOMAIN g : g[i].own}
           restricted == \E i \in DOMAIN g : g[i].verdict # "allowed"
           answer == IF about = {} THEN [verdict |-> "allowed", own |-> TRUE] ELSE g[O!Min(about)]
           c == [O!Compile(s, g) EXCEPT !.checked = TRUE]
           hidden == O!Hidden(s, g)
           F == O!Fold(O!Selected(s, O!Free))
           all == [O!Plain EXCEPT !.rows = O!Data(s, answer)]
           measured == O!Measured(s) /\ (\A i \in DOMAIN g : O!Invertible(g[i])) /\ about # {}
<1>1. /\ \A i \in DOMAIN g : g[i] \in Answered /\ i \in Nat
      /\ \A i, k \in DOMAIN g : g[i].own /\ g[k].own => i = k
  <2>1. g \in Seq(Answered)
    BY GivenAssumption, Zenon DEF O!RowsAreTyped, Answered
  <2>2. \A i, k \in DOMAIN g : g[i].own /\ g[k].own => i = k
    BY GivenAssumption, Zenon DEF O!RowsAreTyped
  <2>3. \A i \in DOMAIN g : g[i] \in Answered /\ i \in Nat
    BY <2>1
  <2> QED BY <2>2, <2>3
<1>2. about # {} => O!Min(about) \in about
  <2>1. \A i, k \in about : i = k /\ i \in Nat
    BY <1>1
  <2>2. about # {} => \E x \in about : \A y \in about : x <= y
    BY <2>1
  <2> HIDE DEF about
  <2> QED BY <2>2 DEF O!Min
<1>3. O!Compile(s, g) =
        CASE s.allowed -> all
          [] ~s.allowed /\ s.mode # "Restricted" -> O!Unsupported
          [] ~s.allowed /\ s.mode = "Restricted" /\ ~restricted -> all
          [] ~s.allowed /\ s.mode = "Restricted" /\ restricted ->
               IF measured THEN O!Checked(s, answer) ELSE O!Unsupported
  BY DEF O!Compile
<1>4. hidden = {b \in F : \E i \in DOMAIN g : g[i].own /\ ~O!Keeps(g[i], b.key)}
  BY DEF O!Hidden
<1> SUFFICES ASSUME c.ok, ~s.allowed
             PROVE  /\ c.marker <=> hidden # {}
                    /\ c.rows = IF hidden # {} THEN {} ELSE O!Data(s, O!Free)
  OBVIOUS
<1>5. O!Compile(s, g) # O!Unsupported
  <2>1. ~[O!Unsupported EXCEPT !.checked = TRUE].ok
    BY DEF O!Unsupported, O!Plain
  <2> QED BY <2>1
<1>6. CASE ~restricted
  <2>1. \A i \in DOMAIN g : g[i].verdict = "allowed"
    BY <1>6
  <2>2. hidden = {}
    BY <1>4, <2>1 DEF O!Keeps
  <2>3. answer.verdict = "allowed"
    BY <1>2, <2>1
  <2>4. O!Compile(s, g) = all
    <3> HIDE DEF all, restricted, measured, answer
    <3> QED BY <1>3, <1>5, <1>6
  <2>5. O!Data(s, answer) = O!Data(s, O!Free)
    <3>1. \A row : O!Keeps(answer, row)
      BY <2>3 DEF O!Keeps
    <3> HIDE DEF answer
    <3>2. O!Selected(s, answer) = O!Selected(s, O!Free)
      BY <3>1, FreeKeeps DEF O!Selected
    <3> QED BY <3>2 DEF O!Data
  <2>6. c.marker = FALSE /\ c.rows = O!Data(s, answer)
    <3> HIDE DEF answer
    <3> QED BY <2>4 DEF O!Plain
  <2> HIDE DEF c, hidden, answer
  <2> QED BY <2>2, <2>5, <2>6
<1>7. CASE restricted
  <2>1. measured /\ O!Compile(s, g) = O!Checked(s, answer)
    <3> HIDE DEF all, measured, answer
    <3>1. s.mode = "Restricted"
      BY <1>3, <1>5
    <3> QED BY <1>3, <1>5, <1>7, <3>1
  <2>2. PICK i \in DOMAIN g : answer = g[i] /\ g[i].own
    BY <1>2, <2>1
  <2>3. \A k \in DOMAIN g : k = i
    BY <1>1, <2>1, <2>2 DEF O!Invertible
  <2>4. answer \in Answered /\ answer.verdict # "joined"
    BY <1>1, <2>1, <2>2 DEF O!Invertible
  <2>5. hidden = {b \in F : ~O!Keeps(answer, b.key)}
    BY <1>4, <2>2, <2>3
  <2> HIDE DEF answer
  <2>6. O!Probe(s, answer) = hidden
    BY <2>4, <2>5, FoldUnderAnswer
  <2>7. hidden = {} => O!Data(s, answer) = O!Data(s, O!Free)
    <3>1. hidden = {} => O!Fold(O!Selected(s, answer)) = F
      BY <2>4, <2>5, FoldUnderAnswer
    <3> QED BY <3>1 DEF O!Data
  <2>8. /\ c.marker = (O!Probe(s, answer) # {})
        /\ c.rows = IF O!Probe(s, answer) # {} THEN {} ELSE O!Data(s, answer)
    BY <2>1 DEF O!Checked
  <2> HIDE DEF c, hidden
  <2> QED BY <2>6, <2>7, <2>8
<1> QED BY <1>6, <1>7

(* Before it runs a statement has answered nothing.                         *)
InvRows ==
  /\ checked = O!Nowhere \/ checked.given \in RowAnswers
  /\ \/ row_answer = O!Plain
     \/ /\ checked # O!Nowhere
        /\ row_answer = [O!Compile(checked.statement, checked.given) EXCEPT !.checked = TRUE]

LEMMA RowsHold == InvRows => AllRowsOrNone
<1> SUFFICES ASSUME InvRows, row_answer.checked, row_answer.ok, ~checked.statement.allowed
             PROVE  LET hidden == O!Hidden(checked.statement, checked.given)
                    IN /\ row_answer.marker <=> hidden # {}
                       /\ row_answer.rows = IF hidden # {} THEN {} ELSE O!Data(checked.statement, O!Free)
  BY DEF AllRowsOrNone, O!AllRowsOrNone
<1>1. row_answer # O!Plain
  BY DEF O!Plain
<1>2. /\ checked.given \in RowAnswers
      /\ row_answer = [O!Compile(checked.statement, checked.given) EXCEPT !.checked = TRUE]
  BY <1>1 DEF InvRows
<1> QED BY <1>2, CompiledAnswer

(* The answer is of the register as it stands.                              *)
LEMMA SameRegister ==
  ASSUME UNCHANGED register, NEW s, NEW g
  PROVE  O!Compile(s, g)' = O!Compile(s, g)
<1>1. \A i : O!Key(i)' = O!Key(i)
  BY DEF O!Key
<1>2. \A S : O!Fold(S)' = O!Fold(S)
  <2> SUFFICES ASSUME NEW S PROVE O!Fold(S)' = O!Fold(S)
    OBVIOUS
  <2> DEFINE amount == [i \in DOMAIN register |-> register[i].amount]
             of(k) == {i \in S : O!Key(i) = k}
             sum(k) == O!SumFunctionOnSet(amount, of(k))
             keys == {O!Key(i) : i \in S}
             fold == {[key |-> k, amount |-> sum(k)] : k \in {x \in keys : sum(x) # 0}}
  <2>1. O!Fold(S) = fold /\ O!Fold(S)' = fold'
    BY DEF O!Fold
  <2>2. amount' = amount
    OBVIOUS
  <2>3. keys' = keys
    BY <1>1
  <2>4. \A k : of(k)' = of(k)
    BY <1>1
  <2> HIDE DEF amount, of, keys
  <2>5. \A k : sum(k)' = sum(k)
    BY <2>2, <2>4
  <2> HIDE DEF sum
  <2>6. fold' = fold
    BY <2>3, <2>5
  <2> HIDE DEF fold
  <2> QED BY <2>1, <2>6
<1>3. \A t, a : O!Selected(t, a)' = O!Selected(t, a)
  BY DEF O!Selected
<1>4. \A t, a : O!Data(t, a)' = O!Data(t, a)
  BY <1>2, <1>3 DEF O!Data
<1>5. \A t, a : O!Checked(t, a)' = O!Checked(t, a)
  BY <1>2, <1>3, <1>4 DEF O!Checked, O!Probe
<1> QED BY <1>4, <1>5 DEF O!Compile

(* A statement answers all the rows it is about, or marks that it may not   *)
(* (compile_checked, forbidden_balance_probe).                              *)
THEOREM AnsweredInFull == O!RowsSpec => []AllRowsOrNone
<1>1. O!RowsInit => InvRows
  BY DEF O!RowsInit, InvRows
<1>2. InvRows /\ [O!RowsNext]_checks => InvRows'
  <2> SUFFICES ASSUME InvRows, [O!RowsNext]_checks PROVE InvRows'
    OBVIOUS
  <2>1. CASE O!Ask
    <3>1. row_answer' = O!Plain
      BY <2>1 DEF InvRows, O!Ask
    <3>2. PICK s \in RowStatements, g \in RowAnswers : checked' = [statement |-> s, given |-> g]
      BY <2>1 DEF O!Ask
    <3> QED BY <3>1, <3>2 DEF InvRows
  <2>2. CASE O!Run
    <3>1. UNCHANGED <<checked, register>> /\ checked # O!Nowhere
      BY <2>2 DEF O!Run
    <3>2. row_answer' = [O!Compile(checked.statement, checked.given) EXCEPT !.checked = TRUE]
      BY <2>2 DEF O!Run
    <3>3. O!Compile(checked.statement, checked.given)' = O!Compile(checked.statement, checked.given)
      BY <3>1, SameRegister
    <3> QED BY <3>1, <3>2, <3>3 DEF InvRows
  <2>3. CASE UNCHANGED checks
    <3>1. UNCHANGED <<checked, register, row_answer>>
      BY <2>3 DEF checks
    <3>2. O!Compile(checked.statement, checked.given)' = O!Compile(checked.statement, checked.given)
      BY <3>1, SameRegister
    <3> QED BY <3>1, <3>2 DEF InvRows
  <2> QED BY <2>1, <2>2, <2>3 DEF O!RowsNext
<1>3. InvRows => AllRowsOrNone
  BY RowsHold
<1> QED BY <1>1, <1>2, <1>3, PTL DEF O!RowsSpec, checks

-----------------------------------------------------------------------------
(* The decisions about a batch.                                             *)

(* What a compilation has gathered, and why it may have stopped.            *)
Gathered(c) ==
  /\ DOMAIN c = {"why", "targets", "used", "fields", "reads", "lookups", "past", "from", "manager"}
  /\ c.why \in {"none", "no decision", "unknown", "refused", "exists"}

Supplied == Answers \cup {<<>>}

LEMMA SuppliedType ==
  ASSUME NEW given \in Supplied
  PROVE  /\ \A i \in DOMAIN given : /\ i \in Nat \ {0}
                                    /\ given[i].list \in {"decision", "restriction"}
                                    /\ given[i].target \in D!Target
                                    /\ given[i].text \in DOMAIN Texts
                                    /\ given[i].verdict \in {"allowed", "denied", "condition"}
<1> DEFINE R == [list : {"decision", "restriction"}, target : D!Target, text : DOMAIN Texts,
                 verdict : {"allowed", "denied", "condition"}]
<1>1. given \in Seq(R)
  <2>1. CASE given \in Answers
    BY <2>1, GivenAssumption, Zenon DEF D!AnswersAreTyped
  <2>2. CASE given = <<>>
    BY <2>2
  <2> QED BY <2>1, <2>2 DEF Supplied
<1>2. \A i \in DOMAIN given : given[i] \in R /\ i \in Nat \ {0}
  <2> HIDE DEF R
  <2> QED BY <1>1
<1> QED BY <1>2

(* Two targets are the same by their spelling.                              *)
LEMMA SameTarget ==
  ASSUME NEW a, NEW b
  PROVE  /\ D!Same(a, b) <=> D!Same(b, a)
         /\ \A c : D!Same(a, b) /\ D!Same(b, c) => D!Same(a, c)
BY DEF D!Same

(* AnswerFor finds an answer about a target if there is one.                *)
LEMMA AnswerIs ==
  ASSUME NEW given \in Supplied, NEW t
  PROVE  /\ D!AnswerFor(given, t) # 0 => /\ D!AnswerFor(given, t) \in DOMAIN given
                                         /\ D!Same(given[D!AnswerFor(given, t)].target, t)
         /\ D!AnswerFor(given, t) = 0 => \A i \in DOMAIN given : ~D!Same(given[i].target, t)
<1> DEFINE about(list) == {i \in DOMAIN given : given[i].list = list /\ D!Same(given[i].target, t)}
           first(s) == CHOOSE i \in s : \A k \in s : i <= k
<1>1. D!AnswerFor(given, t) = IF about("decision") # {} THEN first(about("decision"))
                              ELSE IF about("restriction") # {} THEN first(about("restriction")) ELSE 0
  BY DEF D!AnswerFor
<1>2. \A list : about(list) \subseteq DOMAIN given /\ about(list) \in SUBSET Nat /\ 0 \notin about(list)
  BY SuppliedType
<1>3. \A list : \A i \in about(list) : D!Same(given[i].target, t)
  OBVIOUS
<1>4. \A i \in DOMAIN given : D!Same(given[i].target, t) => i \in about("decision") \cup about("restriction")
  BY SuppliedType
<1> HIDE DEF about
<1>5. \A list : about(list) # {} => first(about(list)) \in about(list)
  BY <1>2, Smallest
<1> HIDE DEF first
<1> QED BY <1>1, <1>2, <1>3, <1>4, <1>5

-----------------------------------------------------------------------------
(* The tables a read asks about, and the ones it reports of the statement.  *)
Noted(read, armed) ==
  IF read.kind \in D!Tables /\ D!ArmedFor(read, armed).restricting THEN {read.target} ELSE {}
Reported(read, armed) ==
  IF read.kind \in D!Tables /\ ~armed.inText THEN {read.target} ELSE {}

(* A read of a table no answer is about, in the restricted mode.            *)
Unanswered(read, armed, given) ==
  /\ Noted(read, armed) # {} /\ D!AnswerFor(given, read.target) = 0
  /\ armed.mode = "Restricted" /\ ~armed.collecting

Used(read, armed, given) ==
  {i \in {D!AnswerFor(given, t) : t \in Noted(read, armed)} : i # 0}

(* What is noted of a read is the verdict of an answer, but for a text's.   *)
Backed(reads, given) ==
  \A r \in reads : r.inText \/ \E i \in DOMAIN given : /\ D!Same(given[i].target, r.target)
                                                      /\ given[i].verdict = r.verdict

(* How a compilation is armed for a read.                                   *)
IsArmed(armed) ==
  /\ DOMAIN armed = {"mode", "collecting", "restricting", "inText"}
  /\ armed.mode \in {"Statement", "Restricted"}
  /\ armed.collecting \in BOOLEAN /\ armed.restricting \in BOOLEAN /\ armed.inText \in BOOLEAN
  /\ armed.mode = "Restricted" /\ ~armed.inText => armed.restricting
  /\ armed.inText => ~armed.restricting

Kinds == {"source", "reference", "descent", "payload", "temporary"}

LEMMA ReadingType == ASSUME NEW read \in D!Reading PROVE read.kind \in Kinds
BY DEF D!Reading, Kinds

LEMMA ArmedForIs ==
  ASSUME NEW read, NEW armed, IsArmed(armed)
  PROVE  LET a == D!ArmedFor(read, armed)
         IN /\ IsArmed(a) /\ a.mode = armed.mode /\ a.collecting = armed.collecting
            /\ a.inText = armed.inText
<1> DEFINE d == [armed EXCEPT !.restricting = armed.restricting /\ armed.mode = "Restricted"]
<1>1. IsArmed(d) /\ d.mode = armed.mode /\ d.collecting = armed.collecting /\ d.inText = armed.inText
  BY DEF IsArmed
<1>2. D!Dereference(armed) = d
  BY DEF D!Dereference
<1> HIDE DEF d
<1> QED BY <1>1, <1>2 DEF D!ArmedFor

(* What noting a table adds to what was gathered.                           *)
Notes(c, n, t, armed, i, given) ==
  LET missing == armed.restricting /\ i = 0 /\ armed.mode = "Restricted" /\ ~armed.collecting
  IN /\ Gathered(n) /\ n.manager = c.manager
     /\ n.why = IF missing THEN "no decision" ELSE "none"
     /\ n.targets = IF armed.restricting THEN c.targets \cup {t} ELSE c.targets
     /\ n.used = IF armed.restricting /\ i # 0 THEN c.used \cup {i} ELSE c.used
     /\ ~missing => n.fields = IF armed.inText THEN c.fields ELSE c.fields \cup {t}
     /\ armed.inText \/ (armed.mode = "Restricted" /\ ~armed.collecting) =>
          /\ Backed(c.reads, given) => Backed(n.reads, given)
          /\ n.past = c.past

LEMMA NoteIs ==
  ASSUME NEW c, Gathered(c), c.why = "none", NEW t, NEW armed, IsArmed(armed), NEW given \in Supplied
  PROVE  Notes(c, D!Note(c, t, armed, given), t, armed, D!AnswerFor(given, t), given)
<1> DEFINE n == D!Note(c, t, armed, given)
           i == D!AnswerFor(given, t)
           missing == armed.restricting /\ i = 0 /\ armed.mode = "Restricted" /\ ~armed.collecting
           noted == [c EXCEPT !.targets = c.targets \cup {t}]
           lost == [noted EXCEPT !.why = "no decision"]
           with == [noted EXCEPT !.used = noted.used \cup {i}]
           d == D!Decide(c, t, armed, given)
           read(v) == [target |-> t, verdict |-> v, inText |-> armed.inText]
           add(x, v) == [x EXCEPT !.reads = x.reads \cup {read(v)},
                            !.past = x.past \cup IF v = "unfiltered" THEN D!PassedBy({t}, armed) ELSE {},
                            !.fields = x.fields \cup IF armed.inText THEN {} ELSE {t}]
<1>1. d = CASE ~armed.restricting -> <<c, "unfiltered">>
            [] armed.restricting /\ i # 0 -> <<with, given[i].verdict>>
            [] armed.restricting /\ i = 0 /\ armed.mode = "Restricted" /\ ~armed.collecting -> <<lost, "none">>
            [] OTHER -> <<noted, "unfiltered">>
  BY DEF D!Decide, D!Fail
<1>2. n = IF D!Done(d[1]) THEN d[1] ELSE add(d[1], d[2])
  BY DEF D!Note
<1>3. /\ Gathered(noted) /\ Gathered(with) /\ Gathered(lost)
      /\ noted.why = "none" /\ with.why = "none" /\ lost.why = "no decision"
  BY DEF Gathered
<1> HIDE DEF d, n
<1>4. CASE ~armed.restricting
  <2>1. n = add(c, "unfiltered")
    BY <1>1, <1>2, <1>4 DEF D!Done
  <2>2. armed.mode = "Restricted" => armed.inText
    BY <1>4 DEF IsArmed
  <2>3. /\ Gathered(n) /\ n.manager = c.manager /\ n.why = "none"
        /\ n.targets = c.targets /\ n.used = c.used
        /\ n.fields = c.fields \cup IF armed.inText THEN {} ELSE {t}
        /\ n.past = c.past \cup IF armed.inText THEN {} ELSE {t}
    BY <2>1 DEF Gathered, D!PassedBy
  <2>4. n.reads = c.reads \cup {read("unfiltered")}
    BY <2>1 DEF Gathered
  <2>5. armed.inText /\ Backed(c.reads, given) => Backed(n.reads, given)
    BY <2>4 DEF Backed
  <2> HIDE DEF i
  <2> QED BY <1>4, <2>2, <2>3, <2>5 DEF n, Notes
<1>5. CASE armed.restricting /\ i # 0
  <2>0. given[i].verdict # "unfiltered" /\ i \in DOMAIN given /\ D!Same(given[i].target, t) /\ ~armed.inText
    BY <1>5, AnswerIs, SuppliedType DEF IsArmed
  <2>1. n = add(with, given[i].verdict)
    BY <1>1, <1>2, <1>3, <1>5 DEF D!Done
  <2> HIDE DEF i
  <2>2. n.reads = c.reads \cup {read(given[i].verdict)} /\ n.past = c.past
    BY <2>0, <2>1 DEF Gathered
  <2>3. Backed(c.reads, given) => Backed(n.reads, given)
    BY <2>0, <2>2 DEF Backed
  <2>4. /\ Gathered(n) /\ n.manager = c.manager /\ n.why = "none"
        /\ n.targets = c.targets \cup {t} /\ n.used = c.used \cup {i}
        /\ n.fields = c.fields \cup {t}
    BY <2>0, <2>1 DEF Gathered
  <2> QED BY <1>5, <2>0, <2>2, <2>3, <2>4 DEF n, i, Notes
<1>6. CASE missing
  <2>1. n = lost
    BY <1>1, <1>2, <1>3, <1>6 DEF D!Done
  <2> QED BY <1>6, <2>1 DEF Gathered, n, Notes
<1>7. CASE armed.restricting /\ i = 0 /\ ~(armed.mode = "Restricted" /\ ~armed.collecting)
  <2>1. n = add(noted, "unfiltered")
    BY <1>1, <1>2, <1>3, <1>7 DEF D!Done
  <2> QED BY <1>7, <2>1 DEF Gathered, IsArmed, n, Notes
<1> QED BY <1>4, <1>5, <1>6, <1>7

(* What a read adds to what was gathered.                                   *)
Adds(c, n, read, armed, given) ==
  /\ Gathered(n) /\ n.manager = c.manager
  /\ n.targets = c.targets \cup Noted(read, armed)
  /\ n.used = c.used \cup Used(read, armed, given)
  /\ n.why = "no decision" <=> Unanswered(read, armed, given)
  /\ ~Unanswered(read, armed, given) => n.fields = c.fields \cup Reported(read, armed)
  /\ armed.inText \/ (armed.mode = "Restricted" /\ ~armed.collecting) =>
       /\ Backed(c.reads, given) => Backed(n.reads, given)
       /\ armed.inText \/ read.kind \in D!Tables => n.past = c.past

LEMMA MeetIs ==
  ASSUME NEW c, Gathered(c), c.why = "none", NEW read, read.kind \in Kinds, NEW armed, IsArmed(armed),
         NEW given \in Supplied
  PROVE  Adds(c, D!Meet(c, read, armed, given), read, armed, given)
<1> DEFINE n == D!Meet(c, read, armed, given)
<1>1. ~D!Done(c)
  BY DEF D!Done
<1>2. CASE read.kind \in D!Tables
  <2> DEFINE a == D!ArmedFor(read, armed)
             i == D!AnswerFor(given, read.target)
  <2>1. n = D!Note(c, read.target, a, given)
    BY <1>1, <1>2 DEF D!Meet, D!Tables
  <2>2. IsArmed(a) /\ a.mode = armed.mode /\ a.collecting = armed.collecting /\ a.inText = armed.inText
    BY ArmedForIs
  <2>4. Unanswered(read, armed, given) <=>
          a.restricting /\ i = 0 /\ armed.mode = "Restricted" /\ ~armed.collecting
    BY <1>2 DEF Unanswered, Noted
  <2>5. Noted(read, armed) = (IF a.restricting THEN {read.target} ELSE {})
    BY <1>2 DEF Noted
  <2>6. Used(read, armed, given) = (IF a.restricting /\ i # 0 THEN {i} ELSE {})
    BY <2>5 DEF Used
  <2>7. Reported(read, armed) = (IF armed.inText THEN {} ELSE {read.target})
    BY <1>2 DEF Reported
  <2>8. /\ Gathered(n) /\ n.manager = c.manager
        /\ n.why = IF Unanswered(read, armed, given) THEN "no decision" ELSE "none"
        /\ n.targets = IF a.restricting THEN c.targets \cup {read.target} ELSE c.targets
        /\ n.used = IF a.restricting /\ i # 0 THEN c.used \cup {i} ELSE c.used
        /\ ~Unanswered(read, armed, given) =>
             n.fields = IF armed.inText THEN c.fields ELSE c.fields \cup {read.target}
        /\ armed.inText \/ (armed.mode = "Restricted" /\ ~armed.collecting) =>
             /\ Backed(c.reads, given) => Backed(n.reads, given)
             /\ n.past = c.past
    <3>1. Notes(c, n, read.target, a, i, given)
      <4> HIDE DEF a
      <4> QED BY <2>1, <2>2, NoteIs
    <3> HIDE DEF n, a, i
    <3> QED BY <2>2, <2>4, <3>1 DEF Notes
  <2> HIDE DEF n, a, i
  <2> QED BY <2>5, <2>6, <2>7, <2>8 DEF Adds, n
<1>3. CASE read.kind = "temporary"
  <2>1. n = D!ReadTemporary(c, read.name, armed)
    BY <1>1, <1>3 DEF D!Meet, D!Tables
  <2>2. Noted(read, armed) = {} /\ Reported(read, armed) = {} /\ ~Unanswered(read, armed, given)
        /\ Used(read, armed, given) = {}
    BY <1>3 DEF Noted, Reported, Unanswered, Used, D!Tables
  <2> DEFINE found == read.name \in DOMAIN c.manager
             refused == ~c.manager[read.name].restricted /\ D!Refuses(armed)
  <2>3. CASE found => refused
    <3>1. \E w \in {"unknown", "refused"} : n = [c EXCEPT !.why = w]
      BY <2>1, <2>3 DEF D!ReadTemporary, D!Fail
    <3> HIDE DEF n
    <3>2. /\ Gathered(n) /\ n.why \in {"unknown", "refused"} /\ n.manager = c.manager /\ n.targets = c.targets
          /\ n.used = c.used /\ n.fields = c.fields /\ n.reads = c.reads /\ n.past = c.past
      BY <3>1 DEF Gathered
    <3> QED BY <1>3, <2>2, <2>3, <3>2 DEF Adds, n
  <2>4. CASE found /\ ~refused
    <3>1. n = [c EXCEPT !.past = c.past \cup D!PassedBy(c.manager[read.name].past, armed),
                        !.from = c.from \cup c.manager[read.name].modes]
      BY <2>1, <2>4 DEF D!ReadTemporary
    <3> HIDE DEF n
    <3>2. /\ Gathered(n) /\ n.why = "none" /\ n.manager = c.manager /\ n.targets = c.targets
          /\ n.used = c.used /\ n.fields = c.fields /\ n.reads = c.reads
          /\ n.past = c.past \cup D!PassedBy(c.manager[read.name].past, armed)
      BY <3>1 DEF Gathered
    <3>3. armed.inText => n.past = c.past
      BY <3>2 DEF D!PassedBy
    <3>4. read.kind \notin D!Tables
      BY <1>3 DEF D!Tables
    <3> QED BY <2>2, <2>4, <3>2, <3>3, <3>4 DEF Adds, n
  <2> QED BY <2>3, <2>4
<1>4. CASE read.kind = "descent"
  <2>1. n = D!ReadUnfiltered(c, read.target, armed)
    BY <1>1, <1>4 DEF D!Meet, D!Tables
  <2>2. Noted(read, armed) = {} /\ Reported(read, armed) = {} /\ ~Unanswered(read, armed, given)
        /\ Used(read, armed, given) = {} /\ read.kind \notin D!Tables
    BY <1>4 DEF Noted, Reported, Unanswered, Used, D!Tables
  <2>3. CASE D!Refuses(armed)
    <3>1. n = [c EXCEPT !.why = "refused"] /\ ~armed.inText
      BY <2>1, <2>3 DEF D!ReadUnfiltered, D!Fail, D!Refuses
    <3> HIDE DEF n
    <3>2. /\ Gathered(n) /\ n.why = "refused" /\ n.manager = c.manager /\ n.targets = c.targets
          /\ n.used = c.used /\ n.fields = c.fields /\ n.reads = c.reads /\ n.past = c.past
      BY <3>1 DEF Gathered
    <3> QED BY <2>2, <3>1, <3>2 DEF Adds, n
  <2>4. CASE ~D!Refuses(armed)
    <3> DEFINE r == [target |-> read.target, verdict |-> "unfiltered", inText |-> armed.inText]
    <3>1. n = [c EXCEPT !.past = c.past \cup D!PassedBy({read.target}, armed),
                        !.reads = c.reads \cup {r}]
      BY <2>1, <2>4 DEF D!ReadUnfiltered
    <3>2. armed.mode = "Restricted" => armed.inText
      BY <2>4 DEF D!Refuses
    <3> HIDE DEF n
    <3>3. /\ Gathered(n) /\ n.why = "none" /\ n.manager = c.manager /\ n.targets = c.targets
          /\ n.used = c.used /\ n.fields = c.fields /\ n.reads = c.reads \cup {r}
          /\ n.past = c.past \cup D!PassedBy({read.target}, armed)
      BY <3>1 DEF Gathered
    <3>4. armed.inText => /\ n.past = c.past
                          /\ Backed(c.reads, given) => Backed(n.reads, given)
      BY <3>3 DEF D!PassedBy, Backed
    <3> HIDE DEF r
    <3> QED BY <2>2, <3>2, <3>3, <3>4 DEF Adds, n
  <2> QED BY <2>3, <2>4
<1>5. CASE read.kind = "payload"
  <2>1. n = [c EXCEPT !.lookups = c.lookups \cup {read.target}]
    BY <1>1, <1>5 DEF D!Meet, D!Tables
  <2>2. Noted(read, armed) = {} /\ Reported(read, armed) = {} /\ ~Unanswered(read, armed, given)
        /\ Used(read, armed, given) = {}
    BY <1>5 DEF Noted, Reported, Unanswered, Used, D!Tables
  <2> HIDE DEF n
  <2>3. /\ Gathered(n) /\ n.why = "none" /\ n.manager = c.manager /\ n.targets = c.targets
        /\ n.used = c.used /\ n.fields = c.fields /\ n.reads = c.reads /\ n.past = c.past
    BY <2>1 DEF Gathered
  <2> QED BY <2>2, <2>3 DEF Adds, n
<1> QED BY <1>2, <1>3, <1>4, <1>5 DEF D!Tables, Kinds

-----------------------------------------------------------------------------
(* What the text of a condition reads, one read after the other.            *)
TextTrace(h, c, text, armed, given) ==
  LET reads == Texts[text]
      disarmed == [armed EXCEPT !.inText = TRUE, !.restricting = FALSE]
  IN /\ h[0] = c
     /\ \A n \in 1..Len(reads) : h[n] = D!Meet(h[n - 1], reads[n], disarmed, given)
     /\ D!InRestriction(c, text, armed, given) = h[Len(reads)]

LEMMA TextSteps ==
  ASSUME NEW c, NEW text \in DOMAIN Texts, NEW armed, NEW given
  PROVE  \E h : TextTrace(h, c, text, armed, given)
<1> DEFINE reads == Texts[text]
           disarmed == [armed EXCEPT !.inText = TRUE, !.restricting = FALSE]
           size == Len(reads)
           Step(h, n) == IF n = 0 THEN c ELSE D!Meet(h[n - 1], reads[n], disarmed, given)
           Is(h) == h = [n \in 0..size |-> Step(h, n)]
           Upto(h, k) == \A n \in 0..size : n <= k => h[n] = Step(h, n)
           P == {k \in Nat : \E h : Upto(h, k)}
<1>0. size \in Nat
  <2>1. reads \in Seq(D!Reading)
    BY GivenAssumption, Zenon DEF D!AnswersAreTyped
  <2> QED BY <2>1
<1>1. 0 \in P
  <2> DEFINE h == [n \in {0} |-> c]
  <2>1. Upto(h, 0)
    <3>1. \A n \in 0..size : n <= 0 => n = 0
      BY <1>0
    <3> QED BY <3>1
  <2> QED BY <2>1
<1>2. ASSUME NEW k \in Nat, k \in P PROVE k + 1 \in P
  <2>1. PICK h : Upto(h, k)
    BY <1>2
  <2> DEFINE g == [n \in 0..size |-> IF n <= k THEN h[n] ELSE Step(h, n)]
  <2>2. ASSUME NEW n \in 0..size, n <= k + 1 PROVE g[n] = Step(g, n)
    <3>1. g[n] = Step(h, n)
      BY <2>1
    <3>2. n # 0 => n - 1 \in 0..size /\ n - 1 <= k
      BY <1>0, <2>2
    <3>3. n # 0 => g[n - 1] = h[n - 1]
      BY <3>2
    <3> HIDE DEF g
    <3> QED BY <3>1, <3>3
  <2>3. Upto(g, k + 1)
    <3> HIDE DEF g, Step
    <3> QED BY <2>2
  <2> HIDE DEF g
  <2> QED BY <2>3
<1> HIDE DEF P
<1>3. size \in P
  BY <1>0, <1>1, <1>2, Induction
<1>4. PICK h : Upto(h, size)
  BY <1>3 DEF P
<1> DEFINE g == [n \in 0..size |-> h[n]]
<1>5. ASSUME NEW n \in 0..size PROVE h[n] = Step(h, n) /\ Step(h, n) = Step(g, n)
  <2>1. h[n] = Step(h, n)
    <3> HIDE DEF Step
    <3> QED BY <1>0, <1>4
  <2>2. n # 0 => n - 1 \in 0..size
    BY <1>0
  <2> QED BY <2>1, <2>2
<1>6. Is(g)
  <2> HIDE DEF Step
  <2> QED BY <1>5
<1> HIDE DEF Step
<1>7. \E f : Is(f)
  BY <1>6
<1> DEFINE f == CHOOSE f : Is(f)
<1>8. Is(f)
  <2> HIDE DEF Is
  <2> QED BY <1>7
<1>9. D!InRestriction(c, text, armed, given) = f[size]
  BY DEF D!InRestriction, Step
<1> HIDE DEF f
<1>10. f[0] = c /\ \A n \in 1..size : f[n] = D!Meet(f[n - 1], reads[n], disarmed, given)
  <2>1. \A n \in 0..size : f[n] = Step(f, n)
    BY <1>8
  <2>2. 0 \in 0..size /\ \A n \in 1..size : n \in 0..size /\ n # 0
    BY <1>0
  <2> QED BY <2>1, <2>2 DEF Step
<1>11. TextTrace(f, c, text, armed, given)
  <2> HIDE DEF disarmed
  <2> QED BY <1>9, <1>10 DEF disarmed, TextTrace
<1> QED BY <1>11

(* What the text of a condition reads is reported of no statement.          *)
Disarmed(c, n, given) ==
  /\ Gathered(n) /\ n.manager = c.manager
  /\ n.targets = c.targets /\ n.used = c.used /\ n.fields = c.fields /\ n.past = c.past
  /\ n.why # "no decision"
  /\ Backed(c.reads, given) => Backed(n.reads, given)

LEMMA TextIs ==
  ASSUME NEW c, Gathered(c), c.why = "none", NEW text \in DOMAIN Texts, NEW armed, IsArmed(armed),
         NEW given \in Supplied
  PROVE  Disarmed(c, D!InRestriction(c, text, armed, given), given)
<1> DEFINE reads == Texts[text]
           size == Len(reads)
           disarmed == [armed EXCEPT !.inText = TRUE, !.restricting = FALSE]
           P(h) == {n \in Nat : n <= size => Disarmed(c, h[n], given)}
<1>1. /\ size \in Nat /\ \A n \in 1..size : reads[n] \in D!Reading
  <2>1. reads \in Seq(D!Reading)
    BY GivenAssumption, Zenon DEF D!AnswersAreTyped
  <2> HIDE DEF reads
  <2> QED BY <2>1
<1>2. IsArmed(disarmed) /\ disarmed.inText /\ ~disarmed.restricting
  BY DEF IsArmed
<1>3. \A n \in 1..size : /\ Noted(reads[n], disarmed) = {} /\ Reported(reads[n], disarmed) = {}
                         /\ ~Unanswered(reads[n], disarmed, given)
                         /\ Used(reads[n], disarmed, given) = {}
  <2> HIDE DEF disarmed, reads, size
  <2> SUFFICES ASSUME NEW n \in 1..size
               PROVE  /\ Noted(reads[n], disarmed) = {} /\ Reported(reads[n], disarmed) = {}
                      /\ ~Unanswered(reads[n], disarmed, given)
                      /\ Used(reads[n], disarmed, given) = {}
    OBVIOUS
  <2>1. ~D!ArmedFor(reads[n], disarmed).restricting
    BY <1>2, ArmedForIs DEF IsArmed
  <2> QED BY <1>2, <2>1 DEF Noted, Reported, Unanswered, Used
<1>a. PICK h : TextTrace(h, c, text, armed, given)
  BY TextSteps
<1>4. /\ h[0] = c
      /\ \A n \in 1..size : h[n] = D!Meet(h[n - 1], reads[n], disarmed, given)
      /\ D!InRestriction(c, text, armed, given) = h[size]
  BY <1>a DEF TextTrace
<1> HIDE DEF disarmed
<1>5. 0 \in P(h)
  BY <1>4 DEF Disarmed
<1>6. ASSUME NEW n \in Nat, n \in P(h) PROVE n + 1 \in P(h)
  <2> HIDE DEF reads, size
  <2> SUFFICES ASSUME n + 1 <= size PROVE Disarmed(c, h[n + 1], given)
    OBVIOUS
  <2> DEFINE was == h[n]
             now == h[n + 1]
             read == reads[n + 1]
  <2>1. n + 1 \in 1..size /\ Disarmed(c, was, given)
    BY <1>1, <1>6
  <2>2. now = D!Meet(was, read, disarmed, given)
    BY <1>1, <1>4, <2>1
  <2>3. read \in D!Reading
    BY <1>1, <2>1
  <2>4. /\ Noted(read, disarmed) = {} /\ Reported(read, disarmed) = {}
        /\ ~Unanswered(read, disarmed, given) /\ Used(read, disarmed, given) = {}
    BY <1>3, <2>1
  <2> HIDE DEF was, now, read
  <2>5. CASE was.why = "none"
    <3>1. Adds(was, now, read, disarmed, given)
      BY <1>2, <2>1, <2>2, <2>3, <2>5, MeetIs, ReadingType DEF Disarmed
    <3> QED BY <1>2, <2>1, <2>4, <3>1 DEF Adds, Disarmed, now
  <2>6. CASE was.why # "none"
    <3>1. now = was
      BY <2>2, <2>6 DEF D!Meet, D!Done
    <3> QED BY <2>1, <3>1 DEF now
  <2> QED BY <2>5, <2>6
<1> HIDE DEF P
<1>7. size \in P(h)
  BY <1>1, <1>5, <1>6, Induction
<1> QED BY <1>1, <1>4, <1>7 DEF P

(* What a statement's own read adds, its condition's text included.         *)
LEMMA ReadIs ==
  ASSUME NEW c, Gathered(c), c.why = "none", NEW read, read.kind \in Kinds, NEW armed, IsArmed(armed),
         ~armed.inText, NEW given \in Supplied
  PROVE  Adds(c, D!Read(c, read, armed, given), read, armed, given)
<1> DEFINE m == D!Meet(c, read, armed, given)
           n == D!Read(c, read, armed, given)
           i == D!ConditionOf(read, armed, given)
<1>1. Adds(c, m, read, armed, given)
  BY MeetIs
<1>2. n = IF D!Done(m) \/ i = 0 THEN m ELSE D!InRestriction(m, given[i].text, armed, given)
  BY DEF D!Read
<1>3. i # 0 => i \in DOMAIN given
  BY AnswerIs DEF D!ConditionOf
<1> HIDE DEF m, n, i
<1>4. CASE D!Done(m) \/ i = 0
  <2>1. n = m
    BY <1>2, <1>4
  <2> QED BY <1>1, <2>1 DEF n
<1>5. CASE ~D!Done(m) /\ i # 0
  <2>1. n = D!InRestriction(m, given[i].text, armed, given) /\ m.why = "none" /\ Gathered(m)
    BY <1>1, <1>2, <1>5 DEF D!Done, Adds
  <2>2. given[i].text \in DOMAIN Texts
    BY <1>3, <1>5, SuppliedType
  <2>3. Disarmed(m, n, given)
    BY <2>1, <2>2, TextIs
  <2>4. ~Unanswered(read, armed, given)
    BY <1>1, <2>1 DEF Adds
  <2>5. Adds(c, n, read, armed, given)
    BY <1>1, <2>3, <2>4 DEF Adds, Disarmed
  <2> QED BY <2>5 DEF n
<1> QED BY <1>4, <1>5

-----------------------------------------------------------------------------
(* What a statement reads, one read after the other.                        *)
EachTrace(h, c, reads, armed, given) ==
  /\ h[0] = c
  /\ \A n \in 1..Len(reads) : h[n] = D!Read(h[n - 1], reads[n], armed, given)
  /\ D!ReadEach(c, reads, armed, given) = h[Len(reads)]

LEMMA EachSteps ==
  ASSUME NEW c, NEW reads, Len(reads) \in Nat, NEW armed, NEW given
  PROVE  \E h : EachTrace(h, c, reads, armed, given)
<1> DEFINE size == Len(reads)
           Step(h, n) == IF n = 0 THEN c ELSE D!Read(h[n - 1], reads[n], armed, given)
           Is(h) == h = [n \in 0..size |-> Step(h, n)]
           Upto(h, k) == \A n \in 0..size : n <= k => h[n] = Step(h, n)
           P == {k \in Nat : \E h : Upto(h, k)}
<1>0. size \in Nat
  OBVIOUS
<1>1. 0 \in P
  <2> DEFINE h == [n \in {0} |-> c]
  <2>1. Upto(h, 0)
    <3>1. \A n \in 0..size : n <= 0 => n = 0
      BY <1>0
    <3> QED BY <3>1
  <2> QED BY <2>1
<1>2. ASSUME NEW k \in Nat, k \in P PROVE k + 1 \in P
  <2>1. PICK h : Upto(h, k)
    BY <1>2
  <2> DEFINE g == [n \in 0..size |-> IF n <= k THEN h[n] ELSE Step(h, n)]
  <2>2. ASSUME NEW n \in 0..size, n <= k + 1 PROVE g[n] = Step(g, n)
    <3>1. g[n] = Step(h, n)
      BY <2>1
    <3>2. n # 0 => n - 1 \in 0..size /\ n - 1 <= k
      BY <1>0, <2>2
    <3>3. n # 0 => g[n - 1] = h[n - 1]
      BY <3>2
    <3> HIDE DEF g
    <3> QED BY <3>1, <3>3
  <2>3. Upto(g, k + 1)
    <3> HIDE DEF g, Step
    <3> QED BY <2>2
  <2> HIDE DEF g
  <2> QED BY <2>3
<1> HIDE DEF P
<1>3. size \in P
  BY <1>0, <1>1, <1>2, Induction
<1>4. PICK h : Upto(h, size)
  BY <1>3 DEF P
<1> DEFINE g == [n \in 0..size |-> h[n]]
<1>5. ASSUME NEW n \in 0..size PROVE h[n] = Step(h, n) /\ Step(h, n) = Step(g, n)
  <2>1. h[n] = Step(h, n)
    <3> HIDE DEF Step
    <3> QED BY <1>0, <1>4
  <2>2. n # 0 => n - 1 \in 0..size
    BY <1>0
  <2> QED BY <2>1, <2>2
<1>6. Is(g)
  <2> HIDE DEF Step
  <2> QED BY <1>5
<1> HIDE DEF Step
<1>7. \E f : Is(f)
  BY <1>6
<1> DEFINE f == CHOOSE f : Is(f)
<1>8. Is(f)
  <2> HIDE DEF Is
  <2> QED BY <1>7
<1>9. D!ReadEach(c, reads, armed, given) = f[size]
  BY DEF D!ReadEach, Step
<1> HIDE DEF f
<1>10. f[0] = c /\ \A n \in 1..size : f[n] = D!Read(f[n - 1], reads[n], armed, given)
  <2>1. \A n \in 0..size : f[n] = Step(f, n)
    BY <1>8
  <2>2. 0 \in 0..size /\ \A n \in 1..size : n \in 0..size /\ n # 0
    BY <1>0
  <2> QED BY <2>1, <2>2 DEF Step
<1>11. EachTrace(f, c, reads, armed, given)
  BY <1>9, <1>10 DEF EachTrace
<1> QED BY <1>11

(* The statements of a batch, one after the other.                          *)
BatchTrace(h, tables, statements, mode, collecting, given) ==
  /\ h[0] = D!Fresh(tables)
  /\ \A n \in 1..Len(statements) :
       h[n] = D!Statement(h[n - 1], statements[n], mode, collecting, given)
  /\ D!Batch(tables, statements, mode, collecting, given) = h[Len(statements)]

LEMMA BatchSteps ==
  ASSUME NEW tables, NEW statements, Len(statements) \in Nat, NEW mode, NEW collecting, NEW given
  PROVE  \E h : BatchTrace(h, tables, statements, mode, collecting, given)
<1> DEFINE size == Len(statements)
           Step(h, n) == IF n = 0 THEN D!Fresh(tables) ELSE D!Statement(h[n - 1], statements[n], mode, collecting, given)
           Is(h) == h = [n \in 0..size |-> Step(h, n)]
           Upto(h, k) == \A n \in 0..size : n <= k => h[n] = Step(h, n)
           P == {k \in Nat : \E h : Upto(h, k)}
<1>0. size \in Nat
  OBVIOUS
<1>1. 0 \in P
  <2> DEFINE h == [n \in {0} |-> D!Fresh(tables)]
  <2>1. Upto(h, 0)
    <3>1. \A n \in 0..size : n <= 0 => n = 0
      BY <1>0
    <3> QED BY <3>1
  <2> QED BY <2>1
<1>2. ASSUME NEW k \in Nat, k \in P PROVE k + 1 \in P
  <2>1. PICK h : Upto(h, k)
    BY <1>2
  <2> DEFINE g == [n \in 0..size |-> IF n <= k THEN h[n] ELSE Step(h, n)]
  <2>2. ASSUME NEW n \in 0..size, n <= k + 1 PROVE g[n] = Step(g, n)
    <3>1. g[n] = Step(h, n)
      BY <2>1
    <3>2. n # 0 => n - 1 \in 0..size /\ n - 1 <= k
      BY <1>0, <2>2
    <3>3. n # 0 => g[n - 1] = h[n - 1]
      BY <3>2
    <3> HIDE DEF g
    <3> QED BY <3>1, <3>3
  <2>3. Upto(g, k + 1)
    <3> HIDE DEF g, Step
    <3> QED BY <2>2
  <2> HIDE DEF g
  <2> QED BY <2>3
<1> HIDE DEF P
<1>3. size \in P
  BY <1>0, <1>1, <1>2, Induction
<1>4. PICK h : Upto(h, size)
  BY <1>3 DEF P
<1> DEFINE g == [n \in 0..size |-> h[n]]
<1>5. ASSUME NEW n \in 0..size PROVE h[n] = Step(h, n) /\ Step(h, n) = Step(g, n)
  <2>1. h[n] = Step(h, n)
    <3> HIDE DEF Step
    <3> QED BY <1>0, <1>4
  <2>2. n # 0 => n - 1 \in 0..size
    BY <1>0
  <2> QED BY <2>1, <2>2
<1>6. Is(g)
  <2> HIDE DEF Step
  <2> QED BY <1>5
<1> HIDE DEF Step
<1>7. \E f : Is(f)
  BY <1>6
<1> DEFINE f == CHOOSE f : Is(f)
<1>8. Is(f)
  <2> HIDE DEF Is
  <2> QED BY <1>7
<1>9. D!Batch(tables, statements, mode, collecting, given) = f[size]
  BY DEF D!Batch, Step
<1> HIDE DEF f
<1>10. f[0] = D!Fresh(tables) /\ \A n \in 1..size : f[n] = D!Statement(f[n - 1], statements[n], mode, collecting, given)
  <2>1. \A n \in 0..size : f[n] = Step(f, n)
    BY <1>8
  <2>2. 0 \in 0..size /\ \A n \in 1..size : n \in 0..size /\ n # 0
    BY <1>0
  <2> QED BY <2>1, <2>2 DEF Step
<1>11. BatchTrace(f, tables, statements, mode, collecting, given)
  BY <1>9, <1>10 DEF BatchTrace
<1> QED BY <1>11

-----------------------------------------------------------------------------
(* The pass that collects the request and the pass that compiles under the  *)
(* answers, side by side.                                                   *)
Kept(c, mode, given) ==
  /\ Gathered(c)
  /\ c.used \subseteq DOMAIN given
  /\ \A t \in c.targets : D!AnswerFor(given, t) # 0 => D!AnswerFor(given, t) \in c.used
  /\ mode = "Restricted" => Backed(c.reads, given)

Alike(a, b, given) ==
  /\ b.why = "none" => a.targets = b.targets /\ a.fields = b.fields
  /\ b.why = "no decision" => \E t \in a.targets : D!AnswerFor(given, t) = 0

Pair(a, b, mode, given) ==
  /\ Gathered(a) /\ Kept(b, mode, given)
  /\ a.why = "none" => Alike(a, b, given)

LEMMA ArmedIs ==
  ASSUME NEW mode \in D!Modes, NEW keyword \in BOOLEAN, NEW collecting \in BOOLEAN
  PROVE  LET x == D!Armed(mode, keyword, collecting)
         IN /\ IsArmed(x) /\ ~x.inText /\ x.mode = mode /\ x.collecting = collecting
            /\ x.restricting <=> keyword \/ mode = "Restricted"
<1> DEFINE x == D!Armed(mode, keyword, collecting)
<1>1. x = [mode |-> mode, collecting |-> collecting, restricting |-> keyword \/ mode = "Restricted",
           inText |-> FALSE]
  BY DEF D!Armed
<1> HIDE DEF x
<1>2. /\ DOMAIN x = {"mode", "collecting", "restricting", "inText"}
      /\ x.mode = mode /\ x.collecting = collecting /\ x.inText = FALSE
      /\ x.restricting = (keyword \/ mode = "Restricted")
  BY <1>1
<1> QED BY <1>2 DEF IsArmed, D!Modes, x

(* Both passes ask about the same.                                          *)
LEMMA BothNote ==
  ASSUME NEW mode \in D!Modes, NEW keyword \in BOOLEAN, NEW read
  PROVE  LET x == D!Armed(mode, keyword, TRUE)
             y == D!Armed(mode, keyword, FALSE)
         IN Noted(read, x) = Noted(read, y) /\ Reported(read, x) = Reported(read, y)
<1> DEFINE x == D!Armed(mode, keyword, TRUE)
           y == D!Armed(mode, keyword, FALSE)
<1>1. /\ DOMAIN x = {"mode", "collecting", "restricting", "inText"} /\ DOMAIN y = DOMAIN x
      /\ x.mode = mode /\ y.mode = mode /\ ~x.inText /\ ~y.inText
      /\ x.restricting = y.restricting
  BY DEF D!Armed
<1> HIDE DEF x, y
<1>2. D!Dereference(x).restricting <=> D!Dereference(y).restricting
  BY <1>1 DEF D!Dereference
<1>3. D!ArmedFor(read, x).restricting <=> D!ArmedFor(read, y).restricting
  BY <1>1, <1>2 DEF D!ArmedFor
<1>4. Noted(read, x) = Noted(read, y)
  BY <1>3 DEF Noted
<1>5. Reported(read, x) = Reported(read, y)
  BY <1>1 DEF Reported
<1> QED BY <1>4, <1>5 DEF x, y

(* An answer used is an answer given, and all that is noted is used.        *)
LEMMA UsedIs ==
  ASSUME NEW read, NEW armed, NEW given \in Supplied
  PROVE  /\ Used(read, armed, given) \subseteq DOMAIN given
         /\ \A t \in Noted(read, armed) :
              D!AnswerFor(given, t) # 0 => D!AnswerFor(given, t) \in Used(read, armed, given)
BY AnswerIs DEF Used

LEMMA ReadBoth ==
  ASSUME NEW a, NEW b, NEW mode \in D!Modes, NEW keyword \in BOOLEAN, NEW read \in D!Reading,
         NEW given \in Supplied, Pair(a, b, mode, given)
  PROVE  Pair(D!Read(a, read, D!Armed(mode, keyword, TRUE), <<>>),
              D!Read(b, read, D!Armed(mode, keyword, FALSE), given), mode, given)
<1> DEFINE x == D!Armed(mode, keyword, TRUE)
           y == D!Armed(mode, keyword, FALSE)
           c == D!Read(a, read, x, <<>>)
           d == D!Read(b, read, y, given)
<1>0. <<>> \in Supplied
  BY DEF Supplied
<1>1. /\ IsArmed(x) /\ ~x.inText /\ x.collecting /\ x.mode = mode
      /\ IsArmed(y) /\ ~y.inText /\ ~y.collecting /\ y.mode = mode
  BY ArmedIs
<1>2. Noted(read, x) = Noted(read, y) /\ Reported(read, x) = Reported(read, y)
  BY BothNote
<1>3. a.why # "none" => c = a
  BY DEF D!Read, D!Meet, D!Done
<1>4. b.why # "none" => d = b
  BY DEF D!Read, D!Meet, D!Done
<1> HIDE DEF x, y
<1>5. a.why = "none" => Adds(a, c, read, x, <<>>)
  BY <1>0, <1>1, ReadIs, ReadingType DEF Pair
<1>6. b.why = "none" => Adds(b, d, read, y, given)
  BY <1>1, ReadIs, ReadingType DEF Pair, Kept
<1> HIDE DEF c, d
<1>7. Gathered(c)
  BY <1>3, <1>5 DEF Adds, Pair
<1>8. Kept(d, mode, given)
  <2>1. CASE b.why = "none"
    <3>1. Adds(b, d, read, y, given) /\ Kept(b, mode, given)
      BY <1>6, <2>1 DEF Pair
    <3>2. mode = "Restricted" => Backed(d.reads, given)
      BY <1>1, <3>1 DEF Adds, Kept
    <3>3. /\ Gathered(d) /\ d.used = b.used \cup Used(read, y, given)
          /\ d.targets = b.targets \cup Noted(read, y)
      BY <3>1 DEF Adds
    <3> QED BY <3>1, <3>2, <3>3, UsedIs DEF Kept
  <2>2. CASE b.why # "none"
    BY <1>4, <2>2 DEF Pair
  <2> QED BY <2>1, <2>2
<1>9. ASSUME c.why = "none" PROVE Alike(c, d, given)
  <2>1. a.why = "none" /\ Alike(a, b, given)
    BY <1>3, <1>9 DEF Pair
  <2>2. Adds(a, c, read, x, <<>>) /\ ~Unanswered(read, x, <<>>)
    BY <1>1, <1>5, <2>1 DEF Unanswered
  <2>3. c.targets = a.targets \cup Noted(read, y) /\ c.fields = a.fields \cup Reported(read, y)
    BY <1>2, <2>2 DEF Adds
  <2>4. CASE b.why = "none"
    <3>1. Adds(b, d, read, y, given)
      BY <1>6, <2>4
    <3>2. d.why = "none" => ~Unanswered(read, y, given)
      BY <3>1 DEF Adds
    <3>3. d.why = "none" => d.targets = b.targets \cup Noted(read, y)
                            /\ d.fields = b.fields \cup Reported(read, y)
      BY <3>1, <3>2 DEF Adds
    <3>4. d.why = "no decision" => \E t \in Noted(read, y) : D!AnswerFor(given, t) = 0
      BY <3>1 DEF Adds, Unanswered, Noted
    <3> QED BY <2>1, <2>3, <2>4, <3>3, <3>4 DEF Alike
  <2>5. CASE b.why # "none"
    BY <1>4, <2>1, <2>3, <2>5 DEF Alike
  <2> QED BY <2>4, <2>5
<1> QED BY <1>7, <1>8, <1>9 DEF Pair, c, d, x, y

LEMMA EachBoth ==
  ASSUME NEW a, NEW b, NEW mode \in D!Modes, NEW keyword \in BOOLEAN, NEW reads \in Seq(D!Reading),
         NEW given \in Supplied, Pair(a, b, mode, given)
  PROVE  Pair(D!ReadEach(a, reads, D!Armed(mode, keyword, TRUE), <<>>),
              D!ReadEach(b, reads, D!Armed(mode, keyword, FALSE), given), mode, given)
<1> DEFINE size == Len(reads)
           x == D!Armed(mode, keyword, TRUE)
           y == D!Armed(mode, keyword, FALSE)
<1>1. size \in Nat /\ \A n \in 1..size : reads[n] \in D!Reading
  OBVIOUS
<1> HIDE DEF x, y
<1>2. PICK g : EachTrace(g, a, reads, x, <<>>)
  BY <1>1, EachSteps
<1>3. PICK h : EachTrace(h, b, reads, y, given)
  BY <1>1, EachSteps
<1> DEFINE P == {n \in Nat : n <= size => Pair(g[n], h[n], mode, given)}
<1>4. 0 \in P
  BY <1>2, <1>3 DEF EachTrace
<1>5. ASSUME NEW n \in Nat, n \in P PROVE n + 1 \in P
  <2> SUFFICES ASSUME n + 1 <= size PROVE Pair(g[n + 1], h[n + 1], mode, given)
    OBVIOUS
  <2>1. n + 1 \in 1..size /\ (n + 1) - 1 = n /\ Pair(g[n], h[n], mode, given)
    BY <1>1, <1>5
  <2>2. reads[n + 1] \in D!Reading
    BY <1>1, <2>1
  <2>3. /\ g[n + 1] = D!Read(g[n], reads[n + 1], x, <<>>)
        /\ h[n + 1] = D!Read(h[n], reads[n + 1], y, given)
    BY <1>2, <1>3, <2>1 DEF EachTrace
  <2>4. Pair(D!Read(g[n], reads[n + 1], x, <<>>), D!Read(h[n], reads[n + 1], y, given), mode, given)
    BY <2>1, <2>2, ReadBoth DEF x, y
  <2> QED BY <2>3, <2>4
<1> HIDE DEF P
<1>6. size \in P
  BY <1>1, <1>4, <1>5, Induction
<1>7. Pair(g[size], h[size], mode, given)
  BY <1>1, <1>6 DEF P
<1> QED BY <1>2, <1>3, <1>7 DEF EachTrace, x, y

(* A compilation that has stopped reads no more.                            *)
LEMMA EachDone ==
  ASSUME NEW c, c.why # "none", NEW reads, Len(reads) \in Nat, NEW armed, NEW given
  PROVE  D!ReadEach(c, reads, armed, given) = c
<1> DEFINE size == Len(reads)
<1>1. PICK h : EachTrace(h, c, reads, armed, given)
  BY EachSteps
<1> DEFINE P == {n \in Nat : n <= size => h[n] = c}
<1>2. 0 \in P
  BY <1>1 DEF EachTrace
<1>3. ASSUME NEW n \in Nat, n \in P PROVE n + 1 \in P
  <2> SUFFICES ASSUME n + 1 <= size PROVE h[n + 1] = c
    OBVIOUS
  <2>1. n + 1 \in 1..size /\ (n + 1) - 1 = n /\ h[n] = c
    BY <1>3
  <2>2. h[n + 1] = D!Read(c, reads[n + 1], armed, given)
    BY <1>1, <2>1 DEF EachTrace
  <2> QED BY <2>2 DEF D!Read, D!Meet, D!Done
<1> HIDE DEF P
<1>4. size \in P
  BY <1>2, <1>3, Induction
<1> QED BY <1>1, <1>4 DEF EachTrace, P

(* Placing a table changes nothing of what was asked or answered.           *)
Places(c, n) ==
  /\ Gathered(n)
  /\ n.targets = c.targets /\ n.used = c.used /\ n.fields = c.fields /\ n.reads = c.reads
  /\ c.why # "none" => n = c
  /\ c.why = "none" => n.why \in {"none", "exists"}

LEMMA PlaceIs ==
  ASSUME NEW c, Gathered(c), NEW statement, NEW mode
  PROVE  Places(c, D!PlaceTable(c, statement, mode))
<1> DEFINE n == D!PlaceTable(c, statement, mode)
           placed(m) == [c EXCEPT !.manager = m]
<1>1. \/ n = c
      \/ c.why = "none" /\ n = [c EXCEPT !.why = "exists"]
      \/ c.why = "none" /\ \E m : n = placed(m)
  <2> DEFINE name == statement.into
             found == name \in DOMAIN c.manager
             before == IF found THEN c.manager[name] ELSE [past |-> {}, modes |-> {}]
             table == [restricted |-> mode = "Restricted" \/ statement.keyword,
                       past |-> c.past \cup before.past, modes |-> {mode} \cup c.from \cup before.modes]
             m == [k \in DOMAIN c.manager \cup {name} |-> IF k = name THEN table ELSE c.manager[k]]
             bad == statement.append # found
  <2>1. n = CASE D!Done(c) \/ name = "none" -> c
              [] ~D!Done(c) /\ name # "none" /\ bad -> [c EXCEPT !.why = "exists"]
              [] OTHER -> placed(m)
    BY DEF D!PlaceTable, D!Fail
  <2> HIDE DEF n, m, bad, name
  <2>2. CASE D!Done(c) \/ name = "none"
    BY <2>1, <2>2
  <2>3. CASE ~D!Done(c) /\ name # "none" /\ bad
    BY <2>1, <2>3 DEF D!Done
  <2>4. CASE ~D!Done(c) /\ name # "none" /\ ~bad
    BY <2>1, <2>4 DEF D!Done
  <2> QED BY <2>2, <2>3, <2>4
<1> HIDE DEF n
<1>2. CASE n = c
  BY <1>2 DEF n, Gathered, Places
<1>3. CASE c.why = "none" /\ n = [c EXCEPT !.why = "exists"]
  <2>1. /\ Gathered(n) /\ n.targets = c.targets /\ n.used = c.used /\ n.fields = c.fields
        /\ n.reads = c.reads /\ n.why = "exists"
    BY <1>3 DEF Gathered
  <2> QED BY <1>3, <2>1 DEF n, Places
<1>4. CASE c.why = "none" /\ \E m : n = placed(m)
  <2>1. /\ Gathered(n) /\ n.targets = c.targets /\ n.used = c.used /\ n.fields = c.fields
        /\ n.reads = c.reads /\ n.why = "none"
    BY <1>4 DEF Gathered
  <2> QED BY <1>4, <2>1 DEF n, Places
<1> QED BY <1>1, <1>2, <1>3, <1>4

Statements == [keyword : BOOLEAN, reads : Seq(D!Reading), into : STRING, append : BOOLEAN]

LEMMA StatementBoth ==
  ASSUME NEW a, NEW b, NEW mode \in D!Modes, NEW statement \in Statements,
         NEW given \in Supplied, Pair(a, b, mode, given)
  PROVE  Pair(D!Statement(a, statement, mode, TRUE, <<>>),
              D!Statement(b, statement, mode, FALSE, given), mode, given)
<1> DEFINE x == D!Armed(mode, statement.keyword, TRUE)
           y == D!Armed(mode, statement.keyword, FALSE)
           p == [a EXCEPT !.past = {}, !.from = {}]
           q == [b EXCEPT !.past = {}, !.from = {}]
           r == D!ReadEach(p, statement.reads, x, <<>>)
           s == D!ReadEach(q, statement.reads, y, given)
           c == D!Statement(a, statement, mode, TRUE, <<>>)
           d == D!Statement(b, statement, mode, FALSE, given)
<1>1. statement.keyword \in BOOLEAN /\ statement.reads \in Seq(D!Reading)
  BY DEF Statements
<1>2. /\ c = IF D!Done(a) THEN a ELSE D!PlaceTable(r, statement, mode)
      /\ d = IF D!Done(b) THEN b ELSE D!PlaceTable(s, statement, mode)
  BY DEF D!Statement
<1>3. /\ Gathered(p) /\ p.why = a.why /\ p.targets = a.targets /\ p.fields = a.fields
      /\ Gathered(q) /\ q.why = b.why /\ q.targets = b.targets /\ q.fields = b.fields
      /\ q.used = b.used /\ q.reads = b.reads
  BY DEF Pair, Kept, Gathered
<1> HIDE DEF p, q
<1>4. Pair(p, q, mode, given)
  BY <1>3 DEF Pair, Kept, Alike
<1>5. Pair(r, s, mode, given)
  BY <1>1, <1>4, EachBoth
<1> HIDE DEF c, d, r, s
<1>6. /\ Gathered(c) /\ (c.why = "none" => a.why = "none" /\ r.why = "none")
      /\ a.why = "none" => c.targets = r.targets /\ c.fields = r.fields
  <2>1. CASE a.why = "none"
    <3>1. Places(r, c)
      BY <1>2, <1>5, <2>1, PlaceIs DEF D!Done, Pair
    <3> QED BY <2>1, <3>1 DEF Places
  <2>2. CASE a.why # "none"
    BY <1>2, <2>2 DEF D!Done, Pair
  <2> QED BY <2>1, <2>2
<1>7. b.why # "none" => d = b
  BY <1>2 DEF D!Done
<1>8. b.why = "none" =>
        /\ Gathered(d) /\ d.targets = s.targets /\ d.fields = s.fields /\ d.used = s.used
        /\ d.reads = s.reads
        /\ d.why = "none" => s.why = "none"
        /\ d.why = "no decision" => s.why = "no decision"
  <2>1. b.why = "none" => Places(s, d)
    BY <1>2, <1>5, PlaceIs DEF D!Done, Pair, Kept
  <2> QED BY <2>1 DEF Places
<1>9. Kept(d, mode, given)
  <2>1. CASE b.why = "none"
    BY <1>5, <1>8, <2>1 DEF Pair, Kept
  <2>2. CASE b.why # "none"
    BY <1>7, <2>2 DEF Pair
  <2> QED BY <2>1, <2>2
<1>10. ASSUME c.why = "none" PROVE Alike(c, d, given)
  <2>1. a.why = "none" /\ Alike(a, b, given) /\ Alike(r, s, given)
        /\ c.targets = r.targets /\ c.fields = r.fields
    BY <1>5, <1>6, <1>10 DEF Pair
  <2>2. CASE b.why = "none"
    BY <1>8, <2>1, <2>2 DEF Alike
  <2>3. CASE b.why # "none"
    <3>1. d = b /\ s = q /\ q.why = b.why
      <4> HIDE DEF y
      <4> QED BY <1>1, <1>3, <1>7, <2>3, EachDone DEF s
    <3> QED BY <2>1, <2>3, <3>1 DEF Alike
  <2> QED BY <2>2, <2>3
<1> QED BY <1>6, <1>9, <1>10 DEF Pair, c, d

LEMMA BatchBoth ==
  ASSUME NEW tables, NEW mode \in D!Modes, NEW statements \in Batches, NEW given \in Supplied
  PROVE  Pair(D!Batch(tables, statements, mode, TRUE, <<>>),
              D!Batch(tables, statements, mode, FALSE, given), mode, given)
<1> DEFINE size == Len(statements)
<1>1. size \in Nat /\ \A n \in 1..size : statements[n] \in Statements
  <2>1. statements \in Seq(Statements)
    BY GivenAssumption, Zenon DEF D!AnswersAreTyped, Statements
  <2> QED BY <2>1
<1>2. PICK g : BatchTrace(g, tables, statements, mode, TRUE, <<>>)
  BY <1>1, BatchSteps
<1>3. PICK h : BatchTrace(h, tables, statements, mode, FALSE, given)
  BY <1>1, BatchSteps
<1> DEFINE P == {n \in Nat : n <= size => Pair(g[n], h[n], mode, given)}
<1>4. 0 \in P
  <2> DEFINE f == D!Fresh(tables)
  <2>1. /\ Gathered(f) /\ f.targets = {} /\ f.used = {} /\ f.reads = {} /\ f.why = "none"
    BY DEF D!Fresh, Gathered
  <2>2. g[0] = f /\ h[0] = f
    BY <1>2, <1>3 DEF BatchTrace
  <2> HIDE DEF f
  <2>3. Pair(f, f, mode, given)
    BY <2>1 DEF Pair, Kept, Alike, Backed
  <2> QED BY <2>2, <2>3
<1>5. ASSUME NEW n \in Nat, n \in P PROVE n + 1 \in P
  <2> SUFFICES ASSUME n + 1 <= size PROVE Pair(g[n + 1], h[n + 1], mode, given)
    OBVIOUS
  <2>1. n + 1 \in 1..size /\ (n + 1) - 1 = n /\ Pair(g[n], h[n], mode, given)
    BY <1>1, <1>5
  <2>2. statements[n + 1] \in Statements
    BY <1>1, <2>1
  <2>3. /\ g[n + 1] = D!Statement(g[n], statements[n + 1], mode, TRUE, <<>>)
        /\ h[n + 1] = D!Statement(h[n], statements[n + 1], mode, FALSE, given)
    BY <1>2, <1>3, <2>1 DEF BatchTrace
  <2>4. Pair(D!Statement(g[n], statements[n + 1], mode, TRUE, <<>>),
             D!Statement(h[n], statements[n + 1], mode, FALSE, given), mode, given)
    BY <2>1, <2>2, StatementBoth
  <2> QED BY <2>3, <2>4
<1> HIDE DEF P
<1>6. size \in P
  BY <1>1, <1>4, <1>5, Induction
<1>7. Pair(g[size], h[size], mode, given)
  BY <1>1, <1>6 DEF P
<1> QED BY <1>2, <1>3, <1>7 DEF BatchTrace

(* A lookup in the restricted mode passes by no decision.                   *)
LEMMA LookupIs ==
  ASSUME NEW tables, NEW target, NEW given \in Supplied
  PROVE  D!Read(D!Fresh(tables), [kind |-> "source", target |-> target],
                D!Armed("Restricted", FALSE, FALSE), given).past = {}
<1> DEFINE f == D!Fresh(tables)
           read == [kind |-> "source", target |-> target]
           y == D!Armed("Restricted", FALSE, FALSE)
           n == D!Read(f, read, y, given)
<1>1. Gathered(f) /\ f.why = "none" /\ f.past = {}
  BY DEF D!Fresh, Gathered
<1>2. read.kind \in Kinds /\ read.kind \in D!Tables
  BY DEF Kinds, D!Tables
<1>3. IsArmed(y) /\ ~y.inText /\ ~y.collecting /\ y.mode = "Restricted"
  BY ArmedIs DEF D!Modes
<1> HIDE DEF f, read, y
<1>4. Adds(f, n, read, y, given)
  BY <1>1, <1>2, <1>3, ReadIs
<1> HIDE DEF n
<1>5. n.past = {}
  BY <1>1, <1>2, <1>3, <1>4 DEF Adds
<1> QED BY <1>5 DEF n, f, read, y

(* What a compilation under answers comes to, beside the request.           *)
Answering(a, c, mode, given) ==
  /\ c.why # "prepared"
  /\ c.why = "none" => /\ c.targets = a.targets /\ c.fields = a.fields
                       /\ mode = "Restricted" => Backed(c.reads, given)
  /\ ~D!Duplicated(given) =>
       /\ (\A t \in a.targets : \E i \in DOMAIN given : D!Same(given[i].target, t))
            => c.why # "no decision"
       /\ (\A i \in DOMAIN given : \E t \in a.targets : D!Same(given[i].target, t))
            => c.why # "unused"

(* Of answers about different targets each is the answer to its own.        *)
LEMMA OwnAnswer ==
  ASSUME NEW given \in Supplied, ~D!Duplicated(given), NEW i \in DOMAIN given, NEW t,
         D!Same(given[i].target, t)
  PROVE  D!AnswerFor(given, t) = i
<1> DEFINE k == D!AnswerFor(given, t)
<1>1. k \in DOMAIN given /\ D!Same(given[k].target, t)
  BY AnswerIs
<1> HIDE DEF k
<1>2. D!Same(given[k].target, given[i].target) /\ D!Same(given[i].target, given[k].target)
  BY <1>1, SameTarget
<1>3. i \in Nat /\ k \in Nat
  BY <1>1, SuppliedType
<1>4. ~(i < k) /\ ~(k < i)
  BY <1>1, <1>2 DEF D!Duplicated
<1>5. k = i
  BY <1>3, <1>4
<1> QED BY <1>5 DEF k

LEMMA CompileIs ==
  ASSUME NEW tables, NEW mode \in D!Modes, NEW statements \in Batches, NEW given \in Answers,
         D!Batch(tables, statements, mode, TRUE, <<>>).why = "none"
  PROVE  Answering(D!Batch(tables, statements, mode, TRUE, <<>>),
                   IF D!Duplicated(given) THEN D!Fail(D!Fresh(tables), "duplicate")
                   ELSE D!Checked(D!Batch(tables, statements, mode, FALSE, given), given),
                   mode, given)
<1> DEFINE a == D!Batch(tables, statements, mode, TRUE, <<>>)
           b == D!Batch(tables, statements, mode, FALSE, given)
           lost == D!Fail(D!Fresh(tables), "duplicate")
           c == IF D!Duplicated(given) THEN lost ELSE D!Checked(b, given)
<1>0. given \in Supplied
  BY DEF Supplied
<1>1. Pair(a, b, mode, given)
  BY <1>0, BatchBoth
<1> HIDE DEF a, b
<1>2. Kept(b, mode, given) /\ Alike(a, b, given)
  BY <1>1 DEF Pair, a
<1>3. CASE D!Duplicated(given)
  <2>1. lost.why = "duplicate"
    BY DEF D!Fail, D!Fresh
  <2> HIDE DEF lost
  <2>2. c.why = "duplicate"
    BY <1>3, <2>1
  <2> HIDE DEF c
  <2>3. Answering(a, c, mode, given)
    BY <1>3, <2>2 DEF Answering
  <2> QED BY <2>3 DEF c, a, b, lost
<1>4. CASE ~D!Duplicated(given)
  <2>1. c = IF b.why = "none" /\ b.used # DOMAIN given THEN [b EXCEPT !.why = "unused"] ELSE b
    BY <1>4 DEF D!Checked, D!Done, D!Fail
  <2>2. b.why = "no decision" => \E t \in a.targets : \A i \in DOMAIN given : ~D!Same(given[i].target, t)
    BY <1>0, <1>2, AnswerIs DEF Alike
  <2>3. ASSUME b.why = "none", NEW i \in DOMAIN given, NEW t \in a.targets, D!Same(given[i].target, t)
        PROVE  i \in b.used
    <3>1. t \in b.targets
      BY <1>2, <2>3 DEF Alike
    <3>2. D!AnswerFor(given, t) = i /\ i # 0
      BY <1>0, <1>4, <2>3, OwnAnswer, SuppliedType
    <3> QED BY <1>2, <3>1, <3>2 DEF Kept
  <2>4. b.used \subseteq DOMAIN given
    BY <1>2 DEF Kept
  <2> HIDE DEF c
  <2>5. CASE b.why = "none" /\ b.used # DOMAIN given
    <3>1. c.why = "unused"
      BY <1>2, <2>1, <2>5 DEF Kept, Gathered
    <3>2. ~(\A i \in DOMAIN given : \E t \in a.targets : D!Same(given[i].target, t))
      BY <2>3, <2>4, <2>5
    <3>3. Answering(a, c, mode, given)
      BY <3>1, <3>2 DEF Answering
    <3> QED BY <3>3 DEF c, a, b, lost
  <2>6. CASE ~(b.why = "none" /\ b.used # DOMAIN given)
    <3>1. c = b
      BY <2>1, <2>6
    <3>2. c.why # "prepared" /\ c.why # "unused"
      BY <1>2, <3>1 DEF Kept, Gathered
    <3>3. c.why = "none" => /\ c.targets = a.targets /\ c.fields = a.fields
                            /\ mode = "Restricted" => Backed(c.reads, given)
      BY <1>2, <3>1 DEF Kept, Alike
    <3>4. (\A t \in a.targets : \E i \in DOMAIN given : D!Same(given[i].target, t))
            => c.why # "no decision"
      BY <2>2, <3>1
    <3>5. Answering(a, c, mode, given)
      BY <3>2, <3>3, <3>4 DEF Answering
    <3> QED BY <3>5 DEF c, a, b, lost
  <2> QED BY <2>5, <2>6
<1> QED BY <1>3, <1>4

-----------------------------------------------------------------------------
(* Between its preparation and its compilation a batch has the request the  *)
(* collecting pass finds under the tables there are.                        *)
InvPrepared ==
  /\ prepared # D!NoBatch => prepared.statements \in Batches /\ prepared.mode \in D!Modes
  /\ answers \in Supplied
  /\ prepared # D!NoBatch /\ outcome.why = "prepared" =>
       LET a == D!Batch(manager, prepared.statements, prepared.mode, TRUE, <<>>)
       IN a.why = "none" /\ prepared.targets = a.targets /\ prepared.fields = a.fields

InvDecisions == InvPrepared /\ RequestIsTheReads

(* A compilation answers as RequestIsTheReads says.                         *)
LEMMA CompiledAsAsked ==
  ASSUME InvPrepared, prepared # D!NoBatch, outcome.why = "prepared", NEW given \in Answers,
         UNCHANGED prepared, answers' = given, asked' = {},
         outcome' = IF D!Duplicated(given) THEN D!Fail(D!Fresh(manager), "duplicate")
                    ELSE D!Checked(D!Batch(manager, prepared.statements, prepared.mode, FALSE, given), given)
  PROVE  RequestIsTheReads' /\ outcome'.why # "prepared"
<1> DEFINE a == D!Batch(manager, prepared.statements, prepared.mode, TRUE, <<>>)
           mode == prepared.mode
           c == outcome'
<1>1. /\ a.why = "none" /\ prepared.targets = a.targets /\ prepared.fields = a.fields
      /\ mode \in D!Modes /\ prepared.statements \in Batches
  BY DEF InvPrepared
<1>2. Answering(a, c, mode, given)
  BY <1>1, CompileIs
<1> HIDE DEF a, c
<1>3. c.why = "none" /\ mode = "Restricted" =>
        \A r \in c.reads : ~r.inText => \E i \in DOMAIN given : /\ D!Same(given[i].target, r.target)
                                                               /\ given[i].verdict = r.verdict
  BY <1>2 DEF Answering, Backed
<1>4. (D!EveryReadDecided)'
  BY <1>3 DEF D!EveryReadDecided, D!Compiled, D!Done, D!Applied, D!Same, c
<1>5. (D!TextsUnreported)'
  BY <1>1, <1>2 DEF D!TextsUnreported, D!Compiled, D!Done, Answering, c
<1>6. (D!RequestSuffices)'
  <2> DEFINE listed == {given[i].target : i \in DOMAIN given}
             twice == D!Duplicated(given)
  <2>1. ~twice =>
          /\ (\A t \in prepared.targets : \E x \in listed : D!Same(x, t)) => c.why # "no decision"
          /\ (\A x \in listed : \E t \in prepared.targets : D!Same(x, t)) => c.why # "unused"
    BY <1>1, <1>2 DEF Answering
  <2>2. (D!Listed)' = listed /\ (D!Duplicated(answers)' <=> twice)
    BY DEF D!Listed, D!Duplicated, D!Same
  <2> HIDE DEF listed, twice
  <2> QED BY <2>1, <2>2 DEF D!RequestSuffices, D!Same, c
<1> QED BY <1>2, <1>4, <1>5, <1>6 DEF RequestIsTheReads, D!RequestIsTheReads, Answering, c

(* What was asked and answered suffices as long as neither changes.         *)
LEMMA SameRequests ==
  ASSUME UNCHANGED <<prepared, answers, outcome>>, D!RequestSuffices, D!TextsUnreported
  PROVE  (D!RequestSuffices)' /\ (D!TextsUnreported)'
<1>1. (D!TextsUnreported)'
  BY DEF D!TextsUnreported, D!Compiled, D!Done
<1>2. (D!Listed)' = D!Listed /\ (D!Duplicated(answers)' <=> D!Duplicated(answers))
  BY DEF D!Listed, D!Duplicated, D!Same
<1> DEFINE listed == D!Listed
           twice == D!Duplicated(answers)
<1>3. prepared # D!NoBatch /\ ~twice =>
        /\ (\A t \in prepared.targets : \E a \in listed : D!Same(a, t)) => outcome.why # "no decision"
        /\ (\A a \in listed : \E t \in prepared.targets : D!Same(a, t)) => outcome.why # "unused"
  BY DEF D!RequestSuffices
<1>4. listed' = listed /\ (twice' <=> twice)
  BY <1>2
<1>5. (D!RequestSuffices)' <=>
        (prepared' # D!NoBatch /\ ~twice' =>
          /\ (\A t \in prepared'.targets : \E a \in listed' : D!Same(a, t)) => outcome'.why # "no decision"
          /\ (\A a \in listed' : \E t \in prepared'.targets : D!Same(a, t)) => outcome'.why # "unused")
  <2> HIDE DEF listed, twice
  <2> QED BY DEF D!RequestSuffices, listed, twice, D!Same
<1> HIDE DEF listed, twice
<1> QED BY <1>1, <1>3, <1>4, <1>5

(* What a restricted batch reads is what its request asked about, answered  *)
(* (decide, refuse_unfiltered_read, in_restriction, check_decisions_used).  *)
THEOREM RequestsHold == D!DecisionsSpec => []RequestIsTheReads
<1>1. D!DecisionsInit => InvDecisions
  <2> SUFFICES ASSUME D!DecisionsInit PROVE InvDecisions
    OBVIOUS
  <2>1. prepared = D!NoBatch /\ answers = <<>>
    BY DEF D!DecisionsInit
  <2> QED BY <2>1 DEF InvDecisions, InvPrepared, Supplied, RequestIsTheReads, D!RequestIsTheReads,
             D!EveryReadDecided, D!RequestSuffices, D!TextsUnreported, D!Compiled
<1>2. InvDecisions /\ [D!DecisionsNext]_decisions => InvDecisions'
  <2> SUFFICES ASSUME InvDecisions, [D!DecisionsNext]_decisions PROVE InvDecisions'
    OBVIOUS
  <2> USE DEF InvDecisions
  <2>1. CASE D!Prepare
    <3>1. PICK batch \in Batches, mode \in D!Modes :
            LET c == D!Batch(manager, batch, mode, TRUE, <<>>)
            IN /\ prepared' = IF D!Done(c) THEN D!NoBatch
                              ELSE [statements |-> batch, mode |-> mode, targets |-> c.targets,
                                    fields |-> c.fields]
               /\ outcome' = [D!Fresh(manager) EXCEPT !.why = IF D!Done(c) THEN c.why ELSE "prepared"]
      BY <2>1 DEF D!Prepare
    <3> DEFINE c == D!Batch(manager, batch, mode, TRUE, <<>>)
    <3>2. answers' = <<>> /\ asked' = {} /\ manager' = manager
      BY <2>1 DEF D!Prepare
    <3>3. outcome'.why = IF c.why # "none" THEN c.why ELSE "prepared"
      BY <3>1 DEF D!Fresh, D!Done
    <3>4. prepared' # D!NoBatch =>
            /\ c.why = "none" /\ outcome'.why = "prepared"
            /\ prepared'.statements = batch /\ prepared'.mode = mode
            /\ prepared'.targets = c.targets /\ prepared'.fields = c.fields
      <4> HIDE DEF c
      <4>1. c.why = "none" => outcome'.why = "prepared"
        BY <3>3
      <4>2. c.why # "none" => prepared' = D!NoBatch
        BY <3>1 DEF D!Done, c
      <4>3. c.why = "none" => prepared' = [statements |-> batch, mode |-> mode, targets |-> c.targets,
                                            fields |-> c.fields]
        BY <3>1 DEF D!Done, c
      <4> QED BY <4>1, <4>2, <4>3
    <3>5. InvPrepared'
      BY <3>2, <3>4 DEF InvPrepared, Supplied
    <3>6. RequestIsTheReads'
      BY <3>4 DEF RequestIsTheReads, D!RequestIsTheReads, D!EveryReadDecided, D!RequestSuffices,
                  D!TextsUnreported, D!Compiled, D!Done
    <3> QED BY <3>5, <3>6
  <2>2. CASE D!Compile
    <3>1. PICK given \in Answers :
            /\ answers' = given
            /\ outcome' = IF D!Duplicated(given) THEN D!Fail(D!Fresh(manager), "duplicate")
                          ELSE D!Checked(D!Batch(manager, prepared.statements, prepared.mode, FALSE, given), given)
      BY <2>2 DEF D!Compile
    <3>2. prepared # D!NoBatch /\ outcome.why = "prepared" /\ asked' = {} /\ prepared' = prepared
      BY <2>2 DEF D!Compile
    <3>3. RequestIsTheReads' /\ outcome'.why # "prepared"
      BY <3>1, <3>2, CompiledAsAsked
    <3>4. InvPrepared'
      BY <3>1, <3>2, <3>3 DEF InvPrepared, Supplied
    <3> QED BY <3>3, <3>4
  <2>3. CASE D!Lookup
    <3>1. /\ prepared # D!NoBatch /\ outcome.why = "none"
          /\ UNCHANGED <<manager, prepared, answers, outcome>>
      BY <2>3 DEF D!Lookup, D!Done
    <3>2. PICK target :
            LET armed == D!Armed(prepared.mode, FALSE, FALSE)
                c == D!Read(D!Fresh(manager), [kind |-> "source", target |-> target], armed, answers)
            IN asked' = asked \cup {[target |-> target, ok |-> ~D!Done(c), past |-> c.past # {}]}
      BY <2>3 DEF D!Lookup
    <3>3. prepared.mode = "Restricted" => \A x \in asked' : x \in asked \/ ~x.past
      <4> DEFINE c == D!Read(D!Fresh(manager), [kind |-> "source", target |-> target],
                             D!Armed("Restricted", FALSE, FALSE), answers)
                 x == [target |-> target, ok |-> ~D!Done(c), past |-> c.past # {}]
      <4>1. c.past = {}
        BY LookupIs DEF InvPrepared
      <4>2. prepared.mode = "Restricted" => asked' = asked \cup {x}
        BY <3>2
      <4>3. ~x.past
        BY <4>1
      <4> HIDE DEF x
      <4> QED BY <4>2, <4>3
    <3>4. InvPrepared'
      BY <3>1 DEF InvPrepared
    <3>5. (D!EveryReadDecided)'
      BY <3>1, <3>3 DEF RequestIsTheReads, D!RequestIsTheReads, D!EveryReadDecided, D!Compiled, D!Done,
                        D!Applied, D!Same
    <3>6. (D!RequestSuffices)' /\ (D!TextsUnreported)'
      BY <3>1, SameRequests DEF RequestIsTheReads, D!RequestIsTheReads
    <3> QED BY <3>4, <3>5, <3>6 DEF RequestIsTheReads, D!RequestIsTheReads
  <2>4. CASE UNCHANGED decisions
    <3>1. UNCHANGED <<manager, prepared, answers, outcome, asked>>
      BY <2>4 DEF decisions
    <3>2. InvPrepared'
      BY <3>1 DEF InvPrepared
    <3>3. (D!EveryReadDecided)'
      BY <3>1 DEF RequestIsTheReads, D!RequestIsTheReads, D!EveryReadDecided, D!Compiled, D!Done,
                  D!Applied, D!Same
    <3>4. (D!RequestSuffices)' /\ (D!TextsUnreported)'
      BY <3>1, SameRequests DEF RequestIsTheReads, D!RequestIsTheReads
    <3> QED BY <3>2, <3>3, <3>4 DEF RequestIsTheReads, D!RequestIsTheReads
  <2> QED BY <2>1, <2>2, <2>3, <2>4 DEF D!DecisionsNext
<1>3. InvDecisions => RequestIsTheReads
  BY DEF InvDecisions
<1> QED BY <1>1, <1>2, <1>3, PTL DEF D!DecisionsSpec, decisions
=============================================================================
