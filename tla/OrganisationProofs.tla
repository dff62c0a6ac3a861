--------------------------- MODULE OrganisationProofs ---------------------------
(***************************************************************************)
(* What holds of Organisation for every set of users and companies.        *)
(***************************************************************************)
EXTENDS Organisation, TLAPS

-----------------------------------------------------------------------------
(***************************************************************************)
(* Type correctness.                                                       *)
(***************************************************************************)

\* Adding sides to a role makes a platform role of it.
LEMMA WithSideType ==
    ASSUME NEW r, NEW side \in Sides
    PROVE  WithSide(r, side) \in PlatformRoles
BY DEF WithSide, Other, Sides, PlatformRoles

\* The individual sides of a role are sides.
LEMMA SidesForRoleType == \A r : SidesForRole(r) \subseteq Sides
BY DEF SidesForRole, Sides

\* The wizard leaves its user with a platform role, and the sides of the
\* company among those of the user.
LEMMA EnsureRolesType ==
    ASSUME TypeOK, NEW u \in Users, NEW types \in SUBSET Sides, types # {},
           EnsureRoles(u, types)
    PROVE  /\ role' \in [Users -> PlatformRoles \cup StaffRoles \cup {"none"}]
           /\ individual' \in [Users -> SUBSET Sides]
<1>1. (CHOOSE side \in types : TRUE) \in Sides
  OBVIOUS
<1>2. role'[u] \in PlatformRoles
  BY <1>1, WithSideType DEF EnsureRoles, TypeOK, Sides
<1> QED
  BY <1>2 DEF EnsureRoles, TypeOK

\* sync_company_actors writes the states and levels an actor may have.
LEMMA SyncType ==
    ASSUME TypeOK, NEW c \in Companies, NEW types \in SUBSET Sides, NEW verification,
           SyncCompanyActors(c, types, verification)
    PROVE  /\ actor' \in [Companies -> [Sides -> {"absent", "on", "off"}]]
           /\ trust' \in [Companies -> [Sides -> {"none", "standard", "verified"}]]
BY DEF SyncCompanyActors, TypeOK, TrustLevel

\* A company with a main side is a row of the table.
LEMMA NoCompanyType == NoCompany \in Row
BY DEF NoCompany, Row, VerificationStatus, OperationalStatus

LEMMA TypeInit == Init => TypeOK
<1> SUFFICES ASSUME Init PROVE TypeOK
  OBVIOUS
<1>1. Legacy \subseteq Row
  BY DEF Legacy, Row, VerificationStatus, OperationalStatus
<1>2. company \in [Companies -> Row]
  BY <1>1, NoCompanyType DEF Init
<1>3. member \in [Companies -> [Users -> CompanyRole \cup {"none"}]]
  BY DEF Init, CompanyRole
<1>4. status \in [Users -> UserStatus]
  BY DEF Init, UserStatus
<1> QED
  BY <1>2, <1>3, <1>4 DEF Init, TypeOK

\* The requests of users about themselves.
LEMMA AccountType ==
    ASSUME TypeOK, AccountStep, UNCHANGED serving
    PROVE  TypeOK'
<1> USE DEF companies
<1>1. ASSUME NEW u \in Users, NEW r \in PlatformRoles, Register(u, r) PROVE TypeOK'
  BY <1>1, SidesForRoleType DEF Register, TypeOK
<1>2. ASSUME NEW u \in Users, GetMe(u) PROVE TypeOK'
  BY <1>2, SidesForRoleType DEF GetMe, TypeOK
<1>3. ASSUME NEW u \in Users, NEW c \in Companies, SwitchCompany(u, c) PROVE TypeOK'
  BY <1>2, <1>3 DEF SwitchCompany
<1>4. ASSUME NEW u \in Users, NEW side \in Sides, ActivateRole(u, side) PROVE TypeOK'
  <2>1. WithSide(role[u], side) \in PlatformRoles
    BY WithSideType
  <2>2. SidesForRole(role'[u]) \subseteq Sides
    BY SidesForRoleType
  <2> QED
    BY <1>4, <2>1, <2>2 DEF ActivateRole, TypeOK
<1> QED
  BY <1>1, <1>2, <1>3, <1>4 DEF AccountStep

\* The requests about a company and its team.
LEMMA CompanyType ==
    ASSUME TypeOK, CompanyStep, UNCHANGED serving
    PROVE  TypeOK'
<1>1. ASSUME NEW u \in Users, NEW c \in Companies, NEW route \in Sides,
             CreateFromWizard(u, c, route)
      PROVE  TypeOK'
  <2>1. PICK requested \in SUBSET Sides, main \in Sides :
          /\ company' = [company EXCEPT ![c] = [NoCompany EXCEPT !.owner = u, !.main = main]]
          /\ EnsureRoles(u, requested \cup {route})
          /\ SyncCompanyActors(c, requested \cup {route}, "pending")
    BY <1>1 DEF CreateFromWizard
  <2>2. [NoCompany EXCEPT !.owner = u, !.main = main] \in Row
    BY <2>1 DEF NoCompany, Row, VerificationStatus, OperationalStatus
  <2>3. company' \in [Companies -> Row]
    BY <2>1, <2>2 DEF TypeOK
  <2>4. member' \in [Companies -> [Users -> CompanyRole \cup {"none"}]]
    <3>1. PICK team \in Teams(u) : member' = [member EXCEPT ![c] = [team EXCEPT ![u] = "director"]]
      BY <1>1 DEF CreateFromWizard
    <3>2. [team EXCEPT ![u] = "director"] \in [Users -> CompanyRole \cup {"none"}]
      BY DEF Teams, CompanyRole
    <3> QED
      BY <3>1, <3>2 DEF TypeOK
  <2>5. /\ role' \in [Users -> PlatformRoles \cup StaffRoles \cup {"none"}]
        /\ individual' \in [Users -> SUBSET Sides]
    BY <2>1, EnsureRolesType
  <2>6. /\ actor' \in [Companies -> [Sides -> {"absent", "on", "off"}]]
        /\ trust' \in [Companies -> [Sides -> {"none", "standard", "verified"}]]
    BY <2>1, SyncType
  <2> QED
    BY <1>1, <2>3, <2>4, <2>5, <2>6 DEF CreateFromWizard, TypeOK
<1>2. ASSUME NEW u \in Users, NEW c \in Companies, NEW types \in SUBSET Sides,
             NEW main \in Sides, UpdateCompany(u, c, types, main)
      PROVE  TypeOK'
  <2>0. company[c] \in Row
    BY DEF TypeOK
  <2>1. [company[c] EXCEPT !.main = main] \in Row
    BY <2>0 DEF Row
  <2>2. company' \in [Companies -> Row]
    BY <1>2, <2>1 DEF UpdateCompany, TypeOK
  <2> QED
    BY <1>2, <2>2, SyncType DEF UpdateCompany, TypeOK
<1>3. ASSUME NEW u \in Users, NEW c \in Companies, NEW w \in Users, NEW r \in CompanyRole,
             AddTeamMember(u, c, w, r)
      PROVE  TypeOK'
  BY <1>3 DEF AddTeamMember, TypeOK
<1>4. ASSUME NEW u \in Users, NEW c \in Companies, NEW w \in Users,
             RemoveTeamMember(u, c, w)
      PROVE  TypeOK'
  BY <1>4 DEF RemoveTeamMember, TypeOK
<1> QED
  BY <1>1, <1>2, <1>3, <1>4 DEF CompanyStep

\* The decisions of the staff.
LEMMA AdminType ==
    ASSUME TypeOK, AdminStep, UNCHANGED serving
    PROVE  TypeOK'
<1>1. ASSUME NEW a \in Users, NEW c \in Companies, NEW v \in VerificationStatus, Verify(a, c, v)
      PROVE  TypeOK'
  <2>0. company[c] \in Row
    BY DEF TypeOK
  <2>1. [company[c] EXCEPT !.verification = v] \in Row
    BY <2>0 DEF Row
  <2> QED
    BY <1>1, <2>1 DEF Verify, TypeOK
<1>2. ASSUME NEW a \in Users, NEW c \in Companies, NEW o \in OperationalStatus, Operate(a, c, o)
      PROVE  TypeOK'
  <2>0. company[c] \in Row
    BY DEF TypeOK
  <2>1. [company[c] EXCEPT !.operational = o] \in Row
    BY <2>0 DEF Row
  <2>2. company' \in [Companies -> Row]
    BY <1>2, <2>1 DEF Operate, TypeOK
  <2>3. actor' \in [Companies -> [Sides -> {"absent", "on", "off"}]]
    BY <1>2 DEF Operate, TypeOK
  <2> QED
    BY <1>2, <2>2, <2>3 DEF Operate, TypeOK
<1>3. ASSUME NEW a \in Users, NEW u \in Users, NEW new \in UserStatus,
             UpdateUserStatus(a, u, new)
      PROVE  TypeOK'
  BY <1>3 DEF UpdateUserStatus, TypeOK, companies
<1> QED
  BY <1>1, <1>2, <1>3 DEF AdminStep

\* The backfill of a start.
LEMMA StartType ==
    ASSUME TypeOK, Start
    PROVE  TypeOK'
<1>1. individual' \in [Users -> SUBSET Sides]
  BY SidesForRoleType DEF Start, Backfill, TypeOK
<1>2. /\ actor' \in [Companies -> [Sides -> {"absent", "on", "off"}]]
      /\ trust' \in [Companies -> [Sides -> {"none", "standard", "verified"}]]
  BY DEF Start, Backfill, TypeOK, TrustLevel
<1> QED
  BY <1>1, <1>2 DEF Start, TypeOK

\* Every reachable state is well typed: the roles, rows and actors of the
\* handlers of AuthService, CompanyService and AdminService.
THEOREM TypeCorrect == Spec => []TypeOK
<1>1. TypeOK /\ [Next]_vars => TypeOK'
  <2> SUFFICES ASSUME TypeOK, [Next]_vars PROVE TypeOK'
    OBVIOUS
  <2>1. CASE Next
    BY <2>1, AccountType, CompanyType, AdminType, StartType DEF Next, Stop, TypeOK, companies
  <2>2. CASE UNCHANGED vars
    BY <2>2 DEF vars, TypeOK
  <2> QED
    BY <2>1, <2>2
<1> QED
  BY <1>1, TypeInit, PTL DEF Spec
-----------------------------------------------------------------------------
(***************************************************************************)
(* Superadmins.                                                            *)
(***************************************************************************)

\* No handler makes a superadmin: a role changes to a platform role or not.
LEMMA RoleSteps ==
    ASSUME TypeOK, [Next]_vars, NEW u \in Users
    PROVE  role'[u] = role[u] \/ role'[u] \in PlatformRoles
<1> USE DEF TypeOK
<1>1. ASSUME NEW v \in Users, NEW r \in PlatformRoles, Register(v, r)
      PROVE  role'[u] = role[u] \/ role'[u] \in PlatformRoles
  BY <1>1 DEF Register
<1>2. ASSUME NEW v \in Users, NEW side \in Sides, ActivateRole(v, side)
      PROVE  role'[u] = role[u] \/ role'[u] \in PlatformRoles
  <2>1. WithSide(role[v], side) \in PlatformRoles
    BY WithSideType
  <2> QED
    BY <1>2, <2>1 DEF ActivateRole
<1>3. ASSUME NEW v \in Users, NEW c \in Companies, NEW route \in Sides,
             CreateFromWizard(v, c, route)
      PROVE  role'[u] = role[u] \/ role'[u] \in PlatformRoles
  <2>1. PICK requested \in SUBSET Sides : EnsureRoles(v, requested \cup {route})
    BY <1>3 DEF CreateFromWizard
  <2>2. (CHOOSE side \in requested \cup {route} : TRUE) \in Sides
    OBVIOUS
  <2>3. role' = [role EXCEPT ![v] = role'[v]] /\ role'[v] \in PlatformRoles
    BY <2>1, <2>2, WithSideType DEF EnsureRoles, Sides
  <2> QED
    BY <2>3
<1>4. CASE UNCHANGED role
  BY <1>4
<1> QED
  BY <1>1, <1>2, <1>3, <1>4
  DEF Next, vars, AccountStep, CompanyStep, AdminStep, GetMe, SwitchCompany, UpdateCompany,
      AddTeamMember, RemoveTeamMember, Verify, Operate, UpdateUserStatus, Start, Stop

\* A status changes by update_user_status only.
LEMMA StatusSteps ==
    ASSUME TypeOK, [Next]_vars
    PROVE  \/ UNCHANGED status
           \/ \E a, u \in Users, new \in UserStatus : UpdateUserStatus(a, u, new)
BY DEF Next, vars, AccountStep, CompanyStep, AdminStep, Register, GetMe, SwitchCompany,
       ActivateRole, CreateFromWizard, UpdateCompany, AddTeamMember, RemoveTeamMember,
       Verify, Operate, Start, Stop

\* No superadmin is ever blocked or set back to pending, whatever roles staff
\* give up in between: update_user_status outranks, activate_role only demotes.
THEOREM SuperadminsStayActive == Spec => []SuperadminIsNotBlocked
<1>1. Init => SuperadminIsNotBlocked
  BY DEF Init, SuperadminIsNotBlocked
<1>2. TypeOK /\ SuperadminIsNotBlocked /\ [Next]_vars => SuperadminIsNotBlocked'
  <2> SUFFICES ASSUME TypeOK, SuperadminIsNotBlocked, [Next]_vars,
                      NEW u \in Users, role'[u] = "superadmin"
               PROVE  status'[u] = "active"
    BY DEF SuperadminIsNotBlocked
  <2>1. role[u] = "superadmin"
    BY RoleSteps DEF PlatformRoles
  <2>2. status[u] = "active"
    BY <2>1 DEF SuperadminIsNotBlocked
  <2>3. ASSUME NEW a \in Users, NEW v \in Users, NEW new \in UserStatus,
               UpdateUserStatus(a, v, new)
        PROVE  status'[u] = "active"
    <3>1. Rank(role[u]) = 3 /\ Rank(role[a]) <= 3
      BY <2>1 DEF Rank
    <3>2. u # v
      BY <2>3, <3>1 DEF UpdateUserStatus, Outranks, Rank
    <3> QED
      BY <2>2, <2>3, <3>2 DEF UpdateUserStatus, TypeOK
  <2> QED
    BY <2>2, <2>3, StatusSteps
<1> QED
  BY <1>1, <1>2, TypeCorrect, PTL DEF Spec

-----------------------------------------------------------------------------
(***************************************************************************)
(* Disabled sides.                                                         *)
(***************************************************************************)

\* Who writes the actors of companies.
LEMMA ActorSteps ==
    ASSUME TypeOK, [Next]_vars
    PROVE  \/ UNCHANGED <<actor, trust>>
           \/ \E c \in Companies, types \in SUBSET Sides, verification \in VerificationStatus :
                  SyncCompanyActors(c, types, verification)
           \/ /\ UNCHANGED trust
              /\ \E a \in Users, c \in Companies, o \in OperationalStatus : Operate(a, c, o)
           \/ Backfill
<1>1. ASSUME NEW u \in Users, NEW c \in Companies, NEW route \in Sides,
             CreateFromWizard(u, c, route)
      PROVE  \E types \in SUBSET Sides : SyncCompanyActors(c, types, "pending")
  BY <1>1 DEF CreateFromWizard
<1>2. ASSUME NEW u \in Users, NEW c \in Companies, NEW types \in SUBSET Sides,
             NEW main \in Sides, UpdateCompany(u, c, types, main)
      PROVE  \E verification \in VerificationStatus : SyncCompanyActors(c, types, verification)
  <2>1. company[c].verification \in VerificationStatus
    BY DEF TypeOK, Row
  <2> QED
    BY <1>2, <2>1 DEF UpdateCompany
<1>3. ASSUME NEW a \in Users, NEW c \in Companies, NEW o \in OperationalStatus, Operate(a, c, o)
      PROVE  UNCHANGED trust
  BY <1>3 DEF Operate
<1> USE DEF VerificationStatus
<1>4. CASE CompanyStep
  BY <1>1, <1>2, <1>4 DEF CompanyStep, AddTeamMember, RemoveTeamMember
<1>5. CASE AccountStep
  BY <1>5 DEF AccountStep, Register, GetMe, SwitchCompany, ActivateRole, companies
<1>6. CASE AdminStep
  BY <1>3, <1>6 DEF AdminStep, Verify, UpdateUserStatus, companies
<1>7. CASE Start \/ Stop \/ UNCHANGED vars
  BY <1>7 DEF Start, Stop, companies, vars
<1> QED
  BY <1>4, <1>5, <1>6, <1>7 DEF Next

\* A disabled side of a company returns by the reactivation of an
\* administrator and by nothing else: sync_company_actors is refused by the
\* unique index, the backfill of a start is for companies without actors.
THEOREM DisabledSidesReturnByAdmin == Spec => DisabledSideReturnsOnlyByAdmin
<1>1. ASSUME TypeOK, [Next]_vars, NEW c \in Companies, NEW side \in Sides,
             actor[c][side] = "off", actor'[c][side] = "on"
      PROVE  /\ company'[c].operational = "active"
             /\ \A s \in Sides : actor'[c][s] # "off"
             /\ \E a \in Users : IsStaff(a) /\ role[a] # "moderator"
  <2>1. ASSUME NEW d \in Companies, NEW types \in SUBSET Sides, NEW verification,
               SyncCompanyActors(d, types, verification)
        PROVE  FALSE
    BY <1>1, <2>1 DEF SyncCompanyActors, IndexAllowsActor, TypeOK
  <2>2. ~ Backfill
    BY <1>1 DEF Backfill, NoActorYet
  <2>3. PICK a \in Users, d \in Companies, o \in OperationalStatus : Operate(a, d, o)
    BY <1>1, <2>1, <2>2, ActorSteps
  <2>4. c = d /\ o = "active"
    BY <1>1, <2>3 DEF Operate, TypeOK
  <2>5. company'[c].operational = "active"
    <3>1. company[c] \in Row
      BY <1>1 DEF TypeOK
    <3> QED
      BY <1>1, <2>3, <2>4, <3>1 DEF Operate, TypeOK, Row
  <2>6. \A s \in Sides : actor'[c][s] # "off"
    BY <1>1, <2>3, <2>4 DEF Operate, TypeOK
  <2> QED
    BY <2>3, <2>5, <2>6 DEF Operate
<1>2. TypeOK /\ [Next]_vars =>
        [\A c \in Companies, side \in Sides :
          actor[c][side] = "off" /\ actor'[c][side] = "on" =>
              /\ company'[c].operational = "active"
              /\ \A s \in Sides : actor'[c][s] # "off"
              /\ \E a \in Users : IsStaff(a) /\ role[a] # "moderator"]_vars
  BY <1>1
<1> QED
  BY <1>2, TypeCorrect, PTL DEF Spec, DisabledSideReturnsOnlyByAdmin

-----------------------------------------------------------------------------
(***************************************************************************)
(* Trust.                                                                  *)
(***************************************************************************)

\* Whatever counts as verified, the company or one of its actors, was approved.
VerifiedInv ==
    \A c \in Companies :
        /\ company[c].verification = "verified" => c \in verified
        /\ \A side \in Sides : trust[c][side] = "verified" => c \in verified

\* An approval is never forgotten.
LEMMA VerifiedGrows ==
    ASSUME [Next]_vars
    PROVE  verified \subseteq verified'
BY DEF Next, vars, AccountStep, CompanyStep, AdminStep, Register, GetMe, SwitchCompany,
       ActivateRole, CreateFromWizard, UpdateCompany, AddTeamMember, RemoveTeamMember,
       Verify, Operate, UpdateUserStatus, Start, Stop, companies

\* A row becomes verified by the approval of an administrator only.
LEMMA VerificationSteps ==
    ASSUME TypeOK, [Next]_vars, NEW c \in Companies,
           company'[c].verification = "verified", company[c].verification # "verified"
    PROVE  c \in verified'
<1>0. \A d \in Companies : company[d] \in Row
  BY DEF TypeOK
<1>1. ASSUME NEW u \in Users, NEW d \in Companies, NEW route \in Sides,
             CreateFromWizard(u, d, route)
      PROVE  FALSE
  <2>1. PICK main : company' = [company EXCEPT ![d] = [NoCompany EXCEPT !.owner = u, !.main = main]]
    BY <1>1 DEF CreateFromWizard
  <2>2. [NoCompany EXCEPT !.owner = u, !.main = main].verification = "pending"
    BY DEF NoCompany
  <2> QED
    BY <2>1, <2>2 DEF TypeOK
<1>2. ASSUME NEW u \in Users, NEW d \in Companies, NEW types \in SUBSET Sides,
             NEW main \in Sides, UpdateCompany(u, d, types, main)
      PROVE  FALSE
  BY <1>0, <1>2 DEF UpdateCompany, TypeOK, Row
<1>3. ASSUME NEW a \in Users, NEW d \in Companies, NEW v \in VerificationStatus, Verify(a, d, v)
      PROVE  c \in verified'
  BY <1>0, <1>3 DEF Verify, TypeOK, Row
<1>4. ASSUME NEW a \in Users, NEW d \in Companies, NEW o \in OperationalStatus, Operate(a, d, o)
      PROVE  FALSE
  BY <1>0, <1>4 DEF Operate, TypeOK, Row
<1>5. CASE UNCHANGED company
  BY <1>5
<1> QED
  BY <1>1, <1>2, <1>3, <1>4, <1>5
  DEF Next, vars, AccountStep, CompanyStep, AdminStep, Register, GetMe, SwitchCompany,
      ActivateRole, AddTeamMember, RemoveTeamMember, UpdateUserStatus, Start, Stop, companies

\* An actor becomes trusted on behalf of a row that is verified.
LEMMA TrustSteps ==
    ASSUME TypeOK, VerifiedInv, [Next]_vars, NEW c \in Companies, NEW side \in Sides,
           trust'[c][side] = "verified", trust[c][side] # "verified"
    PROVE  company[c].verification = "verified"
<1>1. ASSUME NEW u \in Users, NEW d \in Companies, NEW route \in Sides,
             CreateFromWizard(u, d, route)
      PROVE  FALSE
  <2>1. PICK types \in SUBSET Sides : SyncCompanyActors(d, types, "pending")
    BY <1>1 DEF CreateFromWizard
  <2> QED
    BY <2>1 DEF SyncCompanyActors, TrustLevel, TypeOK
<1>2. ASSUME NEW u \in Users, NEW d \in Companies, NEW types \in SUBSET Sides,
             NEW main \in Sides, UpdateCompany(u, d, types, main)
      PROVE  company[c].verification = "verified"
  BY <1>2 DEF UpdateCompany, SyncCompanyActors, TrustLevel, TypeOK
<1>3. CASE Backfill
  BY <1>3 DEF Backfill, TrustLevel, TypeOK
<1>4. CASE UNCHANGED trust
  BY <1>4
<1> QED
  BY <1>1, <1>2, <1>3, <1>4
  DEF Next, vars, AccountStep, CompanyStep, AdminStep, Register, GetMe, SwitchCompany,
      ActivateRole, AddTeamMember, RemoveTeamMember, Verify, Operate, UpdateUserStatus,
      Start, Stop, companies

\* What the public pages and the actors show as verified was approved by an
\* administrator, however old the copies are (trust_level_for_company,
\* list_suppliers).
THEOREM TrustIsGranted == Spec => []VerifiedTrustWasGranted
<1>1. Init => VerifiedInv
  <2> SUFFICES ASSUME Init, NEW c \in Companies
               PROVE  /\ company[c].verification = "verified" => c \in verified
                      /\ \A side \in Sides : trust[c][side] # "verified"
    BY DEF VerifiedInv
  <2> QED
    BY DEF Init
<1>2. TypeOK /\ VerifiedInv /\ [Next]_vars => VerifiedInv'
  <2> SUFFICES ASSUME TypeOK, VerifiedInv, [Next]_vars, NEW c \in Companies
               PROVE  /\ company'[c].verification = "verified" => c \in verified'
                      /\ \A side \in Sides : trust'[c][side] = "verified" => c \in verified'
    BY DEF VerifiedInv
  <2> QED
    BY VerifiedGrows, VerificationSteps, TrustSteps DEF VerifiedInv
<1>3. VerifiedInv => VerifiedTrustWasGranted
  <2> SUFFICES ASSUME VerifiedInv, NEW p \in PublicSuppliers, "verified" \in {p.trust, p.verification}
               PROVE  p.party \in verified
    BY DEF VerifiedInv, VerifiedTrustWasGranted
  <2>1. PICK c \in Companies : p = [party |-> c, trust |-> trust[c]["supplier"],
                                    verification |-> company[c].verification]
    BY DEF PublicSuppliers
  <2> QED
    BY <2>1 DEF VerifiedInv, Sides
<1> QED
  BY <1>1, <1>2, <1>3, TypeCorrect, PTL DEF Spec

-----------------------------------------------------------------------------
(***************************************************************************)
(* Actors.                                                                 *)
(***************************************************************************)

\* The actors a served marketplace has: of every user, of every company.
UsersHaveActors == \A u \in Users : Capabilities(role[u]) \subseteq individual[u]
CompaniesHaveActors ==
    \A c \in Companies : Exists(c) => actor[c][company[c].main] # "absent"

\* A database holds all of these actors or, before its first start, none at all:
\* a start that fails after the backfill leaves them in place.
ActorInv ==
    /\ \A u \in Users : ~ Registered(u) => individual[u] = {}
    /\ \A c \in Companies : Exists(c) => company[c].main \in Sides
    /\ \A u \in Users : "supplier" \in individual[u] => "supplier" \in Capabilities(role[u])
    /\ serving => UsersHaveActors /\ CompaniesHaveActors
    /\ NoActorYet \/ (UsersHaveActors /\ CompaniesHaveActors)

\* The sides of a role, after one was added, are one more.
LEMMA WithSideCapabilities ==
    ASSUME NEW r, NEW side \in Sides
    PROVE  Capabilities(WithSide(r, side)) = Capabilities(r) \cup {side}
BY DEF Capabilities, WithSide, Other, Sides

\* The individual actors made for a role are those of its sides, but for the one
\* staff buy with.
LEMMA SidesForRoleCapabilities ==
    \A r : /\ Capabilities(r) \subseteq SidesForRole(r)
           /\ "supplier" \in SidesForRole(r) => "supplier" \in Capabilities(r)
BY DEF Capabilities, SidesForRole, Sides

\* The wizard gives its user the sides of the company, in the role and as actors.
LEMMA EnsureRolesCapabilities ==
    ASSUME TypeOK, NEW u \in Users, NEW types \in SUBSET Sides, types # {},
           EnsureRoles(u, types)
    PROVE  /\ Capabilities(role'[u]) = Capabilities(role[u]) \cup types
           /\ individual'[u] = individual[u] \cup types
           /\ \A v \in Users \ {u} : role'[v] = role[v] /\ individual'[v] = individual[v]
<1>1. CASE types = Sides
  <2>1. role'[u] = WithSide(WithSide(role[u], "buyer"), "supplier")
    BY <1>1 DEF EnsureRoles, TypeOK
  <2>2. Capabilities(role'[u]) = Capabilities(role[u]) \cup {"buyer"} \cup {"supplier"}
    BY <2>1, WithSideCapabilities DEF Sides
  <2> QED
    BY <1>1, <2>2 DEF EnsureRoles, TypeOK, Sides
<1>2. CASE types # Sides
  <2> DEFINE side == CHOOSE side \in types : TRUE
  <2>1. side \in types
    OBVIOUS
  <2>2. types = {side}
    BY <1>2, <2>1 DEF Sides
  <2>3. role'[u] = WithSide(role[u], side)
    BY <1>2 DEF EnsureRoles, TypeOK
  <2> HIDE DEF side
  <2>4. Capabilities(role'[u]) = Capabilities(role[u]) \cup {side}
    BY <2>1, <2>3, WithSideCapabilities
  <2> QED
    BY <1>2, <2>2, <2>4 DEF EnsureRoles, TypeOK
<1> QED
  BY <1>1, <1>2

\* What a step does to the sides of a user, as a role and as actors.
LEMMA UserSteps ==
    ASSUME TypeOK, [Next]_vars, NEW u \in Users,
           ~ Registered(u) => individual[u] = {}
    PROVE  /\ individual[u] \subseteq individual'[u]
           /\ Capabilities(role[u]) \subseteq individual[u] =>
                  Capabilities(role'[u]) \subseteq individual'[u]
           /\ ("supplier" \in individual[u] => "supplier" \in Capabilities(role[u])) =>
                  ("supplier" \in individual'[u] => "supplier" \in Capabilities(role'[u]))
<1> DEFINE Kept ==
        /\ individual[u] \subseteq individual'[u]
        /\ Capabilities(role[u]) \subseteq individual[u] =>
               Capabilities(role'[u]) \subseteq individual'[u]
        /\ ("supplier" \in individual[u] => "supplier" \in Capabilities(role[u])) =>
               ("supplier" \in individual'[u] => "supplier" \in Capabilities(role'[u]))
<1> USE SidesForRoleCapabilities
<1>1. ASSUME NEW v \in Users, NEW r \in PlatformRoles, Register(v, r)
      PROVE  Kept
  BY <1>1 DEF Register, Registered, TypeOK
<1>2. ASSUME NEW v \in Users, GetMe(v) PROVE Kept
  BY <1>2 DEF GetMe, TypeOK
<1>3. ASSUME NEW v \in Users, NEW side \in Sides, ActivateRole(v, side) PROVE Kept
  <2>1. Capabilities(WithSide(role[v], side)) = Capabilities(role[v]) \cup {side}
    BY WithSideCapabilities
  <2> QED
    BY <1>3, <2>1 DEF ActivateRole, TypeOK
<1>4. ASSUME NEW v \in Users, NEW c \in Companies, NEW route \in Sides,
             CreateFromWizard(v, c, route)
      PROVE  Kept
  <2>1. PICK requested \in SUBSET Sides : EnsureRoles(v, requested \cup {route})
    BY <1>4 DEF CreateFromWizard
  <2>2. /\ Capabilities(role'[v]) = Capabilities(role[v]) \cup requested \cup {route}
        /\ individual'[v] = individual[v] \cup requested \cup {route}
        /\ \A w \in Users \ {v} : role'[w] = role[w] /\ individual'[w] = individual[w]
    BY <2>1, EnsureRolesCapabilities
  <2> QED
    BY <2>2
<1>5. CASE Backfill /\ UNCHANGED role
  BY <1>5 DEF Backfill, TypeOK
<1>6. CASE UNCHANGED <<role, individual>>
  BY <1>6
<1> QED
  BY <1>1, <1>2, <1>3, <1>4, <1>5, <1>6
  DEF Next, vars, AccountStep, CompanyStep, AdminStep, SwitchCompany, UpdateCompany,
      AddTeamMember, RemoveTeamMember, Verify, Operate, UpdateUserStatus, Start, Stop

\* Nobody has an actor without an account.
LEMMA UnregisteredSteps ==
    ASSUME TypeOK, [Next]_vars, NEW u \in Users,
           ~ Registered(u) => individual[u] = {}, role'[u] = "none"
    PROVE  individual'[u] = {}
<1>1. role[u] = "none" /\ individual[u] = {}
  BY RoleSteps DEF PlatformRoles, Registered
<1>2. ASSUME NEW v \in Users, NEW r \in PlatformRoles, Register(v, r)
      PROVE  individual'[u] = {}
  BY <1>1, <1>2 DEF Register, TypeOK, PlatformRoles
<1>3. ASSUME NEW v \in Users, GetMe(v) PROVE individual'[u] = {}
  BY <1>1, <1>3 DEF GetMe, LoggedIn, Registered, TypeOK
<1>4. ASSUME NEW v \in Users, NEW side \in Sides, ActivateRole(v, side)
      PROVE  individual'[u] = {}
  BY <1>1, <1>4 DEF ActivateRole, LoggedIn, Registered, TypeOK
<1>5. ASSUME NEW v \in Users, NEW c \in Companies, NEW route \in Sides,
             CreateFromWizard(v, c, route)
      PROVE  individual'[u] = {}
  <2>1. u # v
    BY <1>1, <1>5 DEF CreateFromWizard, ActsOn, BuyerContext, SupplierContext, LoggedIn, Registered
  <2> QED
    BY <1>1, <1>5, <2>1 DEF CreateFromWizard, EnsureRoles, TypeOK
<1>6. CASE Start
  BY <1>1, <1>6 DEF Start, Backfill, Registered, TypeOK
<1>7. CASE UNCHANGED individual
  BY <1>1, <1>7
<1> QED
  BY <1>2, <1>3, <1>4, <1>5, <1>6, <1>7
  DEF Next, vars, AccountStep, CompanyStep, AdminStep, SwitchCompany, UpdateCompany,
      AddTeamMember, RemoveTeamMember, Verify, Operate, UpdateUserStatus, Stop

\* A company keeps an actor for its main side, whichever side that is.
LEMMA CompanySteps ==
    ASSUME TypeOK, ActorInv, [Next]_vars, NEW c \in Companies, ~ Start
    PROVE  /\ Exists(c)' => company'[c].main \in Sides
           /\ (Exists(c) => actor[c][company[c].main] # "absent") =>
                 (Exists(c)' => actor'[c][company'[c].main] # "absent")
<1> DEFINE Kept ==
        /\ Exists(c)' => company'[c].main \in Sides
        /\ (Exists(c) => actor[c][company[c].main] # "absent") =>
              (Exists(c)' => actor'[c][company'[c].main] # "absent")
<1>0. /\ \A d \in Companies : company[d] \in Row
      /\ Exists(c) => company[c].main \in Sides
  BY DEF TypeOK, ActorInv
<1>1. ASSUME NEW u \in Users, NEW d \in Companies, NEW route \in Sides,
             CreateFromWizard(u, d, route)
      PROVE  Kept
  <2>1. PICK requested \in SUBSET Sides, main \in Sides :
          /\ main \in requested \cup {route}
          /\ company' = [company EXCEPT ![d] = [NoCompany EXCEPT !.owner = u, !.main = main]]
          /\ SyncCompanyActors(d, requested \cup {route}, "pending")
    BY <1>1 DEF CreateFromWizard
  <2>2. [NoCompany EXCEPT !.owner = u, !.main = main].main = main
    BY DEF NoCompany
  <2>3. CASE c = d
    <3>1. company'[c].main = main
      BY <2>1, <2>2, <2>3 DEF TypeOK
    <3>2. actor'[c][main] = "on"
      BY <2>1, <2>3 DEF SyncCompanyActors, TypeOK
    <3> QED
      BY <3>1, <3>2
  <2>4. CASE c # d
    BY <1>0, <2>1, <2>4 DEF SyncCompanyActors, Exists, TypeOK
  <2> QED
    BY <2>3, <2>4
<1>2. ASSUME NEW u \in Users, NEW d \in Companies, NEW types \in SUBSET Sides,
             NEW main \in Sides, UpdateCompany(u, d, types, main)
      PROVE  Kept
  <2>1. Exists(d) /\ SyncCompanyActors(d, types, company[d].verification)
    BY <1>2 DEF UpdateCompany, CanManage
  <2>2. CASE c = d
    <3>1. company'[c].main = main
      BY <1>0, <1>2, <2>2 DEF UpdateCompany, TypeOK, Row
    <3>2. CASE types = {}
      BY <1>0, <1>2, <2>1, <2>2, <3>1, <3>2 DEF UpdateCompany, SyncCompanyActors, TypeOK
    <3>3. CASE types # {}
      BY <1>2, <2>1, <2>2, <3>1, <3>3 DEF UpdateCompany, SyncCompanyActors, TypeOK
    <3> QED
      BY <3>2, <3>3
  <2>3. CASE c # d
    BY <1>0, <1>2, <2>1, <2>3 DEF UpdateCompany, SyncCompanyActors, Exists, TypeOK
  <2> QED
    BY <2>2, <2>3
<1>3. ASSUME NEW a \in Users, NEW d \in Companies, NEW v \in VerificationStatus, Verify(a, d, v)
      PROVE  Kept
  BY <1>0, <1>3 DEF Verify, Exists, TypeOK, Row
<1>4. ASSUME NEW a \in Users, NEW d \in Companies, NEW o \in OperationalStatus, Operate(a, d, o)
      PROVE  Kept
  BY <1>0, <1>4 DEF Operate, Exists, TypeOK, Row
<1>5. CASE UNCHANGED <<company, actor>>
  BY <1>0, <1>5 DEF Exists
<1> QED
  BY <1>1, <1>2, <1>3, <1>4, <1>5
  DEF Next, vars, AccountStep, CompanyStep, AdminStep, Register, GetMe, SwitchCompany,
      ActivateRole, AddTeamMember, RemoveTeamMember, UpdateUserStatus, Stop, companies

\* The actors the backfill of a start leaves.
LEMMA StartActors ==
    ASSUME TypeOK, ActorInv, Start
    PROVE  /\ UsersHaveActors'
           /\ CompaniesHaveActors'
           /\ \A c \in Companies : Exists(c)' => company'[c].main \in Sides
<1>1. UsersHaveActors'
  <2> SUFFICES ASSUME NEW u \in Users PROVE Capabilities(role'[u]) \subseteq individual'[u]
    BY DEF UsersHaveActors
  <2>1. CASE Registered(u)
    BY <2>1, SidesForRoleCapabilities DEF Start, Backfill, TypeOK
  <2>2. CASE ~ Registered(u)
    BY <2>2 DEF Start, Registered, Capabilities, Sides
  <2> QED
    BY <2>1, <2>2
<1>2. \A c \in Companies : Exists(c)' => company'[c].main \in Sides
  BY DEF Start, ActorInv, Exists
<1>3. CompaniesHaveActors'
  <2>1. CASE NoActorYet
    BY <1>2, <2>1 DEF Start, Backfill, CompaniesHaveActors
  <2>2. CASE ~ NoActorYet
    BY <2>2 DEF Start, Backfill, ActorInv, CompaniesHaveActors, Exists
  <2> QED
    BY <2>1, <2>2
<1> QED
  BY <1>1, <1>2, <1>3

LEMMA ActorInit == Init => ActorInv
<1> SUFFICES ASSUME Init PROVE ActorInv
  OBVIOUS
<1>1. \A c \in Companies : Exists(c) => company[c].main \in Sides
  BY DEF Init, Legacy, Exists
<1>2. NoActorYet
  BY DEF Init, NoActorYet
<1> QED
  BY <1>1, <1>2 DEF Init, ActorInv

\* Whoever signed in has an actor for each side of its role, and each company one
\* for its main side: after the first start every handler that adds a side adds
\* the actor, and a start that fails half-way is made good by the next one.
THEOREM SidesHaveActors == Spec => []EverySideHasItsActor
<1>1. TypeOK /\ ActorInv /\ [Next]_vars => ActorInv'
  <2> SUFFICES ASSUME TypeOK, ActorInv, [Next]_vars PROVE ActorInv'
    OBVIOUS
  <2>1. \A u \in Users : ~ Registered(u)' => individual'[u] = {}
    BY UnregisteredSteps DEF ActorInv, Registered
  <2>2. \A u \in Users : "supplier" \in individual'[u] => "supplier" \in Capabilities(role'[u])
    BY UserSteps DEF ActorInv
  <2>3. CASE Start
    BY <2>1, <2>2, <2>3, StartActors DEF ActorInv
  <2>4. CASE ~ Start /\ serving
    <3>1. UsersHaveActors /\ CompaniesHaveActors
      BY <2>4 DEF ActorInv
    <3>2. UsersHaveActors'
      BY <3>1, UserSteps DEF UsersHaveActors, ActorInv
    <3>3. /\ CompaniesHaveActors'
          /\ \A c \in Companies : Exists(c)' => company'[c].main \in Sides
      BY <2>4, <3>1, CompanySteps DEF CompaniesHaveActors
    <3> QED
      BY <2>1, <2>2, <3>2, <3>3 DEF ActorInv
  <2>5. CASE ~ Start /\ ~ serving
    <3>1. UNCHANGED vars
      BY <2>5 DEF Next, Stop
    <3> QED
      BY <3>1 DEF vars, ActorInv, UsersHaveActors, CompaniesHaveActors, NoActorYet, Registered, Exists
  <2> QED
    BY <2>3, <2>4, <2>5
<1>2. ActorInv => EverySideHasItsActor
  BY DEF ActorInv, EverySideHasItsActor, UsersHaveActors, CompaniesHaveActors
<1> QED
  BY <1>1, <1>2, ActorInit, TypeCorrect, PTL DEF Spec
=============================================================================
