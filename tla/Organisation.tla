----------------------------- MODULE Organisation -----------------------------
(***************************************************************************)
(* Who may act on the marketplace: users with a platform role, companies   *)
(* with a team, and the actors (one per side, buyer or supplier) a user    *)
(* has alone or through a company.  The handlers are those of ActorService *)
(* and CompanyService, register and activate_role of AuthService, and      *)
(* update_user_status and apply_company_action of AdminService.  The       *)
(* server starts on a database an earlier version left without actors and  *)
(* is restarted at any time; each start backfills actors (db/schema.py).   *)
(*                                                                         *)
(* One request at a time: each action is a whole handler, with the check   *)
(* of require_buyer_ctx, require_supplier_ctx or require_admin in front.   *)
(***************************************************************************)
EXTENDS Integers, FiniteSets

CONSTANTS
    Users,
    Companies

VARIABLES
    role,           \* users.role; "none": not registered
    status,         \* users.status
    individual,     \* the sides a user has an individual actor for; none is ever disabled
    company,        \* the companies row
    member,         \* company_users: the role of a user in a company
    actor,          \* the company actor of each side: absent, "on" or "off"
    trust,          \* actors.trust_level of the company actors
    verified,       \* history: the companies an administrator has approved
    serving         \* does the server take requests?

vars == <<serving, role, status, individual, company, member, actor, trust, verified>>

-----------------------------------------------------------------------------
Sides == {"buyer", "supplier"}
PlatformRoles == {"buyer", "supplier", "both"}
StaffRoles == {"moderator", "admin", "superadmin"}
UserStatus == {"pending", "active", "blocked"}
CompanyRole == {"director", "admin", "moderator", "accountant"}
VerificationStatus == {"pending", "verified", "rejected", "needs_documents"}
OperationalStatus == {"active", "blocked", "deactivated"}

NoCompany == [owner |-> "nobody", main |-> "none",
              verification |-> "pending", operational |-> "active"]

Row == [owner        : Users \cup {"nobody"},
        main         : Sides \cup {"none"},
        verification : VerificationStatus,
        operational  : OperationalStatus]

Exists(c) == company[c] # NoCompany
Registered(u) == role[u] # "none"

\* sides_for_role: the individual actors of a user; staff get one to buy with.
SidesForRole(r) ==
    IF r = "both" THEN Sides
    ELSE IF r = "supplier" THEN {"supplier"} ELSE {"buyer"}

\* user_capabilities; staff have none.
Capabilities(r) == {s \in Sides : r \in {s, "both"}}

Other(side) == IF side = "buyer" THEN "supplier" ELSE "buyer"

\* get_current_user: only a blocked user is refused.
LoggedIn(u) == Registered(u) /\ status[u] # "blocked"

\* resolve_actor_id: an active actor of the side, alone or through a company.
HasActor(u, side) ==
    \/ side \in individual[u]
    \/ \E c \in Companies : member[c][u] # "none" /\ actor[c][side] = "on"

\* require_buyer_ctx and require_supplier_ctx want the role as well.
BuyerContext(u) == LoggedIn(u) /\ HasActor(u, "buyer") /\ role[u] \in {"buyer", "both"}
SupplierContext(u) == LoggedIn(u) /\ HasActor(u, "supplier") /\ role[u] \in {"supplier", "both"}
ActsOn(u, side) == IF side = "buyer" THEN BuyerContext(u) ELSE SupplierContext(u)

\* require_admin.
IsStaff(a) == LoggedIn(a) /\ role[a] \in StaffRoles

\* The company rows of the version without actors, which knew one side.
Legacy == [owner        : Users,
           main         : Sides,
           verification : {"pending", "verified"},
           operational  : {"active"}]

Init ==
    /\ serving = FALSE
    /\ role \in [Users -> PlatformRoles \cup StaffRoles \cup {"none"}]
    /\ status = [u \in Users |-> "active"]
    /\ individual = [u \in Users |-> {}]
    /\ company \in [Companies -> {NoCompany} \cup Legacy]
    /\ \A c \in Companies : Exists(c) => role[company[c].owner] \in PlatformRoles
    /\ member = [c \in Companies |-> [u \in Users |->
           IF company[c].owner = u THEN "director" ELSE "none"]]
    /\ actor = [c \in Companies |-> [side \in Sides |-> "absent"]]
    /\ trust = [c \in Companies |-> [side \in Sides |-> "none"]]
    /\ verified = {c \in Companies : company[c].verification = "verified"}

companies == <<company, member, actor, trust, verified>>

-----------------------------------------------------------------------------
(***************************************************************************)
(* AuthService: register, get_me, switch_company and activate_role.        *)
(***************************************************************************)
Register(u, r) ==
    /\ ~ Registered(u)
    /\ role' = [role EXCEPT ![u] = r]
    /\ individual' = [individual EXCEPT ![u] = SidesForRole(r)]
    /\ UNCHANGED <<status, companies>>

\* get_me, and with it switch_actor, inserts the actors that are missing.
GetMe(u) ==
    /\ LoggedIn(u)
    /\ individual' = [individual EXCEPT ![u] = @ \cup SidesForRole(role[u])]
    /\ UNCHANGED <<role, status, companies>>

\* "Company actor not found" when the main side is disabled.
SwitchCompany(u, c) ==
    /\ member[c][u] # "none"
    /\ \E side \in Sides : side = company[c].main /\ actor[c][side] = "on"
    /\ GetMe(u)

\* The role after a side was added; that of a staff member is replaced.
WithSideFaulty(r, side) == IF r = Other(side) THEN side ELSE r
WithSide(r, side) ==
    IF r = Other(side) THEN "both"
    ELSE IF r \in {side, "both"} THEN r
    ELSE side

ActivateRole(u, side) ==
    /\ LoggedIn(u)
    /\ role' = [role EXCEPT ![u] = WithSide(@, side)]
    /\ individual' = [individual EXCEPT ![u] = @ \cup {side} \cup SidesForRole(role'[u])]
    /\ UNCHANGED <<status, companies>>

-----------------------------------------------------------------------------
(***************************************************************************)
(* CompanyService.                                                         *)
(***************************************************************************)

\* trust_level_for_company.
TrustLevelFaulty(verification) ==
    IF verification \in {"verified", "pending"} THEN "verified" ELSE "standard"
TrustLevel(verification) == IF verification = "verified" THEN "verified" ELSE "standard"

\* ensure_company_actor looks for an active actor and otherwise inserts one,
\* which uq_actor_company_side refuses where a disabled one is left.
IndexAllowsActorFaulty(c, side) == TRUE
IndexAllowsActor(c, side) == actor[c][side] # "off"

SyncCompanyActors(c, types, verification) ==
    /\ \A side \in types : IndexAllowsActor(c, side)
    /\ actor' = [actor EXCEPT ![c] = [side \in Sides |->
           IF side \in types THEN "on"
           ELSE IF @[side] = "on" THEN "off" ELSE @[side]]]
    /\ trust' = [trust EXCEPT ![c] = [side \in Sides |->
           IF side \in types THEN TrustLevel(verification) ELSE @[side]]]

\* _ensure_roles_and_actors: the sides of the company become sides of its
\* creator.
EnsureRoles(u, types) ==
    /\ role' = [role EXCEPT ![u] =
           IF types = Sides THEN WithSide(WithSide(@, "buyer"), "supplier")
           ELSE WithSide(@, CHOOSE side \in types : TRUE)]
    /\ individual' = [individual EXCEPT ![u] = @ \cup types]

\* The team may not list the creator: uq_company_user; emails of nobody are
\* skipped.
Teams(u) ==
    {team \in [Users -> CompanyRole \cup {"none"}] :
        /\ team[u] = "none"
        /\ \A w \in Users : team[w] # "none" => Registered(w)}

\* The wizard of one side (route) adds that side in front unless it was asked
\* for; the first one asked for becomes the main one.
CreateFromWizard(u, c, route) ==
    /\ ActsOn(u, route)
    /\ ~ Exists(c)
    /\ \E requested \in SUBSET Sides :
          \E main \in IF route \in requested THEN requested ELSE {route} :
             LET types == requested \cup {route}
             IN  /\ company' = [company EXCEPT ![c] =
                        [NoCompany EXCEPT !.owner = u, !.main = main]]
                 /\ EnsureRoles(u, types)
                 /\ SyncCompanyActors(c, types, "pending")
    /\ \E team \in Teams(u) : member' = [member EXCEPT ![c] = [team EXCEPT ![u] = "director"]]
    /\ UNCHANGED <<status, verified>>

\* _ensure_can_manage, behind the context of either side.
CanManage(u, c) ==
    /\ Exists(c)
    /\ \E side \in Sides : ActsOn(u, side)
    /\ member[c][u] \in {"director", "admin"}

\* update_company with actor_types; an empty list disables both sides and
\* leaves the main one as it is.
UpdateCompany(u, c, types, main) ==
    /\ CanManage(u, c)
    /\ main \in IF types = {} THEN {company[c].main} ELSE types
    /\ company' = [company EXCEPT ![c].main = main]
    /\ SyncCompanyActors(c, types, company[c].verification)
    /\ UNCHANGED <<role, status, individual, member, verified>>

AddTeamMember(u, c, w, r) ==
    /\ CanManage(u, c)
    /\ Registered(w)
    /\ member[c][w] = "none"
    /\ member' = [member EXCEPT ![c][w] = r]
    /\ UNCHANGED <<role, status, individual, company, actor, trust, verified>>

\* "Cannot remove company director".
Removable(c, w) == member[c][w] \notin {"none", "director"}

RemoveTeamMember(u, c, w) ==
    /\ CanManage(u, c)
    /\ Removable(c, w)
    /\ member' = [member EXCEPT ![c][w] = "none"]
    /\ UNCHANGED <<role, status, individual, company, actor, trust, verified>>

-----------------------------------------------------------------------------
(***************************************************************************)
(* AdminService: apply_company_action and update_user_status.              *)
(***************************************************************************)

\* approve, reject, request_documents; the actors keep their trust level.
Verify(a, c, verification) ==
    /\ IsStaff(a)
    /\ Exists(c)
    /\ company' = [company EXCEPT ![c].verification = verification]
    /\ verified' = IF verification = "verified" THEN verified \cup {c} ELSE verified
    /\ UNCHANGED <<role, status, individual, member, actor, trust>>

\* block, deactivate, reactivate, on every actor the company has.
Operate(a, c, operational) ==
    /\ IsStaff(a)
    /\ role[a] # "moderator"
    /\ Exists(c)
    /\ company' = [company EXCEPT ![c].operational = operational]
    /\ actor' = [actor EXCEPT ![c] = [side \in Sides |->
           IF @[side] = "absent" THEN "absent"
           ELSE IF operational = "active" THEN "on" ELSE "off"]]
    /\ UNCHANGED <<role, status, individual, member, trust, verified>>

Rank(r) ==
    IF r = "superadmin" THEN 3
    ELSE IF r = "admin" THEN 2
    ELSE IF r = "moderator" THEN 1 ELSE 0

\* "You cannot change this staff account status".
OutranksFaulty(a, u) == Rank(role[u]) <= Rank(role[a])
Outranks(a, u) == Rank(role[u]) = 0 \/ Rank(role[u]) < Rank(role[a])

UpdateUserStatus(a, u, new) ==
    /\ IsStaff(a)
    /\ Registered(u)
    /\ u # a
    /\ Outranks(a, u)
    /\ status' = [status EXCEPT ![u] = new]
    /\ UNCHANGED <<role, individual, companies>>

-----------------------------------------------------------------------------
(***************************************************************************)
(* The life of the server: docker-entrypoint.sh runs prepare_database.     *)
(***************************************************************************)

\* backfill_actors_if_needed: the companies get the actor of their main side on
\* the first start only, when there is no actor at all.
NoActorYet ==
    /\ \A u \in Users : individual[u] = {}
    /\ \A c \in Companies, side \in Sides : actor[c][side] = "absent"

Backfill ==
    /\ individual' = [u \in Users |->
           individual[u] \cup (IF Registered(u) THEN SidesForRole(role[u]) ELSE {})]
    /\ IF NoActorYet
       THEN /\ actor' = [c \in Companies |-> [side \in Sides |->
                    IF side = company[c].main THEN "on" ELSE "absent"]]
            /\ trust' = [c \in Companies |-> [side \in Sides |->
                    IF side = company[c].main THEN TrustLevel(company[c].verification) ELSE "none"]]
       ELSE UNCHANGED <<actor, trust>>

\* prepare_database, and in development init_db_schema once more, which has
\* nothing left to do.  The backfill commits by itself; what follows, the
\* migration of the columns that named companies, may still keep the server
\* from starting.
Start ==
    /\ ~ serving
    /\ serving' \in BOOLEAN
    /\ Backfill
    /\ UNCHANGED <<role, status, company, member, verified>>

Stop ==
    /\ serving
    /\ serving' = FALSE
    /\ UNCHANGED <<role, status, individual, companies>>

-----------------------------------------------------------------------------
(***************************************************************************)
(* list_suppliers: who the public pages offer as a supplier.               *)
(***************************************************************************)
PublicSuppliers ==
    {[party |-> u, trust |-> "basic", verification |-> "pending"] :
        u \in {u \in Users : "supplier" \in individual[u]}}
    \cup
    {[party |-> c, trust |-> trust[c]["supplier"], verification |-> company[c].verification] :
        c \in {c \in Companies : actor[c]["supplier"] = "on"}}

-----------------------------------------------------------------------------
AccountStep ==
    \E u \in Users :
        \/ \E r \in PlatformRoles : Register(u, r)
        \/ GetMe(u)
        \/ \E c \in Companies : SwitchCompany(u, c)
        \/ \E side \in Sides : ActivateRole(u, side)

CompanyStep ==
    \E u \in Users, c \in Companies :
        \/ \E route \in Sides : CreateFromWizard(u, c, route)
        \/ \E types \in SUBSET Sides, main \in Sides : UpdateCompany(u, c, types, main)
        \/ \E w \in Users, r \in CompanyRole : AddTeamMember(u, c, w, r)
        \/ \E w \in Users : RemoveTeamMember(u, c, w)

AdminStep ==
    \E a \in Users :
        \/ \E c \in Companies, v \in VerificationStatus \ {"pending"} : Verify(a, c, v)
        \/ \E c \in Companies, o \in OperationalStatus : Operate(a, c, o)
        \/ \E u \in Users, new \in UserStatus : UpdateUserStatus(a, u, new)

Next ==
    \/ /\ serving
       /\ UNCHANGED serving
       /\ AccountStep \/ CompanyStep \/ AdminStep
    \/ Start
    \/ Stop

Spec == Init /\ [][Next]_vars

-----------------------------------------------------------------------------
\* The value of each variable.
TypeOK ==
    /\ role \in [Users -> PlatformRoles \cup StaffRoles \cup {"none"}]
    /\ status \in [Users -> UserStatus]
    /\ individual \in [Users -> SUBSET Sides]
    /\ company \in [Companies -> Row]
    /\ member \in [Companies -> [Users -> CompanyRole \cup {"none"}]]
    /\ actor \in [Companies -> [Sides -> {"absent", "on", "off"}]]
    /\ trust \in [Companies -> [Sides -> {"none", "standard", "verified"}]]
    /\ verified \in SUBSET Companies
    /\ serving \in BOOLEAN

\* While the server takes requests nobody waits for an actor: a user has one for
\* each side of its role, and a company has had one for its main side; and a user
\* with an actor of the supplier side, as list_suppliers shows them, has the role
\* the supplier endpoints ask for.  Role and actor only: a blocked user stays on
\* that page, while get_current_user refuses it.  Roles and actors are kept by
\* register, get_me, activate_role, the wizard and the backfill at start, each on
\* its own.
EverySideHasItsActor ==
    /\ \A u \in Users :
          /\ serving => Capabilities(role[u]) \subseteq individual[u]
          /\ "supplier" \in individual[u] => "supplier" \in Capabilities(role[u])
    /\ serving => \A c \in Companies : Exists(c) =>
          \E side \in Sides : side = company[c].main /\ actor[c][side] # "absent"

\* A side of a company that was disabled, by the team or by an administrator,
\* comes back by an administrator's reactivation and by nothing else: nothing
\* but the unique index keeps the team of a blocked company from enabling its
\* side again (update_company, ensure_company_actor).
DisabledSideReturnsOnlyByAdmin ==
    [][\A c \in Companies, side \in Sides :
          actor[c][side] = "off" /\ actor'[c][side] = "on" =>
              /\ company'[c].operational = "active"
              /\ \A s \in Sides : actor'[c][s] # "off"
              /\ \E a \in Users : IsStaff(a) /\ role[a] # "moderator"]_vars

\* No superadmin is ever blocked: not by another one, not by a chain of staff
\* accounts, whatever roles those give up (update_user_status).
SuperadminIsNotBlocked ==
    \A u \in Users : role[u] = "superadmin" => status[u] = "active"

\* A side has the trust level "verified", and the public pages show a supplier
\* as verified, only if an administrator approved the company at some time
\* (trust_level_for_company).  The code promises no more: the level is refreshed
\* when the team edits the sides, not when the verification ends.
VerifiedTrustWasGranted ==
    /\ \A c \in Companies : "verified" \in {trust[c][side] : side \in Sides} => c \in verified
    /\ \A p \in PublicSuppliers : "verified" \in {p.trust, p.verification} => p.party \in verified
=============================================================================
