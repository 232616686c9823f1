------------------------------- MODULE Access -------------------------------
(***************************************************************************)
(* Who may do what: accounts and their sessions (api/users.go, api/auth.go,*)
(* api/oidc.go), membership of organizations (db/organization_user.go,     *)
(* api/organizations.go) and the gates of the routes (api/middleware.go,   *)
(* api/router.go, api/sections.go) beside the menu the browser shows       *)
(* (src/layouts/role-menu.ts).                                             *)
(*                                                                         *)
(* A request is authenticated and does its reads in one step, which parks  *)
(* it in req[c]; its transaction is another step. Time is counted in       *)
(* periods of tokenRenewAfter.                                             *)
(***************************************************************************)
EXTENDS Integers, FiniteSets

CONSTANTS
  Users,        \* user ids
  Orgs,         \* organization ids
  Callers,      \* requests that may be in flight at once
  First,        \* the user EnsureFirstAdmin makes on an empty installation
  TokenLife,    \* tokenLifetime, in periods of tokenRenewAfter
  MaxAge,       \* maxSessionAge, likewise
  MaxTime, MaxVersion, MaxTokens, \* bounds: the clock, revocations, tokens
  OrgRoles,     \* the roles members are given: a bound
  Absent

VARIABLES
  users,        \* the users table
  members,      \* organization_users: the role of each user, Absent without one
  live,         \* the organizations there are
  tokens,       \* the session cookies browsers hold
  clock,
  req           \* the request each client has in flight

accessVars == <<users, members, live, tokens, clock, req>>

-----------------------------------------------------------------------------
(* Data.                                                                   *)

\* auth is not stored: it counts the sign-outs and password changes of a user.
NoUser == [state |-> "absent", platform |-> FALSE, version |-> 0, auth |-> 0]
User == [state : {"absent", "active", "inactive", "deleted"},
         platform : BOOLEAN, version : Nat, auth : Nat]

\* A session token. since and auth are not in it: when its user signed in, and
\* the count of the user then.
Token == [user : Users, version : Nat, start : Nat, issued : Nat, since : Nat, auth : Nat]

Roles == {"admin", "power_user", "general", "sales", "purchasing", "accounting", "cashbook"}

Exists(u) == users[u].state \in {"active", "inactive"}
Active(u) == users[u].state = "active"
PlatformAdmins == {u \in Users : Active(u) /\ users[u].platform}
OrgAdmins(o) == {u \in Users : Active(u) /\ members[o][u] = "admin"}

ASSUME AccessAssumption ==
  /\ First \in Users /\ TokenLife \in Nat \ {0} /\ MaxAge \in Nat \ {0}
  /\ OrgRoles \subseteq Roles /\ Absent \notin Roles \cup Users

NoRequest == [op |-> "idle"]
Park(c, r) == req[c] = NoRequest /\ req' = [req EXCEPT ![c] = r]
Resume(c, op) == req[c].op = op /\ req' = [req EXCEPT ![c] = NoRequest]
Fail(c) ==
  /\ req[c] # NoRequest /\ req' = [req EXCEPT ![c] = NoRequest]
  /\ UNCHANGED <<users, members, live, tokens, clock>>

-----------------------------------------------------------------------------
(* Routes. Each resource has the domain roles that may write it besides    *)
(* admin, power_user and general, and the section it belongs to.           *)

AnyMember == Roles
Table(resources, domain) == resources \X domain

SettingsRoutes == Table({"document-templates", "document-numbers"}, {})
PartnerRoutes == Table({"clients"}, {"sales"}) \cup Table({"vendors", "imports"}, {"purchasing"})
BuyingRoutes ==
  Table({"purchase-orders", "inbound-deliveries", "incoming-invoices"}, {"purchasing"})
    \cup Table({"production-orders"}, AnyMember)
InvoiceRoutes ==
  Table({"invoices"}, {"sales"}) \cup Table({"tax-rates", "payment-terms"}, {"accounting"})
    \cup Table({"units-of-measure", "product-families"}, {})
ProductRoutes ==
  Table({"products"}, {"sales", "purchasing"}) \cup Table({"bom", "stock-movements"}, AnyMember)
SellingRoutes == Table({"orders", "deliveries"}, {"sales"})
AccountingRoutes ==
  Table({"accounts", "journals", "journal-entries", "fiscal-years"}, {"accounting"})
PaymentRoutes == Table({"payments"}, {"accounting"}) \cup Table({"cash-sales"}, {"cashbook"})

Routes ==
  SettingsRoutes \cup PartnerRoutes \cup BuyingRoutes \cup InvoiceRoutes \cup ProductRoutes
    \cup SellingRoutes \cup AccountingRoutes \cup PaymentRoutes

domainRoles(resource) == {role \in Roles : <<resource, role>> \in Routes}

\* routeSections
SectionOf(resource, writes) ==
  IF resource \in {"invoices", "orders", "deliveries"} THEN "sales"
  ELSE IF resource \in {"purchase-orders", "inbound-deliveries", "incoming-invoices"} THEN "purchasing"
  ELSE IF resource \in {"journals", "journal-entries", "fiscal-years"} THEN "accounting"
  ELSE IF resource = "accounts" THEN IF writes THEN "accounting" ELSE Absent
  ELSE IF resource = "cash-sales" THEN "cashbook"
  ELSE IF resource \in {"imports", "stock-movements", "production-orders", "bom", "revenue-trend",
                        "purchases-by-vendor", "tax-summary", "gl-reports",
                        "loan-status", "client-balances", "vendor-balances"} THEN resource
  ELSE Absent

\* Mutant of sectionRoles: imports follow the rest of Purchasing.
sectionRolesImportsToo(section) ==
  CASE section \in {"sales", "revenue-trend"} -> {"general", "sales"}
    [] section \in {"purchasing", "purchases-by-vendor", "imports"} -> {"general", "purchasing"}
    [] section = "stock-movements" -> {"general"}
    [] section \in {"production-orders", "bom"} -> {}
    [] section \in {"accounting", "gl-reports"} -> {"accounting"}
    [] section \in {"cashbook", "loan-status"} -> {"general", "cashbook"}
    [] section = "tax-summary" -> {"general", "accounting"}
    [] section = "client-balances" -> {"general", "sales", "accounting", "cashbook"}
    [] section = "vendor-balances" -> {"general", "purchasing", "accounting"}

sectionRoles(section) ==
  CASE section \in {"sales", "revenue-trend"} -> {"general", "sales"}
    [] section \in {"purchasing", "purchases-by-vendor"} -> {"general", "purchasing"}
    [] section = "imports" -> {"purchasing"}
    [] section = "stock-movements" -> {"general"}
    [] section \in {"production-orders", "bom"} -> {}
    [] section \in {"accounting", "gl-reports"} -> {"accounting"}
    [] section \in {"cashbook", "loan-status"} -> {"general", "cashbook"}
    [] section = "tax-summary" -> {"general", "accounting"}
    [] section = "client-balances" -> {"general", "sales", "accounting", "cashbook"}
    [] section = "vendor-balances" -> {"general", "purchasing", "accounting"}

roleCanUseSection(role, section) ==
  section = Absent \/ role \in {"admin", "power_user"} \cup sectionRoles(section)

orgRole(role, domain) == role \in {"admin", "power_user", "general"} \cup domain

\* orgAuthorized and requireOrgRole: membership, the tier, then the section.
MayRead(u, o, resource) ==
  members[o][u] # Absent /\ roleCanUseSection(members[o][u], SectionOf(resource, FALSE))
MayWrite(u, o, resource) ==
  /\ members[o][u] # Absent
  /\ orgRole(members[o][u], domainRoles(resource))
  /\ roleCanUseSection(members[o][u], SectionOf(resource, TRUE))

\* The gate of administration: deleting the organization, its members.
orgAdmin(u, o) == members[o][u] = "admin"

-----------------------------------------------------------------------------
(* The menu of the browser: the screens each role sees, and what the        *)
(* screens read.                                                           *)

SectionScreens ==
  {"invoices", "orders", "deliveries", "purchase-orders", "inbound-deliveries",
   "incoming-invoices", "imports", "stock-movements", "production-orders", "bom",
   "journals", "journal-entries", "fiscal-years", "cash-sales",
   "revenue-trend", "purchases-by-vendor", "tax-summary"}
ASSUME NoScreenAssumption == Absent \notin SectionScreens

MasterScreens == {"clients", "vendors", "products"}
Reports == {"revenue-trend", "purchases-by-vendor", "tax-summary"}

Sales == {"invoices", "orders", "deliveries"}
Buying == {"purchase-orders", "inbound-deliveries", "incoming-invoices"}

\* ROLE_MENU, and the cashbook role's own menu of base.tsx.
Menu(role) ==
  CASE role \in {"admin", "power_user"} -> SectionScreens \cup MasterScreens
    [] role = "general" ->
         {"cash-sales", "stock-movements"} \cup Sales \cup Buying \cup MasterScreens \cup Reports
    [] role = "sales" -> Sales \cup {"clients", "products", "revenue-trend"}
    [] role = "purchasing" -> Buying \cup {"imports", "vendors", "products", "purchases-by-vendor"}
    [] role = "accounting" -> {"journals", "journal-entries", "fiscal-years", "tax-summary"}
    [] role = "cashbook" -> {"cash-sales", "clients"}

ReadOnly(role) == IF role = "cashbook" THEN {"clients"} ELSE {}

-----------------------------------------------------------------------------
(* Sessions.                                                               *)

\* authMiddleware: the token has not expired, and its user is active and has
\* neither signed out nor changed the password since it was issued.
Accepted(t) ==
  /\ clock < t.issued + TokenLife
  /\ Active(t.user) /\ users[t.user].version = t.version

Hold(t) ==
  /\ Cardinality({s \in tokens : clock < s.issued + TokenLife}) < MaxTokens
  /\ tokens' = {s \in tokens : clock < s.issued + TokenLife} \cup {t}

\* login reads the user, compares the password without any lock, and signs a
\* token with the version it read.
LoginRead(c, u) ==
  /\ Active(u)
  /\ Park(c, [op |-> "login", user |-> u, version |-> users[u].version, auth |-> users[u].auth])
  /\ UNCHANGED <<users, members, live, tokens, clock>>

LoginIssue(c) ==
  /\ Resume(c, "login")
  /\ Hold([user |-> req[c].user, version |-> req[c].version, start |-> clock,
           issued |-> clock, since |-> clock, auth |-> req[c].auth])
  /\ UNCHANGED <<users, members, live, clock>>

\* provisionOrSyncUser, under the write lock: a first login makes the user,
\* any other brings its platform role in line with its groups, except that the
\* last active admin stays one.
OidcCallback(c, u, isAdmin) ==
  /\ users[u].state \in {"absent", "active"}
  /\ LET row == IF Active(u) THEN users[u] ELSE [NoUser EXCEPT !.state = "active"]
         blocked == row.platform /\ ~isAdmin /\ Cardinality(PlatformAdmins) <= 1
         synced == [row EXCEPT !.platform = IF blocked THEN TRUE ELSE isAdmin]
     IN  /\ users' = [users EXCEPT ![u] = synced]
         /\ Park(c, [op |-> "login", user |-> u, version |-> synced.version, auth |-> synced.auth])
  /\ UNCHANGED <<members, live, tokens, clock>>

\* logout works with any cookie this server signed that has not expired: it
\* revokes every session of the user.
Logout(t) ==
  /\ t \in tokens /\ clock < t.issued + TokenLife
  /\ users[t.user].version < MaxVersion
  /\ users' = IF Exists(t.user)
              THEN [users EXCEPT ![t.user].version = @ + 1, ![t.user].auth = @ + 1] ELSE users
  /\ UNCHANGED <<members, live, tokens, clock, req>>

\* Any request carries its token through the middleware, which may renew it.
Authenticate(c, t) ==
  /\ t \in tokens /\ Accepted(t)
  /\ clock - t.issued >= 1 /\ clock - t.start < MaxAge
  /\ Park(c, [op |-> "renew", token |-> t, version |-> users[t.user].version])
  /\ UNCHANGED <<users, members, live, tokens, clock>>

\* Mutant of Renew: the renewed token takes the version stored by now.
RenewReread(c) ==
  /\ Resume(c, "renew")
  /\ Hold([req[c].token EXCEPT !.issued = clock, !.version = users[req[c].token.user].version])
  /\ UNCHANGED <<users, members, live, clock>>

Renew(c) ==
  /\ Resume(c, "renew")
  /\ Hold([req[c].token EXCEPT !.issued = clock, !.version = req[c].version])
  /\ UNCHANGED <<users, members, live, clock>>

-----------------------------------------------------------------------------
(* Accounts. Only a platform admin reaches these handlers.                 *)

CreateUser(by, u, admin) ==
  /\ by \in PlatformAdmins /\ users[u].state = "absent"
  /\ users' = [users EXCEPT ![u] = [NoUser EXCEPT !.state = "active", !.platform = admin]]
  /\ UNCHANGED <<members, live, tokens, clock, req>>

\* checkNotSoleOrgAdmin: the organizations u administers all have another
\* active admin.
SoleAdminOf(u) == {o \in live : members[o][u] = "admin" /\ OrgAdmins(o) \subseteq {u}}

\* What the handlers of users read and check before their transaction. The
\* admins seen are kept for the properties; the code keeps nothing.
Checked == [admins |-> PlatformAdmins, orgAdmins |-> [o \in Orgs |-> OrgAdmins(o)]]

\* An absent field changes nothing: role Absent, password FALSE, active as it was.
UpdateUserRead(c, by, u, role, active, password) ==
  /\ by \in PlatformAdmins /\ Exists(u)
  /\ LET demoting == role = "user" /\ users[u].platform
         deactivating == active = "no" /\ Active(u)
     IN  /\ by = u => ~demoting /\ ~deactivating
         /\ (demoting \/ deactivating) /\ u \in PlatformAdmins => Cardinality(PlatformAdmins) > 1
         /\ deactivating => SoleAdminOf(u) = {}
  /\ Park(c, [op |-> "update", user |-> u, role |-> role, active |-> active,
               password |-> password, seen |-> Checked])
  /\ UNCHANGED <<users, members, live, tokens, clock>>

\* Mutant of Updated: a password change revokes nothing.
UpdatedKeepingSessions(row, r) ==
  [row EXCEPT !.state = CASE r.active = "yes" -> "active" [] r.active = "no" -> "inactive"
                          [] OTHER -> @,
              !.platform = IF r.role = Absent THEN @ ELSE r.role = "admin",
              !.auth = IF r.password THEN @ + 1 ELSE @]

Updated(row, r) ==
  [row EXCEPT !.state = CASE r.active = "yes" -> "active" [] r.active = "no" -> "inactive"
                          [] OTHER -> @,
              !.platform = IF r.role = Absent THEN @ ELSE r.role = "admin",
              !.version = IF r.password THEN @ + 1 ELSE @,
              !.auth = IF r.password THEN @ + 1 ELSE @]

\* The transaction updates the row, if it is still there.
UpdateUserWrite(c) ==
  /\ Resume(c, "update")
  /\ LET u == req[c].user
     IN  /\ req[c].password => users[u].version < MaxVersion
         /\ users' = IF Exists(u) THEN [users EXCEPT ![u] = Updated(@, req[c])] ELSE users
  /\ UNCHANGED <<members, live, tokens, clock>>

DeleteUserRead(c, by, u) ==
  /\ by \in PlatformAdmins /\ Exists(u) /\ by # u
  /\ u \in PlatformAdmins => Cardinality(PlatformAdmins) > 1
  /\ SoleAdminOf(u) = {}
  /\ Park(c, [op |-> "delete", user |-> u, seen |-> Checked])
  /\ UNCHANGED <<users, members, live, tokens, clock>>

\* The row goes, and its memberships with it.
DeleteUserWrite(c) ==
  /\ Resume(c, "delete")
  /\ LET u == req[c].user
     IN  /\ users' = IF Exists(u) THEN [users EXCEPT ![u].state = "deleted"] ELSE users
         /\ members' = [o \in Orgs |-> [members[o] EXCEPT ![u] = Absent]]
  /\ UNCHANGED <<live, tokens, clock>>

-----------------------------------------------------------------------------
(* Membership of organizations.                                            *)

\* Anyone signed in may make an organization; its creator is added by a
\* statement of its own, whose failure is only logged.
CreateOrganization(c, by, o) ==
  /\ Active(by) /\ o \notin live /\ \A u \in Users : members[o][u] = Absent
  /\ live' = live \cup {o}
  /\ Park(c, [op |-> "found", user |-> by, org |-> o])
  /\ UNCHANGED <<users, members, tokens, clock>>

AddCreator(c) ==
  /\ Resume(c, "found")
  /\ members' = IF Exists(req[c].user) /\ req[c].org \in live
                THEN [members EXCEPT ![req[c].org][req[c].user] = "admin"] ELSE members
  /\ UNCHANGED <<users, live, tokens, clock>>

\* Everything an organization has goes with it.
DeleteOrganization(by, o) ==
  /\ o \in live /\ orgAdmin(by, o)
  /\ live' = live \ {o}
  /\ members' = [members EXCEPT ![o] = [u \in Users |-> Absent]]
  /\ UNCHANGED <<users, tokens, clock, req>>

\* An admin's request that has passed the gate of the route.
ManageMembers(c, by, o, u, role) ==
  /\ o \in live /\ Active(by) /\ orgAdmin(by, o) /\ Exists(u)
  /\ Park(c, [op |-> "members", org |-> o, user |-> u, role |-> role])
  /\ UNCHANGED <<users, members, live, tokens, clock>>

\* Mutant of isLastOrgAdmin: an admin who cannot sign in counts.
isLastOrgAdminCountingAll(o, u) ==
  members[o][u] = "admin" /\ {v \in Users \ {u} : members[o][v] = "admin"} = {}

isLastOrgAdmin(o, u) == members[o][u] = "admin" /\ OrgAdmins(o) \subseteq {u}

\* Add, change and remove re-read the admins inside their transaction. Adding
\* a member again changes the role; removal is role Absent.
WriteMember(c) ==
  /\ Resume(c, "members")
  /\ LET o == req[c].org u == req[c].user role == req[c].role
     IN  /\ role = "admin" \/ ~isLastOrgAdmin(o, u)
         /\ o \in live /\ Exists(u)
         /\ members' = [members EXCEPT ![o][u] = role]
  /\ UNCHANGED <<users, live, tokens, clock>>

-----------------------------------------------------------------------------

\* EnsureFirstAdmin on an empty installation.
AccessInit ==
  /\ users = [u \in Users |-> IF u = First THEN [NoUser EXCEPT !.state = "active", !.platform = TRUE]
                              ELSE NoUser]
  /\ members = [o \in Orgs |-> [u \in Users |-> Absent]]
  /\ live = {} /\ tokens = {} /\ clock = 0
  /\ req = [c \in Callers |-> NoRequest]

\* No request lasts as long as a period.
Tick ==
  /\ clock < MaxTime /\ \A c \in Callers : req[c] = NoRequest
  /\ clock' = clock + 1
  /\ UNCHANGED <<users, members, live, tokens, req>>

AccessNext ==
  \/ Tick
  \/ \E t \in tokens : Logout(t)
  \/ \E by, u \in Users, admin \in BOOLEAN : CreateUser(by, u, admin)
  \/ \E by \in Users, o \in Orgs : DeleteOrganization(by, o)
  \/ \E c \in Callers :
       \/ LoginIssue(c) \/ Renew(c) \/ UpdateUserWrite(c) \/ DeleteUserWrite(c)
       \/ AddCreator(c) \/ WriteMember(c) \/ Fail(c)
       \/ \E t \in tokens : Authenticate(c, t)
       \/ \E u \in Users : LoginRead(c, u)
       \/ \E u \in Users, isAdmin \in BOOLEAN : OidcCallback(c, u, isAdmin)
       \/ \E by, u \in Users : DeleteUserRead(c, by, u)
       \/ \E by, u \in Users, role \in {"admin", "user", Absent}, active \in {"yes", "no", Absent},
             password \in BOOLEAN : UpdateUserRead(c, by, u, role, active, password)
       \/ \E by \in Users, o \in Orgs : CreateOrganization(c, by, o)
       \/ \E by, u \in Users, o \in Orgs, role \in OrgRoles \cup {Absent} :
             ManageMembers(c, by, o, u, role)

AccessSpec == AccessInit /\ [][AccessNext]_accessVars

-----------------------------------------------------------------------------
(* Properties.                                                             *)

\* A session that was ended, by signing out or by a change of password, stays
\* ended: whatever sign-in or renewal was under way, no token that goes back
\* to it is accepted again (authMiddleware, logout, updateUser).
RevokedStaysRevoked == \A t \in tokens : Accepted(t) => t.auth = users[t.user].auth

\* Renewals end: no session outlives maxSessionAge by more than one token.
SessionsEnd == \A t \in tokens : Accepted(t) => clock < t.since + MaxAge + TokenLife

\* The menu of the browser and the gates of the server agree for whatever
\* role a member is given: a section's screen is served to the roles that see
\* it and to no other, and who sees a document's screen may write it, but for
\* the clients the cash book looks up (ROLE_MENU against sections.go and router.go).
ServesItsMenu ==
  \A o \in live, u \in Users : members[o][u] # Absent =>
    LET menu == Menu(members[o][u])
    IN  /\ \A s \in SectionScreens : (s \in menu) <=> MayRead(u, o, s)
        /\ \A s \in menu : MayRead(u, o, s)
        /\ \A s \in menu \ Reports : s \in ReadOnly(members[o][u]) \/ MayWrite(u, o, s)

\* The requests under way that change or remove a user.
Removing == {c \in Callers : req[c].op \in {"update", "delete"}}

\* The platform and every organization keep an active admin. Only a change of
\* a user whose check read other admins than there are when it commits can take
\* the last one (updateUser, deleteUser; db/organization_user.go's checks run
\* inside their transactions).
AdminsRemain ==
  [][/\ PlatformAdmins # {} /\ PlatformAdmins' = {} =>
          \E c \in Removing : req'[c] = NoRequest /\ req[c].seen.admins # PlatformAdmins
     /\ \A o \in live \cap live' : OrgAdmins(o) # {} /\ OrgAdmins(o)' = {} =>
          \E c \in Removing : req'[c] = NoRequest /\ req[c].seen.orgAdmins[o] # OrgAdmins(o)]_accessVars

\* "cannot remove the last active admin" (api/users.go): two requests that
\* each saw the other's admin remove both.
AnAdminRemains == PlatformAdmins # {}
=============================================================================
