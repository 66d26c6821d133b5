------------------------------- MODULE Access -------------------------------
(***************************************************************************)
(* How an account comes to its tenant and workspace, and a session to its  *)
(* account: the login route, with the internal account it sets up from the *)
(* environment, invitations, the onboarding, and the seed script.  None of *)
(* them is a transaction: each writes the control database and the         *)
(* tenant's one row after another, can stop between two, and can be sent   *)
(* again or run beside another.                                            *)
(*                                                                         *)
(* There is one tenant, since nothing calls createTenant.  Rows of members *)
(* and workspaces are never deleted but by the script, which is run before *)
(* the server is, and may have stopped halfway.                            *)
(***************************************************************************)
EXTENDS Integers, FiniteSets

CONSTANTS
  Root,          \* INTERNAL_USERNAME
  Guest,         \* e-mail addresses that can be invited, which become usernames
  Home, Seeded,  \* INTERNAL_WORKSPACE_ID now, and when the script was run
  Password,      \* passwords people choose
  EnvPassword,   \* INTERNAL_PASSWORD
  Request,       \* requests the server can be handling
  MaxInvites, MaxRequests, MaxAccessFaults  \* bounds: invitations, requests sent, and
                                            \* requests that stop halfway

ASSUME AccessAssumption ==
  /\ Root \notin Guest /\ EnvPassword \notin Password
  /\ MaxInvites \in Nat /\ MaxRequests \in Nat /\ MaxAccessFaults \in Nat

Account == {Root} \cup Guest
Workspace == {Home, Seeded}
Invite == 1 .. MaxInvites

VARIABLES
  users,       \* the accounts of the control database: [there, pw, onboarded]
  tenant,      \* whether the tenant's row is there; its database has its schema then
  workspaces,  \* the rows of the control database
  tMember,     \* tMember[u]: the role in the tenant, "none" without a row
  wMember,     \* the workspaces of u
  tenantWs,    \* workspaces that have their row in the tenant's database too
  profiles,    \* and those with a profile
  invites,     \* invites[i]: [state, user, ws, role], state "none", "open", "expired" or "accepted"
  reqs,        \* the requests: what it is, for whom, and the step it is at
  sessions,    \* session cookies given out and not expired: [user, ws]
  halted,      \* history: accounts a request or the script left half set up
  twice,       \* history: accounts two of whose requests ran at once
  finished,    \* history: [user, ws] whose onboarding was answered with ok, and who has accepted
               \* no invitation since
  sent, accessFaults  \* history: what the bounds count

stored == <<users, tenant, workspaces, tMember, wMember, tenantWs, profiles>>
accessVars == <<stored, invites, reqs, sessions, halted, twice, finished, sent, accessFaults>>

NoAccount == [there |-> FALSE, pw |-> EnvPassword, onboarded |-> FALSE]
NoInvite == [state |-> "none", user |-> Root, ws |-> Home, role |-> "MEMBER"]
NoRequest == [at |-> "idle", user |-> Root, pw |-> EnvPassword, inv |-> 0, ws |-> Home, found |-> FALSE]

(* The seed script, stopped after `done` of its rows: the account, the tenant,*)
(* the workspace, the two memberships.  It does not touch the tenant's own    *)
(* database.                                                                  *)
AccessInit ==
  \E done \in 0 .. 5, pw \in Password \cup {EnvPassword} :
    /\ users = [u \in Account |-> IF u = Root /\ done >= 1 THEN [there |-> TRUE, pw |-> pw, onboarded |-> TRUE]
                                  ELSE NoAccount]
    /\ tenant = (done >= 2) /\ workspaces = IF done >= 3 THEN {Seeded} ELSE {}
    /\ tMember = [u \in Account |-> IF u = Root /\ done >= 4 THEN "ADMIN" ELSE "none"]
    /\ wMember = [u \in Account |-> IF u = Root /\ done = 5 THEN {Seeded} ELSE {}]
    /\ tenantWs = {} /\ profiles = {} /\ invites = [i \in Invite |-> NoInvite]
    /\ reqs = [r \in Request |-> NoRequest] /\ sessions = {}
    /\ halted = IF done \in 1 .. 4 THEN {Root} ELSE {}
    /\ twice = {} /\ finished = {} /\ sent = 0 /\ accessFaults = 0

InHand(u) == \E r \in Request : reqs[r].at # "idle" /\ reqs[r].user = u
Receive(r, request) ==
  /\ reqs[r] = NoRequest /\ sent < MaxRequests /\ sent' = sent + 1
  /\ reqs' = [reqs EXCEPT ![r] = request]
  /\ twice' = IF InHand(request.user) THEN twice \cup {request.user} ELSE twice
Stands(r, step) == reqs[r].at = step
Proceeds(r, step) == reqs' = [reqs EXCEPT ![r].at = step]
Answers(r) == reqs' = [reqs EXCEPT ![r] = NoRequest]
RestKept == UNCHANGED <<halted, twice, finished, sent, accessFaults>>
(* The last row is written: the account has all there is to it.               *)
SignIn(r, u, ws) ==
  /\ Answers(r) /\ sessions' = sessions \cup {[user |-> u, ws |-> ws]}
  /\ halted' = halted \ {u}
  /\ UNCHANGED <<twice, finished, sent, accessFaults>>

-----------------------------------------------------------------------------
(* The login route *)

Login(r, u, pw) ==
  /\ Receive(r, [NoRequest EXCEPT !.at = "credentials", !.user = u, !.pw = pw])
  /\ UNCHANGED <<stored, invites, sessions, halted, finished, accessFaults>>

(* An account without members' rows is refused whatever the password is; one  *)
(* with another password may still be the internal one.  A user of several    *)
(* workspaces gets any of them.                                               *)
Refused(u) == users[u].there /\ (tMember[u] = "none" \/ wMember[u] = {})
Authenticate(r) ==
  LET u == reqs[r].user pw == reqs[r].pw
      matches == users[u].there /\ users[u].pw = pw
      internal == u = Root /\ pw = EnvPassword
  IN /\ Stands(r, "credentials")
     /\ \/ ~Refused(u) /\ matches /\ \E ws \in wMember[u] : SignIn(r, u, ws)
        \/ ~Refused(u) /\ ~matches /\ internal /\ Proceeds(r, "findTenant") /\ RestKept /\ UNCHANGED sessions
        \/ (Refused(u) \/ (~matches /\ ~internal)) /\ Answers(r) /\ RestKept /\ UNCHANGED sessions
     /\ UNCHANGED <<stored, invites>>

(* ensureInternalWorkspace.  Creating the database again does no harm.        *)
FindTenant(r) ==
  /\ Stands(r, "findTenant") /\ Proceeds(r, IF tenant THEN "tenantWorkspace" ELSE "createTenant")
  /\ UNCHANGED <<stored, invites, sessions>> /\ RestKept

(* The row another request has created in between makes this one fail.        *)
CreateTenant(r) ==
  /\ Stands(r, "createTenant") /\ tenant' = TRUE
  /\ IF tenant THEN Answers(r) ELSE Proceeds(r, "tenantWorkspace")
  /\ UNCHANGED <<users, workspaces, tMember, wMember, tenantWs, profiles, invites, sessions>> /\ RestKept

UpsertTenantWorkspace(r) ==
  /\ Stands(r, "tenantWorkspace") /\ tenantWs' = tenantWs \cup {Home} /\ Proceeds(r, "workspace")
  /\ UNCHANGED <<users, tenant, workspaces, tMember, wMember, profiles, invites, sessions>> /\ RestKept

UpsertWorkspace(r) ==
  /\ Stands(r, "workspace") /\ workspaces' = workspaces \cup {Home} /\ Proceeds(r, "account")
  /\ UNCHANGED <<users, tenant, tMember, wMember, tenantWs, profiles, invites, sessions>> /\ RestKept

UpsertAccount(r) ==
  /\ Stands(r, "account") /\ Proceeds(r, "member")
  /\ users' = [users EXCEPT ![Root] = [there |-> TRUE, pw |-> EnvPassword, onboarded |-> TRUE]]
  /\ UNCHANGED <<tenant, workspaces, tMember, wMember, tenantWs, profiles, invites, sessions>> /\ RestKept

UpsertTenantMember(r) ==
  /\ Stands(r, "member") /\ tMember' = [tMember EXCEPT ![Root] = "ADMIN"] /\ Proceeds(r, "owner")
  /\ UNCHANGED <<users, tenant, workspaces, wMember, tenantWs, profiles, invites, sessions>> /\ RestKept

UpsertWorkspaceMember(r) ==
  /\ Stands(r, "owner") /\ wMember' = [wMember EXCEPT ![Root] = @ \cup {Home}] /\ SignIn(r, Root, Home)
  /\ UNCHANGED <<users, tenant, workspaces, tMember, tenantWs, profiles, invites>>

Logout(s) ==
  /\ sessions' = sessions \ {s}
  /\ UNCHANGED <<stored, invites, reqs>> /\ RestKept

-----------------------------------------------------------------------------
(* Invitations *)

(* A session of an administrator invites into a workspace of the tenant.      *)
InviteUser(s, i, u, ws, role) ==
  /\ tMember[s.user] = "ADMIN" /\ ws \in workspaces /\ invites[i].state = "none"
  /\ invites' = [invites EXCEPT ![i] = [state |-> "open", user |-> u, ws |-> ws, role |-> role]]
  /\ UNCHANGED <<stored, reqs, sessions>> /\ RestKept

InviteExpires(i) ==
  /\ invites[i].state = "open" /\ invites' = [invites EXCEPT ![i].state = "expired"]
  /\ UNCHANGED <<stored, reqs, sessions>> /\ RestKept

AcceptInvite(r, i, pw) ==
  /\ invites[i].state # "none"
  /\ Receive(r, [NoRequest EXCEPT !.at = "invitation", !.user = invites[i].user, !.inv = i,
                           !.ws = invites[i].ws, !.pw = pw])
  /\ UNCHANGED <<stored, invites, sessions, halted, finished, accessFaults>>

ReadInvite(r) ==
  /\ Stands(r, "invitation")
  /\ IF invites[reqs[r].inv].state = "open"
     THEN Proceeds(r, "findUser") /\ finished' = {s \in finished : s.user # reqs[r].user}
     ELSE Answers(r) /\ UNCHANGED finished
  /\ UNCHANGED <<stored, invites, sessions, halted, twice, sent, accessFaults>>

FindUser(r) ==
  /\ Stands(r, "findUser")
  /\ reqs' = [reqs EXCEPT ![r].at = "writeUser", ![r].found = users[reqs[r].user].there]
  /\ UNCHANGED <<stored, invites, sessions>> /\ RestKept

(* A new password, and the onboarding is to be done again.  The account that  *)
(* another request has created meanwhile makes the creation fail.             *)
WriteUser(r) ==
  LET u == reqs[r].user IN
  /\ Stands(r, "writeUser")
  /\ IF ~reqs[r].found /\ users[u].there THEN Answers(r) /\ UNCHANGED users
     ELSE /\ users' = [users EXCEPT ![u] = [there |-> TRUE, pw |-> reqs[r].pw, onboarded |-> FALSE]]
          /\ Proceeds(r, "joinTenant")
  /\ UNCHANGED <<tenant, workspaces, tMember, wMember, tenantWs, profiles, invites, sessions>> /\ RestKept

JoinTenant(r) ==
  /\ Stands(r, "joinTenant") /\ tMember' = [tMember EXCEPT ![reqs[r].user] = invites[reqs[r].inv].role]
  /\ Proceeds(r, "joinWorkspace")
  /\ UNCHANGED <<users, tenant, workspaces, wMember, tenantWs, profiles, invites, sessions>> /\ RestKept

JoinWorkspace(r) ==
  /\ Stands(r, "joinWorkspace") /\ wMember' = [wMember EXCEPT ![reqs[r].user] = @ \cup {reqs[r].ws}]
  /\ Proceeds(r, "openWorkspace")
  /\ UNCHANGED <<users, tenant, workspaces, tMember, tenantWs, profiles, invites, sessions>> /\ RestKept

OpenWorkspace_skipped(r) ==
  /\ Stands(r, "openWorkspace") /\ Proceeds(r, "mark")
  /\ UNCHANGED <<stored, invites, sessions>> /\ RestKept
OpenWorkspace(r) ==
  /\ Stands(r, "openWorkspace") /\ tenantWs' = tenantWs \cup {reqs[r].ws} /\ Proceeds(r, "mark")
  /\ UNCHANGED <<users, tenant, workspaces, tMember, wMember, profiles, invites, sessions>> /\ RestKept

MarkAccepted(r) ==
  /\ Stands(r, "mark") /\ invites' = [invites EXCEPT ![reqs[r].inv].state = "accepted"]
  /\ SignIn(r, reqs[r].user, reqs[r].ws)
  /\ UNCHANGED stored

-----------------------------------------------------------------------------
(* The onboarding *)

Onboard(r, s) ==
  /\ Receive(r, [NoRequest EXCEPT !.at = "profileOfUser", !.user = s.user, !.ws = s.ws])
  /\ UNCHANGED <<stored, invites, sessions, halted, finished, accessFaults>>

UpdateUser(r) ==
  /\ Stands(r, "profileOfUser") /\ tenant /\ users' = [users EXCEPT ![reqs[r].user].onboarded = TRUE]
  /\ Proceeds(r, "profile")
  /\ UNCHANGED <<tenant, workspaces, tMember, wMember, tenantWs, profiles, invites, sessions>> /\ RestKept

(* The profile refers to the workspace's row, which is only made sure of next.*)
UpsertProfile(r) ==
  /\ Stands(r, "profile")
  /\ IF reqs[r].ws \in tenantWs THEN profiles' = profiles \cup {reqs[r].ws} /\ Proceeds(r, "profileDone")
     ELSE UNCHANGED profiles /\ Answers(r)
  /\ UNCHANGED <<users, tenant, workspaces, tMember, wMember, tenantWs, invites, sessions>> /\ RestKept

EndOnboarding(r) ==
  /\ Stands(r, "profileDone") /\ tenantWs' = tenantWs \cup {reqs[r].ws} /\ Answers(r)
  /\ finished' = finished \cup {[user |-> reqs[r].user, ws |-> reqs[r].ws]}
  /\ UNCHANGED <<users, tenant, workspaces, tMember, wMember, profiles, invites, sessions,
                 halted, twice, sent, accessFaults>>

(* The server stops, or a database does not answer.                           *)
Halt(r) ==
  /\ reqs[r] # NoRequest /\ accessFaults < MaxAccessFaults /\ accessFaults' = accessFaults + 1
  /\ Answers(r)
  /\ halted' = IF reqs[r].at \in {"member", "owner", "joinTenant", "joinWorkspace", "openWorkspace"}
               THEN halted \cup {reqs[r].user} ELSE halted
  /\ UNCHANGED <<stored, invites, sessions, twice, finished, sent>>

AccessNext ==
  \/ \E r \in Request :
       \/ Authenticate(r) \/ FindTenant(r) \/ CreateTenant(r) \/ UpsertTenantWorkspace(r) \/ UpsertWorkspace(r)
       \/ UpsertAccount(r) \/ UpsertTenantMember(r) \/ UpsertWorkspaceMember(r)
       \/ ReadInvite(r) \/ FindUser(r) \/ WriteUser(r) \/ JoinTenant(r) \/ JoinWorkspace(r) \/ OpenWorkspace(r)
       \/ MarkAccepted(r) \/ UpdateUser(r) \/ UpsertProfile(r) \/ EndOnboarding(r) \/ Halt(r)
       \/ \E u \in Account, pw \in Password \cup {EnvPassword} : Login(r, u, pw)
       \/ \E i \in Invite, pw \in Password : AcceptInvite(r, i, pw)
       \/ \E s \in sessions : Onboard(r, s)
  \/ \E s \in sessions : \/ Logout(s)
                         \/ \E i \in Invite, u \in Guest, ws \in Workspace, role \in {"ADMIN", "MEMBER"} :
                              InviteUser(s, i, u, ws, role)
  \/ \E i \in Invite : InviteExpires(i)

AccessSpec == AccessInit /\ [][AccessNext]_accessVars

-----------------------------------------------------------------------------
AccessTypeOK ==
  /\ \A u \in Account : users[u].there \in BOOLEAN /\ users[u].pw \in Password \cup {EnvPassword}
  /\ tenant \in BOOLEAN /\ workspaces \subseteq Workspace /\ profiles \subseteq tenantWs
  /\ \A u \in Account : tMember[u] \in {"none", "ADMIN", "MEMBER"} /\ wMember[u] \subseteq Workspace
  /\ \A i \in Invite : invites[i].state \in {"none", "open", "expired", "accepted"}
  /\ sent \in 0 .. MaxRequests /\ accessFaults \in 0 .. MaxAccessFaults

(* An account that nothing is being done about has all that signing in and    *)
(* working take: a tenant and a workspace, without which the login refuses it *)
(* for ever, every workspace but the script's with its row in the tenant's    *)
(* database, which the rows of all its work refer to; and who has accepted an *)
(* invitation is a member of its workspace; and who has been told that the    *)
(* onboarding is done has a profile there and, unless two requests of the     *)
(* account ran at once, is not asked to do it again -- all of it unless a     *)
(* request or the script stopped between two rows and the account was not set *)
(* up again to the end since.                                                 *)
AccountsWhole ==
  \A u \in Account \ halted :
    /\ users[u].there /\ ~InHand(u) =>
         /\ tMember[u] # "none" /\ wMember[u] # {}
         /\ wMember[u] \ {Seeded} \subseteq tenantWs
    /\ \A i \in Invite : invites[i].state = "accepted" /\ invites[i].user = u =>
         users[u].there /\ invites[i].ws \in wMember[u] \cap tenantWs
    /\ \A s \in finished : s.user = u => s.ws \in profiles /\ (users[u].onboarded \/ u \in twice)
=============================================================================
