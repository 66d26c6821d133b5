----------------------------- MODULE PageProofs -----------------------------
(***************************************************************************)
(* What holds of accounts and sessions for any users, passwords and        *)
(* invitations and any number of requests at once; of the replies and      *)
(* their page for any threads, mails, rows, clicks and faults; and of the  *)
(* page of a campaign for any leads, texts, requests and acts.             *)
(***************************************************************************)
EXTENDS Access, ReplyDesk, CampaignPage, ListProofs, SequenceTheorems, FiniteSetTheorems, WellFoundedInduction, TLAPS

-----------------------------------------------------------------------------
(* Type correctness                                                        *)

Steps == {"idle", "credentials", "findTenant", "createTenant", "tenantWorkspace", "workspace",
          "account", "member", "owner", "invitation", "findUser", "writeUser", "joinTenant",
          "joinWorkspace", "openWorkspace", "mark", "profileOfUser", "profile", "profileDone"}
UserRow == [there : BOOLEAN, pw : Password \cup {EnvPassword}, onboarded : BOOLEAN]
InviteRow == [state : {"none", "open", "expired", "accepted"}, user : Account, ws : Workspace,
              role : {"ADMIN", "MEMBER"}]
SignRequest == [at : Steps, user : Account, pw : Password \cup {EnvPassword}, inv : Invite \cup {0},
               ws : Workspace, found : BOOLEAN]
Seat == [user : Account, ws : Workspace]

RowTypes ==
  /\ users \in [Account -> UserRow] /\ tenant \in BOOLEAN
  /\ workspaces \in SUBSET Workspace /\ tenantWs \in SUBSET Workspace /\ profiles \in SUBSET tenantWs
  /\ tMember \in [Account -> {"none", "ADMIN", "MEMBER"}]
  /\ wMember \in [Account -> SUBSET Workspace]
CallTypes ==
  /\ invites \in [Invite -> InviteRow] /\ reqs \in [Request -> SignRequest]
  /\ sessions \in SUBSET Seat /\ finished \in SUBSET Seat
  /\ sent \in 0 .. MaxRequests /\ accessFaults \in 0 .. MaxAccessFaults
AccessTypes == RowTypes /\ CallTypes

USE AccessAssumption

LEMMA NoRows == NoAccount \in UserRow /\ NoInvite \in InviteRow /\ NoRequest \in SignRequest
BY DEF NoAccount, NoInvite, NoRequest, UserRow, InviteRow, SignRequest, Account, Workspace, Steps

LEMMA InitAccess == AccessInit => AccessTypes
BY NoRows, AccessAssumption DEF AccessInit, AccessTypes, RowTypes, CallTypes, UserRow, Account, Workspace

(* A request that is received, one that goes on and one that is answered.     *)
LEMMA ReceiveTypes ==
    ASSUME AccessTypes, NEW r \in Request, NEW request \in SignRequest, Receive(r, request)
    PROVE  /\ reqs' \in [Request -> SignRequest] /\ sent' \in 0 .. MaxRequests
           /\ reqs' = [reqs EXCEPT ![r] = request]
BY AccessAssumption DEF Receive, AccessTypes, CallTypes

LEMMA ProceedsTypes ==
    ASSUME AccessTypes, NEW r \in Request, NEW step \in Steps, Proceeds(r, step)
    PROVE  reqs' \in [Request -> SignRequest]
BY DEF Proceeds, AccessTypes, CallTypes, SignRequest

LEMMA AnswersTypes ==
    ASSUME AccessTypes, NEW r \in Request, Answers(r)
    PROVE  reqs' \in [Request -> SignRequest]
BY NoRows DEF Answers, AccessTypes, CallTypes

(* A step of request r leaves it at x, and the others where they are.         *)
Goes(r, x) == x \in SignRequest /\ reqs' = [reqs EXCEPT ![r] = x]

LEMMA RequestMoves ==
    ASSUME AccessTypes, NEW r \in Request
    PROVE  /\ \A step \in Steps : Proceeds(r, step) => Goes(r, [reqs[r] EXCEPT !.at = step])
           /\ Answers(r) => Goes(r, NoRequest)
           /\ \A q \in SignRequest : Receive(r, q) => Goes(r, q) /\ sent' \in 0 .. MaxRequests
<1>1. reqs \in [Request -> SignRequest]
  BY DEF AccessTypes, CallTypes
<1>2. ASSUME NEW step \in Steps, Proceeds(r, step) PROVE Goes(r, [reqs[r] EXCEPT !.at = step])
  BY <1>1, <1>2 DEF Proceeds, Goes, SignRequest
<1>3. Answers(r) => Goes(r, NoRequest)
  BY NoRows DEF Answers, Goes
<1>4. ASSUME NEW q \in SignRequest, Receive(r, q) PROVE Goes(r, q) /\ sent' \in 0 .. MaxRequests
  BY <1>4 DEF Receive, Goes, AccessTypes, CallTypes
<1> QED
  BY <1>2, <1>3, <1>4

LEMMA MovedTypes ==
    ASSUME AccessTypes, NEW r \in Request, NEW x, Goes(r, x)
    PROVE  reqs' \in [Request -> SignRequest] /\ reqs'[r] = x /\ \A q \in Request \ {r} : reqs'[q] = reqs[q]
BY DEF Goes, AccessTypes, CallTypes

(* The steps of a request, by what they begin, write and end.                 *)
LoginStep(r) ==
  Authenticate(r) \/ FindTenant(r) \/ CreateTenant(r) \/ UpsertTenantWorkspace(r) \/ UpsertWorkspace(r)
    \/ UpsertAccount(r) \/ UpsertTenantMember(r) \/ UpsertWorkspaceMember(r)
InviteStep(r) ==
  ReadInvite(r) \/ FindUser(r) \/ WriteUser(r) \/ JoinTenant(r) \/ JoinWorkspace(r) \/ OpenWorkspace(r)
    \/ MarkAccepted(r)
OnboardStep(r) == UpdateUser(r) \/ UpsertProfile(r) \/ EndOnboarding(r)
Received(r) ==
  \/ \E u \in Account, pw \in Password \cup {EnvPassword} : Login(r, u, pw)
  \/ \E i \in Invite, pw \in Password : AcceptInvite(r, i, pw)
  \/ \E s \in sessions : Onboard(r, s)
Aside ==
  \/ \E s \in sessions : Logout(s)
  \/ \E s \in sessions : \E i \in Invite, u \in Guest, ws \in Workspace, role \in {"ADMIN", "MEMBER"} :
       InviteUser(s, i, u, ws, role)
  \/ \E i \in Invite : InviteExpires(i)

LEMMA NextCases ==
    AccessNext => Aside \/ \E r \in Request :
                    LoginStep(r) \/ InviteStep(r) \/ OnboardStep(r) \/ Received(r) \/ Halt(r)
BY Zenon DEF AccessNext, LoginStep, InviteStep, OnboardStep, Received, Aside

(* What no step takes back.                                                   *)
Grows ==
  /\ \A u \in Account : /\ users[u].there => users'[u].there
                        /\ tMember[u] # "none" => tMember'[u] # "none"
                        /\ wMember[u] \subseteq wMember'[u]
  /\ workspaces \subseteq workspaces' /\ tenantWs \subseteq tenantWs'
  /\ profiles \subseteq profiles' /\ twice \subseteq twice'
  /\ \A i \in Invite : invites[i].state # "none" =>
       invites'[i].state # "none" /\ invites'[i].user = invites[i].user /\ invites'[i].ws = invites[i].ws

LEMMA StoredKept ==
    /\ AccessTypes /\ UNCHANGED stored => RowTypes'
    /\ UNCHANGED <<stored, invites, twice>> => Grows
BY DEF AccessTypes, stored, RowTypes, Grows

LEMMA SeatsOf ==
    ASSUME AccessTypes, NEW r \in Request, NEW u \in Account, NEW ws \in Workspace
    PROVE  /\ SignIn(r, u, ws) => /\ Answers(r) /\ sessions' \in SUBSET Seat /\ finished' = finished
                                  /\ halted' = halted \ {u} /\ UNCHANGED <<twice, sent, accessFaults>>
           /\ RestKept => UNCHANGED <<halted, twice, finished, sent, accessFaults>>
BY DEF SignIn, RestKept, AccessTypes, CallTypes, Seat

LEMMA LoginTypes ==
    ASSUME AccessTypes, NEW r \in Request, LoginStep(r)
    PROVE  AccessTypes' /\ Grows /\ UNCHANGED <<invites, finished>>
<1>1. /\ reqs \in [Request -> SignRequest] /\ reqs[r].user \in Account
      /\ Root \in Account /\ Home \in Workspace
  BY DEF AccessTypes, CallTypes, SignRequest, Account, Workspace
<1>2. ASSUME NEW step \in Steps, Proceeds(r, step), RestKept, UNCHANGED <<invites, sessions>>
      PROVE  CallTypes' /\ UNCHANGED <<invites, twice, finished>>
  BY <1>2, ProceedsTypes, SeatsOf, <1>1 DEF AccessTypes, CallTypes
<1>3. ASSUME Answers(r), RestKept, UNCHANGED <<invites, sessions>>
      PROVE  CallTypes' /\ UNCHANGED <<invites, twice, finished>>
  BY <1>3, AnswersTypes, SeatsOf, <1>1 DEF AccessTypes, CallTypes
<1>4. ASSUME NEW u \in Account, NEW ws \in Workspace, SignIn(r, u, ws), UNCHANGED invites
      PROVE  CallTypes' /\ UNCHANGED <<invites, twice, finished>>
  BY <1>4, AnswersTypes, SeatsOf DEF AccessTypes, CallTypes
<1>5. CASE Authenticate(r)
  <2>1. UNCHANGED <<stored, invites>>
    BY <1>5 DEF Authenticate
  <2>2. CASE \E ws \in wMember[reqs[r].user] : SignIn(r, reqs[r].user, ws)
    <3>1. PICK ws \in wMember[reqs[r].user] : SignIn(r, reqs[r].user, ws)
      BY <2>2
    <3>2. ws \in Workspace
      BY <1>1 DEF AccessTypes, RowTypes
    <3> QED
      BY <1>1, <1>4, <2>1, <3>1, <3>2, StoredKept DEF AccessTypes
  <2>3. CASE Proceeds(r, "findTenant") /\ RestKept /\ UNCHANGED sessions
    BY <1>2, <2>1, <2>3, StoredKept DEF AccessTypes, Steps
  <2>4. CASE Answers(r) /\ RestKept /\ UNCHANGED sessions
    BY <1>3, <2>1, <2>4, StoredKept DEF AccessTypes
  <2> QED
    BY <1>5, <2>2, <2>3, <2>4 DEF Authenticate
<1>6. CASE FindTenant(r)
  <2>1. UNCHANGED <<stored, invites, sessions>> /\ RestKept
        /\ (Proceeds(r, "tenantWorkspace") \/ Proceeds(r, "createTenant"))
    BY <1>6 DEF FindTenant
  <2> QED
    BY <1>2, <2>1, StoredKept DEF AccessTypes, Steps
<1>7. CASE CreateTenant(r)
  <2>1. /\ tenant' = TRUE /\ (Answers(r) \/ Proceeds(r, "tenantWorkspace")) /\ RestKept
        /\ UNCHANGED <<users, workspaces, tMember, wMember, tenantWs, profiles, invites, sessions>>
    BY <1>7 DEF CreateTenant
  <2>2. CallTypes' /\ UNCHANGED <<twice, finished>>
    BY <1>2, <1>3, <2>1 DEF Steps
  <2> QED
    BY <2>1, <2>2 DEF AccessTypes, RowTypes, Grows
<1>8. CASE UpsertTenantWorkspace(r)
  <2>1. /\ tenantWs' = tenantWs \cup {Home} /\ Proceeds(r, "workspace") /\ RestKept
        /\ UNCHANGED <<users, tenant, workspaces, tMember, wMember, profiles, invites, sessions>>
    BY <1>8 DEF UpsertTenantWorkspace
  <2>2. CallTypes' /\ UNCHANGED <<twice, finished>>
    BY <1>2, <2>1 DEF Steps
  <2> QED
    BY <1>1, <2>1, <2>2 DEF AccessTypes, RowTypes, Grows
<1>9. CASE UpsertWorkspace(r)
  <2>1. /\ workspaces' = workspaces \cup {Home} /\ Proceeds(r, "account") /\ RestKept
        /\ UNCHANGED <<users, tenant, tMember, wMember, tenantWs, profiles, invites, sessions>>
    BY <1>9 DEF UpsertWorkspace
  <2>2. CallTypes' /\ UNCHANGED <<twice, finished>>
    BY <1>2, <2>1 DEF Steps
  <2> QED
    BY <1>1, <2>1, <2>2 DEF AccessTypes, RowTypes, Grows
<1>10. CASE UpsertAccount(r)
  <2>1. /\ users' = [users EXCEPT ![Root] = [there |-> TRUE, pw |-> EnvPassword, onboarded |-> TRUE]]
        /\ Proceeds(r, "member") /\ RestKept
        /\ UNCHANGED <<tenant, workspaces, tMember, wMember, tenantWs, profiles, invites, sessions>>
    BY <1>10 DEF UpsertAccount
  <2>2. CallTypes' /\ UNCHANGED <<twice, finished>>
    BY <1>2, <2>1 DEF Steps
  <2> QED
    BY <1>1, <2>1, <2>2 DEF AccessTypes, RowTypes, Grows, UserRow
<1>11. CASE UpsertTenantMember(r)
  <2>1. /\ tMember' = [tMember EXCEPT ![Root] = "ADMIN"] /\ Proceeds(r, "owner") /\ RestKept
        /\ UNCHANGED <<users, tenant, workspaces, wMember, tenantWs, profiles, invites, sessions>>
    BY <1>11 DEF UpsertTenantMember
  <2>2. CallTypes' /\ UNCHANGED <<twice, finished>>
    BY <1>2, <2>1 DEF Steps
  <2> QED
    BY <1>1, <2>1, <2>2 DEF AccessTypes, RowTypes, Grows
<1>12. CASE UpsertWorkspaceMember(r)
  <2>1. /\ wMember' = [wMember EXCEPT ![Root] = @ \cup {Home}] /\ SignIn(r, Root, Home)
        /\ UNCHANGED <<users, tenant, workspaces, tMember, tenantWs, profiles, invites>>
    BY <1>12 DEF UpsertWorkspaceMember
  <2>2. CallTypes' /\ UNCHANGED <<twice, finished>>
    BY <1>1, <1>4, <2>1
  <2> QED
    BY <1>1, <2>1, <2>2 DEF AccessTypes, RowTypes, Grows
<1> QED
  BY <1>5, <1>6, <1>7, <1>8, <1>9, <1>10, <1>11, <1>12 DEF LoginStep

Inviting == {"invitation", "findUser", "writeUser", "joinTenant", "joinWorkspace", "openWorkspace", "mark"}

LEMMA InviteTypes ==
    ASSUME AccessTypes, NEW r \in Request, InviteStep(r),
           reqs[r].at \in Inviting => reqs[r].inv \in Invite
    PROVE  AccessTypes' /\ Grows /\ finished' \subseteq finished
<1>1. /\ reqs \in [Request -> SignRequest] /\ reqs[r] \in SignRequest /\ invites \in [Invite -> InviteRow]
      /\ reqs[r].user \in Account /\ reqs[r].ws \in Workspace /\ reqs[r].pw \in Password \cup {EnvPassword}
  BY DEF AccessTypes, CallTypes, SignRequest
<1>2. ASSUME NEW step \in Steps, Proceeds(r, step), RestKept, UNCHANGED <<invites, sessions>>
      PROVE  CallTypes' /\ UNCHANGED <<invites, twice, finished>>
  BY <1>2, ProceedsTypes, SeatsOf, <1>1 DEF AccessTypes, CallTypes
<1>3. ASSUME Answers(r), RestKept, UNCHANGED <<invites, sessions>>
      PROVE  CallTypes' /\ UNCHANGED <<invites, twice, finished>>
  BY <1>3, AnswersTypes, SeatsOf, <1>1 DEF AccessTypes, CallTypes
<1>5. CASE ReadInvite(r)
  <2>1. UNCHANGED <<stored, invites, sessions, halted, twice, sent, accessFaults>>
        /\ finished' \subseteq finished /\ (Proceeds(r, "findUser") \/ Answers(r))
    BY <1>5 DEF ReadInvite
  <2>2. reqs' \in [Request -> SignRequest]
    BY <2>1, ProceedsTypes, AnswersTypes DEF Steps
  <2>3. CallTypes'
    BY <2>1, <2>2 DEF AccessTypes, CallTypes
  <2> QED
    BY <2>1, <2>3, StoredKept DEF AccessTypes
<1>6. CASE FindUser(r)
  <2>1. /\ UNCHANGED <<stored, invites, sessions>> /\ RestKept
        /\ reqs' = [reqs EXCEPT ![r].at = "writeUser", ![r].found = users[reqs[r].user].there]
    BY <1>6 DEF FindUser
  <2>2. users[reqs[r].user].there \in BOOLEAN
    BY <1>1 DEF AccessTypes, RowTypes, UserRow
  <2>3. reqs' \in [Request -> SignRequest]
    BY <1>1, <2>1, <2>2 DEF SignRequest, Steps
  <2>4. CallTypes'
    BY <2>1, <2>3 DEF AccessTypes, CallTypes, RestKept
  <2> QED
    BY <2>1, <2>4, StoredKept DEF AccessTypes, RestKept
<1>7. CASE WriteUser(r)
  <2>1. /\ UNCHANGED <<tenant, workspaces, tMember, wMember, tenantWs, profiles, invites, sessions>> /\ RestKept
        /\ \/ Answers(r) /\ UNCHANGED users
           \/ /\ users' = [users EXCEPT ![reqs[r].user] =
                             [there |-> TRUE, pw |-> reqs[r].pw, onboarded |-> FALSE]]
              /\ Proceeds(r, "joinTenant")
    BY <1>7 DEF WriteUser
  <2>2. CallTypes' /\ UNCHANGED <<twice, finished>>
    BY <1>2, <1>3, <2>1 DEF Steps
  <2>3. CASE UNCHANGED users
    BY <2>1, <2>2, <2>3, StoredKept DEF AccessTypes, stored
  <2>4. CASE users' = [users EXCEPT ![reqs[r].user] =
                             [there |-> TRUE, pw |-> reqs[r].pw, onboarded |-> FALSE]]
    BY <1>1, <2>1, <2>2, <2>4 DEF AccessTypes, RowTypes, Grows, UserRow
  <2> QED
    BY <2>1, <2>3, <2>4
<1>8. CASE JoinTenant(r)
  <2>1. /\ UNCHANGED <<users, tenant, workspaces, wMember, tenantWs, profiles, invites, sessions>> /\ RestKept
        /\ tMember' = [tMember EXCEPT ![reqs[r].user] = invites[reqs[r].inv].role]
        /\ Proceeds(r, "joinWorkspace") /\ reqs[r].at \in Inviting
    BY <1>8 DEF JoinTenant, Stands, Inviting
  <2>2. CallTypes' /\ UNCHANGED <<twice, finished>>
    BY <1>2, <2>1 DEF Steps
  <2>3. invites[reqs[r].inv].role \in {"ADMIN", "MEMBER"}
    BY <1>1, <2>1 DEF InviteRow
  <2> QED
    BY <1>1, <2>1, <2>2, <2>3 DEF AccessTypes, RowTypes, Grows
<1>9. CASE JoinWorkspace(r)
  <2>1. /\ UNCHANGED <<users, tenant, workspaces, tMember, tenantWs, profiles, invites, sessions>> /\ RestKept
        /\ wMember' = [wMember EXCEPT ![reqs[r].user] = @ \cup {reqs[r].ws}]
        /\ Proceeds(r, "openWorkspace")
    BY <1>9 DEF JoinWorkspace
  <2>2. CallTypes' /\ UNCHANGED <<twice, finished>>
    BY <1>2, <2>1 DEF Steps
  <2> QED
    BY <1>1, <2>1, <2>2 DEF AccessTypes, RowTypes, Grows
<1>10. CASE OpenWorkspace(r)
  <2>1. /\ UNCHANGED <<users, tenant, workspaces, tMember, wMember, profiles, invites, sessions>> /\ RestKept
        /\ tenantWs' = tenantWs \cup {reqs[r].ws} /\ Proceeds(r, "mark")
    BY <1>10 DEF OpenWorkspace
  <2>2. CallTypes' /\ UNCHANGED <<twice, finished>>
    BY <1>2, <2>1 DEF Steps
  <2> QED
    BY <1>1, <2>1, <2>2 DEF AccessTypes, RowTypes, Grows
<1>11. CASE MarkAccepted(r)
  <2>1. /\ UNCHANGED stored /\ reqs[r].inv \in Invite
        /\ invites' = [invites EXCEPT ![reqs[r].inv].state = "accepted"]
        /\ SignIn(r, reqs[r].user, reqs[r].ws)
    BY <1>11 DEF MarkAccepted, Stands, Inviting
  <2>2. invites' \in [Invite -> InviteRow]
    BY <1>1, <2>1 DEF InviteRow
  <2>3. CallTypes' /\ UNCHANGED <<twice, finished>>
    BY <1>1, <2>1, <2>2, AnswersTypes, SeatsOf DEF AccessTypes, CallTypes
  <2>4. \A i \in Invite : invites[i].state # "none" =>
          invites'[i].state # "none" /\ invites'[i].user = invites[i].user /\ invites'[i].ws = invites[i].ws
    BY <1>1, <2>1 DEF InviteRow
  <2> QED
    BY <2>1, <2>3, <2>4, StoredKept DEF AccessTypes, stored, Grows
<1> QED
  BY <1>5, <1>6, <1>7, <1>8, <1>9, <1>10, <1>11 DEF InviteStep

LEMMA OnboardTypes ==
    ASSUME AccessTypes, NEW r \in Request, OnboardStep(r)
    PROVE  AccessTypes' /\ Grows /\ UNCHANGED invites
<1>1. /\ reqs \in [Request -> SignRequest] /\ reqs[r] \in SignRequest
      /\ reqs[r].user \in Account /\ reqs[r].ws \in Workspace
  BY DEF AccessTypes, CallTypes, SignRequest
<1>2. ASSUME NEW step \in Steps, Proceeds(r, step) \/ Answers(r), RestKept, UNCHANGED <<invites, sessions>>
      PROVE  CallTypes' /\ UNCHANGED <<invites, twice, finished>>
  BY <1>2, ProceedsTypes, AnswersTypes, SeatsOf, <1>1 DEF AccessTypes, CallTypes
<1>3. CASE UpdateUser(r)
  <2>1. /\ users' = [users EXCEPT ![reqs[r].user].onboarded = TRUE] /\ Proceeds(r, "profile") /\ RestKept
        /\ UNCHANGED <<tenant, workspaces, tMember, wMember, tenantWs, profiles, invites, sessions>>
    BY <1>3 DEF UpdateUser
  <2>2. CallTypes' /\ UNCHANGED <<twice, finished>>
    BY <1>2, <2>1 DEF Steps
  <2> QED
    BY <1>1, <2>1, <2>2 DEF AccessTypes, RowTypes, Grows, UserRow
<1>4. CASE UpsertProfile(r)
  <2>1. /\ \/ reqs[r].ws \in tenantWs /\ profiles' = profiles \cup {reqs[r].ws}
           \/ UNCHANGED profiles
        /\ Proceeds(r, "profileDone") \/ Answers(r)
        /\ UNCHANGED <<users, tenant, workspaces, tMember, wMember, tenantWs, invites, sessions>> /\ RestKept
    BY <1>4 DEF UpsertProfile
  <2>2. CallTypes' /\ UNCHANGED <<twice, finished>>
    BY <1>2, <2>1 DEF Steps
  <2> QED
    BY <1>1, <2>1, <2>2 DEF AccessTypes, RowTypes, Grows
<1>5. CASE EndOnboarding(r)
  <2>1. /\ tenantWs' = tenantWs \cup {reqs[r].ws} /\ Answers(r)
        /\ finished' = finished \cup {[user |-> reqs[r].user, ws |-> reqs[r].ws]}
        /\ UNCHANGED <<users, tenant, workspaces, tMember, wMember, profiles, invites, sessions,
                       twice, sent, accessFaults>>
    BY <1>5 DEF EndOnboarding
  <2>2. CallTypes'
    BY <1>1, <2>1, AnswersTypes DEF AccessTypes, CallTypes, Seat
  <2> QED
    BY <1>1, <2>1, <2>2 DEF AccessTypes, RowTypes, Grows
<1> QED
  BY <1>3, <1>4, <1>5 DEF OnboardStep

LEMMA ReceivedTypes ==
    ASSUME AccessTypes, NEW r \in Request, Received(r) \/ Halt(r)
    PROVE  AccessTypes' /\ Grows /\ UNCHANGED <<stored, invites, sessions, finished>>
<1>1. ASSUME NEW q \in SignRequest, Receive(r, q), UNCHANGED <<stored, invites, sessions, finished, accessFaults>>
      PROVE  CallTypes' /\ twice \subseteq twice'
  BY <1>1, ReceiveTypes DEF AccessTypes, CallTypes, Receive
<1>2. ASSUME NEW u \in Account, NEW pw \in Password \cup {EnvPassword}, Login(r, u, pw)
      PROVE  AccessTypes' /\ Grows /\ UNCHANGED <<stored, invites, sessions, finished>>
  <2> DEFINE q == [NoRequest EXCEPT !.at = "credentials", !.user = u, !.pw = pw]
  <2>1. q \in SignRequest
    BY NoRows DEF SignRequest, Steps
  <2>2. Receive(r, q) /\ UNCHANGED <<stored, invites, sessions, finished, accessFaults>>
    BY <1>2 DEF Login
  <2> QED
    BY <1>1, <2>1, <2>2, StoredKept DEF AccessTypes, Grows, stored
<1>3. ASSUME NEW i \in Invite, NEW pw \in Password, AcceptInvite(r, i, pw)
      PROVE  AccessTypes' /\ Grows /\ UNCHANGED <<stored, invites, sessions, finished>>
  <2> DEFINE q == [NoRequest EXCEPT !.at = "invitation", !.user = invites[i].user, !.inv = i,
                                    !.ws = invites[i].ws, !.pw = pw]
  <2>1. invites[i] \in InviteRow
    BY DEF AccessTypes, CallTypes
  <2>2. q \in SignRequest
    BY <2>1, NoRows DEF SignRequest, InviteRow, Steps
  <2>3. Receive(r, q) /\ UNCHANGED <<stored, invites, sessions, finished, accessFaults>>
    BY <1>3 DEF AcceptInvite
  <2> QED
    BY <1>1, <2>2, <2>3, StoredKept DEF AccessTypes, Grows, stored
<1>4. ASSUME NEW s \in sessions, Onboard(r, s)
      PROVE  AccessTypes' /\ Grows /\ UNCHANGED <<stored, invites, sessions, finished>>
  <2> DEFINE q == [NoRequest EXCEPT !.at = "profileOfUser", !.user = s.user, !.ws = s.ws]
  <2>1. q \in SignRequest
    BY NoRows DEF SignRequest, Steps, AccessTypes, CallTypes, Seat
  <2>2. Receive(r, q) /\ UNCHANGED <<stored, invites, sessions, finished, accessFaults>>
    BY <1>4 DEF Onboard
  <2> QED
    BY <1>1, <2>1, <2>2, StoredKept DEF AccessTypes, Grows, stored
<1>5. CASE Halt(r)
  <2>1. /\ accessFaults < MaxAccessFaults /\ accessFaults' = accessFaults + 1 /\ Answers(r)
        /\ UNCHANGED <<stored, invites, sessions, twice, finished, sent>>
    BY <1>5 DEF Halt
  <2>2. CallTypes'
    BY <2>1, AnswersTypes DEF AccessTypes, CallTypes
  <2> QED
    BY <2>1, <2>2, StoredKept DEF AccessTypes
<1> QED
  BY <1>2, <1>3, <1>4, <1>5 DEF Received

LEMMA AsideTypes ==
    ASSUME AccessTypes, Aside \/ UNCHANGED accessVars
    PROVE  AccessTypes' /\ Grows /\ UNCHANGED <<stored, reqs, halted, twice, finished>>
<1>1. ASSUME NEW s \in sessions, Logout(s)
      PROVE  AccessTypes' /\ Grows /\ UNCHANGED <<stored, reqs, halted, twice, finished>>
  <2>1. UNCHANGED <<stored, invites, reqs>> /\ RestKept /\ sessions' \subseteq sessions
    BY <1>1 DEF Logout
  <2>2. CallTypes' /\ UNCHANGED <<halted, twice, finished>>
    BY <2>1 DEF AccessTypes, CallTypes, RestKept
  <2> QED
    BY <2>1, <2>2, StoredKept DEF AccessTypes
<1>2. ASSUME NEW s \in sessions, NEW i \in Invite, NEW u \in Guest, NEW ws \in Workspace,
             NEW role \in {"ADMIN", "MEMBER"}, InviteUser(s, i, u, ws, role)
      PROVE  AccessTypes' /\ Grows /\ UNCHANGED <<stored, reqs, halted, twice, finished>>
  <2>1. /\ invites[i].state = "none" /\ UNCHANGED <<stored, reqs, sessions>> /\ RestKept
        /\ invites' = [invites EXCEPT ![i] = [state |-> "open", user |-> u, ws |-> ws, role |-> role]]
    BY <1>2 DEF InviteUser
  <2>2. invites \in [Invite -> InviteRow] /\ invites' \in [Invite -> InviteRow]
    BY <2>1 DEF AccessTypes, CallTypes, InviteRow, Account
  <2>3. CallTypes' /\ UNCHANGED <<halted, twice, finished>>
    BY <2>1, <2>2 DEF AccessTypes, CallTypes, RestKept
  <2>4. \A j \in Invite : invites[j].state # "none" => invites'[j] = invites[j]
    BY <2>1, <2>2
  <2> QED
    BY <2>1, <2>3, <2>4, StoredKept DEF AccessTypes, Grows, stored
<1>3. ASSUME NEW i \in Invite, InviteExpires(i)
      PROVE  AccessTypes' /\ Grows /\ UNCHANGED <<stored, reqs, halted, twice, finished>>
  <2>1. /\ invites[i].state = "open" /\ invites' = [invites EXCEPT ![i].state = "expired"]
        /\ UNCHANGED <<stored, reqs, sessions>> /\ RestKept
    BY <1>3 DEF InviteExpires
  <2>2. invites \in [Invite -> InviteRow] /\ invites' \in [Invite -> InviteRow]
    BY <2>1 DEF AccessTypes, CallTypes, InviteRow
  <2>3. CallTypes' /\ UNCHANGED <<halted, twice, finished>>
    BY <2>1, <2>2 DEF AccessTypes, CallTypes, RestKept
  <2>4. \A j \in Invite : invites[j].state # "none" =>
          invites'[j].state # "none" /\ invites'[j].user = invites[j].user /\ invites'[j].ws = invites[j].ws
    BY <2>1, <2>2 DEF InviteRow
  <2> QED
    BY <2>1, <2>3, <2>4, StoredKept DEF AccessTypes, Grows, stored
<1>4. CASE UNCHANGED accessVars
  BY <1>4, StoredKept DEF AccessTypes, CallTypes, accessVars
<1> QED
  BY <1>1, <1>2, <1>3, <1>4 DEF Aside

-----------------------------------------------------------------------------
(* The invariant                                                           *)

Internal == {"findTenant", "createTenant", "tenantWorkspace", "workspace", "account", "member", "owner"}
(* Steps between the account's row and its last one, and after the first of   *)
(* the two memberships.                                                       *)
Building == {"member", "owner", "joinTenant", "joinWorkspace", "openWorkspace"}
AfterJoin == {"owner", "joinWorkspace", "openWorkspace", "mark"}

(* Whom a request is for, and what rows it has written so far.                *)
Reached(r) ==
  LET at == reqs[r].at u == reqs[r].user ws == reqs[r].ws i == reqs[r].inv IN
  /\ at \in Inviting => i \in Invite /\ invites[i].state # "none" /\ invites[i].user = u /\ invites[i].ws = ws
  /\ at \in Internal => u = Root
  /\ at = "workspace" => Home \in tenantWs
  /\ at \in {"account", "member", "owner"} => Home \in workspaces
  /\ at \in Building \cup {"mark"} => users[u].there
  /\ at \in AfterJoin => tMember[u] # "none"
  /\ at \in {"openWorkspace", "mark"} => ws \in wMember[u]
  /\ at = "mark" => ws \in tenantWs
  /\ at = "profileDone" => ws \in profiles
  /\ at \in {"profile", "profileDone"} => users[u].onboarded \/ u \in twice
  /\ at \in {"findUser", "writeUser"} => u \in twice \/ \A s \in finished : s.user # u

(* What the rows say of each other, with requests under way.                  *)
Rooms ==
  /\ workspaces \subseteq tenantWs \cup {Seeded}
  /\ \A u \in Account : wMember[u] \subseteq workspaces
  /\ \A i \in Invite : invites[i].state # "none" => invites[i].ws \in workspaces
Accepted ==
  \A i \in Invite : invites[i].state = "accepted" =>
    users[invites[i].user].there /\ invites[i].ws \in wMember[invites[i].user] \cap tenantWs
Together ==
  \A p, q \in Request : p # q /\ reqs[p].at # "idle" /\ reqs[q].at # "idle" /\ reqs[p].user = reqs[q].user
    => reqs[p].user \in twice
Onboarded == \A s \in finished : s.ws \in profiles /\ (users[s.user].onboarded \/ s.user \in twice)
Whole ==
  \A u \in Account \ halted : users[u].there =>
    \/ tMember[u] # "none" /\ wMember[u] # {}
    \/ \E r \in Request : reqs[r].at \in Building /\ reqs[r].user = u
AccessInv ==
  /\ AccessTypes /\ (\A r \in Request : Reached(r))
  /\ Rooms /\ Accepted /\ Together /\ Onboarded /\ Whole

LEMMA AccessInvImplies == AccessInv => AccountsWhole /\ AccessTypeOK
<1> SUFFICES ASSUME AccessInv PROVE AccountsWhole /\ AccessTypeOK
  OBVIOUS
<1>1. AccessTypeOK
  BY DEF AccessInv, AccessTypes, RowTypes, CallTypes, AccessTypeOK, UserRow, InviteRow
<1>2. ASSUME NEW u \in Account \ halted
      PROVE  /\ users[u].there /\ ~InHand(u) =>
                  /\ tMember[u] # "none" /\ wMember[u] # {}
                  /\ wMember[u] \ {Seeded} \subseteq tenantWs
             /\ \A i \in Invite : invites[i].state = "accepted" /\ invites[i].user = u =>
                  users[u].there /\ invites[i].ws \in wMember[u] \cap tenantWs
             /\ \A s \in finished : s.user = u => s.ws \in profiles /\ (users[u].onboarded \/ u \in twice)
  <2>1. wMember[u] \ {Seeded} \subseteq tenantWs
    BY DEF AccessInv, Rooms
  <2>2. ASSUME ~InHand(u), users[u].there PROVE tMember[u] # "none" /\ wMember[u] # {}
    BY <2>2 DEF AccessInv, Whole, InHand, Building
  <2> QED
    BY <2>1, <2>2 DEF AccessInv, Accepted, Onboarded
<1> QED
  BY <1>1, <1>2 DEF AccountsWhole

LEMMA InitAccessInv == AccessInit => AccessInv
<1> SUFFICES ASSUME AccessInit PROVE AccessInv
  OBVIOUS
<1>1. AccessTypes
  BY InitAccess
<1>2. \A r \in Request : reqs[r].at = "idle"
  BY DEF AccessInit, NoRequest
<1>3. \A i \in Invite : invites[i].state = "none"
  BY DEF AccessInit, NoInvite
<1>4. \A r \in Request : Reached(r)
  BY <1>2 DEF Reached, Inviting, Internal, Building, AfterJoin
<1>5. Rooms /\ Accepted /\ Together /\ Onboarded
  BY <1>2, <1>3 DEF AccessInit, Rooms, Accepted, Together, Onboarded
<1>6. Whole
  <2>1. PICK done \in 0 .. 5, pw \in Password \cup {EnvPassword} :
          /\ users = [u \in Account |-> IF u = Root /\ done >= 1 THEN [there |-> TRUE, pw |-> pw, onboarded |-> TRUE]
                                        ELSE NoAccount]
          /\ tMember = [u \in Account |-> IF u = Root /\ done >= 4 THEN "ADMIN" ELSE "none"]
          /\ wMember = [u \in Account |-> IF u = Root /\ done = 5 THEN {Seeded} ELSE {}]
          /\ halted = IF done \in 1 .. 4 THEN {Root} ELSE {}
    BY DEF AccessInit
  <2>2. ASSUME NEW u \in Account, u \notin halted, users[u].there PROVE u = Root /\ done = 5
    BY <2>1, <2>2 DEF NoAccount
  <2>3. ASSUME done = 5 PROVE tMember[Root] # "none" /\ wMember[Root] # {}
    BY <2>1, <2>3 DEF Account
  <2> QED
    BY <2>2, <2>3 DEF Whole
<1> QED
  BY <1>1, <1>4, <1>5, <1>6 DEF AccessInv

-----------------------------------------------------------------------------
(* Every step keeps it                                                     *)

(* What a request has reached it keeps while another step is taken.           *)
LEMMA ReachedKept ==
    ASSUME AccessInv, Grows, NEW q \in Request, reqs'[q] = reqs[q],
           reqs[q].at \in {"profile", "profileDone"} =>
             reqs[q].user \in twice \/ (users[reqs[q].user].onboarded => users'[reqs[q].user].onboarded),
           reqs[q].at \in {"findUser", "writeUser"} =>
             reqs[q].user \in twice \/ \A s \in finished' : s \in finished \/ s.user # reqs[q].user
    PROVE  Reached(q)'
<1>1. reqs[q].user \in Account /\ Reached(q)
  BY DEF AccessInv, AccessTypes, CallTypes, SignRequest
<1> QED
  BY <1>1 DEF Reached, Grows

(* Two requests of one account that are under way at once have been noticed.  *)
LEMMA TogetherKept ==
    ASSUME AccessInv, Grows, NEW r \in Request, NEW x, Goes(r, x),
           x.at # "idle" => reqs[r].at # "idle" /\ x.user = reqs[r].user
    PROVE  Together'
<1>1. reqs'[r] = x /\ \A q \in Request \ {r} : reqs'[q] = reqs[q]
  BY MovedTypes DEF AccessInv
<1>2. ASSUME NEW p \in Request, NEW q \in Request, p # q, reqs'[p].at # "idle", reqs'[q].at # "idle",
             reqs'[p].user = reqs'[q].user
      PROVE  reqs'[p].user \in twice'
  <2>1. /\ reqs[p].at # "idle" /\ reqs[p].user = reqs'[p].user
        /\ reqs[q].at # "idle" /\ reqs[q].user = reqs'[q].user
    BY <1>1, <1>2
  <2>2. reqs[p].user \in twice
    BY <1>2, <2>1 DEF AccessInv, Together
  <2> QED
    BY <2>1, <2>2 DEF Grows
<1> QED
  BY <1>2 DEF Together

(* What the rows say of each other survives while nothing new is claimed.     *)
LEMMA RowsKept ==
    ASSUME AccessInv, AccessTypes', Grows
    PROVE  /\ UNCHANGED <<workspaces, wMember, invites>> => Rooms'
           /\ UNCHANGED invites => Accepted'
           /\ UNCHANGED users /\ finished' \subseteq finished => Onboarded'
<1>1. UNCHANGED <<workspaces, wMember, invites>> => Rooms'
  BY DEF AccessInv, Rooms, Grows
<1>2. UNCHANGED invites => Accepted'
  BY DEF AccessInv, Accepted, Grows, AccessTypes, CallTypes, InviteRow
<1>3. UNCHANGED users /\ finished' \subseteq finished => Onboarded'
  BY DEF AccessInv, Onboarded, Grows, AccessTypes, CallTypes, Seat
<1> QED
  BY <1>1, <1>2, <1>3

(* An account is whole, or somebody is still at it.                           *)
LEMMA WholeStays ==
    ASSUME AccessInv, AccessTypes', Grows, NEW r \in Request, NEW x, Goes(r, x),
           \A u \in Account \ halted' : /\ u \in halted => tMember'[u] # "none" /\ wMember'[u] # {}
                                        /\ users'[u].there /\ ~users[u].there => x.user = u /\ x.at \in Building,
           reqs[r].at \in Building /\ reqs[r].user \notin halted' =>
             \/ x.at \in Building /\ x.user = reqs[r].user
             \/ tMember'[reqs[r].user] # "none" /\ wMember'[reqs[r].user] # {}
    PROVE  Whole'
<1>1. reqs'[r] = x /\ \A q \in Request \ {r} : reqs'[q] = reqs[q]
  BY MovedTypes DEF AccessInv
<1> SUFFICES ASSUME NEW u \in Account \ halted', users'[u].there
             PROVE  \/ tMember'[u] # "none" /\ wMember'[u] # {}
                    \/ \E q \in Request : reqs'[q].at \in Building /\ reqs'[q].user = u
  BY DEF Whole
<1>2. CASE u \in halted \/ ~users[u].there
  BY <1>1, <1>2
<1>3. CASE u \notin halted /\ users[u].there
  <2>1. CASE tMember[u] # "none" /\ wMember[u] # {}
    BY <2>1 DEF Grows
  <2>2. CASE \E q \in Request : reqs[q].at \in Building /\ reqs[q].user = u
    BY <1>1, <2>2
  <2> QED
    BY <1>3, <2>1, <2>2 DEF AccessInv, Whole
<1> QED
  BY <1>2, <1>3

(* A step that takes no onboarding back and tells nobody that it is done.     *)
LEMMA OthersKept ==
    ASSUME AccessInv, AccessTypes', Grows, NEW r \in Request, NEW x, Goes(r, x), Reached(r)',
           finished' \subseteq finished,
           \A u \in Account : users[u].onboarded => users'[u].onboarded,
           x.at # "idle" => reqs[r].at # "idle" /\ x.user = reqs[r].user
    PROVE  (\A q \in Request : Reached(q))' /\ Together' /\ Onboarded'
<1>1. reqs'[r] = x /\ \A q \in Request \ {r} : reqs'[q] = reqs[q]
  BY MovedTypes DEF AccessInv
<1>2. \A q \in Request : reqs[q].user \in Account
  BY DEF AccessInv, AccessTypes, CallTypes, SignRequest
<1>3. ASSUME NEW q \in Request \ {r} PROVE Reached(q)'
  BY <1>1, <1>2, <1>3, ReachedKept
<1>4. Onboarded'
  BY DEF AccessInv, Onboarded, Grows, AccessTypes, CallTypes, Seat
<1> QED
  BY <1>3, <1>4, TogetherKept

(* A request that is answered has nothing more to reach.                      *)
LEMMA AnsweredReached ==
    ASSUME AccessInv, NEW r \in Request, Answers(r)
    PROVE  Reached(r)' /\ Goes(r, NoRequest) /\ NoRequest.at = "idle"
<1>1. Goes(r, NoRequest)
  BY RequestMoves DEF AccessInv
<1>2. reqs'[r] = NoRequest
  BY <1>1, MovedTypes DEF AccessInv
<1> QED
  BY <1>1, <1>2 DEF Reached, NoRequest, Inviting, Internal, Building, AfterJoin

(* One that goes on is for the same account, workspace and invitation.        *)
LEMMA ProceedsTo ==
    ASSUME AccessInv, NEW r \in Request, NEW step \in Steps, Proceeds(r, step)
    PROVE  /\ Goes(r, [reqs[r] EXCEPT !.at = step])
           /\ reqs'[r].at = step /\ reqs'[r].user = reqs[r].user
           /\ reqs'[r].ws = reqs[r].ws /\ reqs'[r].inv = reqs[r].inv
<1>1. Goes(r, [reqs[r] EXCEPT !.at = step])
  BY RequestMoves DEF AccessInv
<1>2. reqs'[r] = [reqs[r] EXCEPT !.at = step] /\ reqs[r] \in SignRequest
  BY <1>1, MovedTypes DEF AccessInv, AccessTypes, CallTypes
<1> QED
  BY <1>1, <1>2 DEF SignRequest

LEMMA LoginKeeps ==
    ASSUME AccessInv, NEW r \in Request, LoginStep(r)
    PROVE  AccessInv'
<1>1. AccessTypes' /\ Grows /\ UNCHANGED <<invites, finished>>
  BY LoginTypes DEF AccessInv
<1>2. Reached(r) /\ reqs[r].user \in Account /\ users \in [Account -> UserRow] /\ Root \in Account
  BY DEF AccessInv, AccessTypes, RowTypes, CallTypes, SignRequest, Account
<1>3. reqs[r].at \in Internal \cup {"credentials"}
  BY DEF LoginStep, Authenticate, FindTenant, CreateTenant, UpsertTenantWorkspace, UpsertWorkspace, UpsertAccount,
    UpsertTenantMember, UpsertWorkspaceMember, Stands, Internal
<1>4. \A u \in Account : users[u].onboarded => users'[u].onboarded
  BY <1>2 DEF LoginStep, Authenticate, FindTenant, CreateTenant, UpsertTenantWorkspace, UpsertWorkspace, UpsertAccount,
    UpsertTenantMember, UpsertWorkspaceMember, stored
<1>5. Accepted'
  BY <1>1, RowsKept
<1>6. Rooms'
  BY <1>1, <1>2 DEF LoginStep, Authenticate, FindTenant, CreateTenant, UpsertTenantWorkspace, UpsertWorkspace,
    UpsertAccount, UpsertTenantMember, UpsertWorkspaceMember, stored, AccessInv, Rooms, Reached, Stands,
    AccessTypes, RowTypes
<1>7. UpsertWorkspaceMember(r) => reqs[r].user = Root /\ tMember'[Root] # "none" /\ wMember'[Root] # {}
  <2> SUFFICES ASSUME UpsertWorkspaceMember(r) PROVE reqs[r].user = Root /\ tMember'[Root] # "none" /\ wMember'[Root] # {}
    OBVIOUS
  <2>1. reqs[r].at = "owner" /\ tMember' = tMember /\ wMember' = [wMember EXCEPT ![Root] = @ \cup {Home}]
    BY DEF UpsertWorkspaceMember, Stands
  <2>2. reqs[r].user = Root /\ tMember[Root] # "none"
    BY <1>2, <2>1 DEF Reached, Internal, AfterJoin
  <2>3. wMember \in [Account -> SUBSET Workspace]
    BY DEF AccessInv, AccessTypes, RowTypes
  <2> QED
    BY <1>2, <2>1, <2>2, <2>3
<1>8. CASE Answers(r)
  <2>1. Authenticate(r) \/ CreateTenant(r) \/ UpsertWorkspaceMember(r)
    <3>1. reqs[r] \in SignRequest /\ reqs \in [Request -> SignRequest]
      BY DEF AccessInv, AccessTypes, CallTypes
    <3>2. ASSUME NEW step \in Steps \ {"idle"}, Proceeds(r, step) PROVE FALSE
      BY <1>8, <3>1, <3>2 DEF Proceeds, Answers, NoRequest, SignRequest
    <3> QED
      BY <3>2 DEF LoginStep, FindTenant, UpsertTenantWorkspace, UpsertWorkspace, UpsertAccount, UpsertTenantMember,
        Steps
  <2>2. users' = users
    BY <2>1 DEF Authenticate, CreateTenant, UpsertWorkspaceMember, stored
  <2>3. \A u \in Account \ halted' : u \in halted => tMember'[u] # "none" /\ wMember'[u] # {}
    <3>1. CASE Authenticate(r)
      BY <1>2, <3>1 DEF Authenticate, SignIn, RestKept, Refused, stored
    <3>2. CASE CreateTenant(r)
      BY <3>2 DEF CreateTenant, RestKept
    <3>3. CASE UpsertWorkspaceMember(r)
      BY <1>7, <3>3 DEF UpsertWorkspaceMember, SignIn
    <3> QED
      BY <2>1, <3>1, <3>2, <3>3
  <2>4. reqs[r].at \in Building => tMember'[reqs[r].user] # "none" /\ wMember'[reqs[r].user] # {}
    <3>1. reqs[r].at \in Building => UpsertWorkspaceMember(r)
      BY <2>1 DEF Authenticate, CreateTenant, UpsertWorkspaceMember, Stands, Building
    <3> QED
      BY <1>7, <3>1
  <2>5. Reached(r)' /\ Goes(r, NoRequest) /\ NoRequest.at = "idle"
    BY <1>8, AnsweredReached
  <2>6. Whole'
    BY <1>1, <2>2, <2>3, <2>4, <2>5, WholeStays
  <2> QED
    BY <1>1, <1>4, <1>5, <1>6, <2>5, <2>6, OthersKept DEF AccessInv
<1>9. CASE ~Answers(r)
  <2>1. PICK step \in Internal :
          /\ Proceeds(r, step) /\ halted' = halted
          /\ reqs[r].user = Root
          /\ step = "workspace" => Home \in tenantWs'
          /\ step \in {"account", "member", "owner"} => Home \in workspaces'
          /\ step \in {"member", "owner"} => users'[Root].there
          /\ step = "owner" => tMember'[Root] # "none"
          /\ reqs[r].at \in Building => step = "owner"
          /\ \A u \in Account : users'[u].there /\ ~users[u].there => u = Root /\ step = "member"
    <3>1. CASE Authenticate(r)
      BY <1>9, <3>1 DEF Authenticate, SignIn, Internal, Building, Stands, RestKept, stored
    <3>2. CASE FindTenant(r)
      BY <1>2, <3>2 DEF FindTenant, Internal, Building, Stands, RestKept, stored, Reached
    <3>3. CASE CreateTenant(r)
      BY <1>2, <1>9, <3>3 DEF CreateTenant, Internal, Building, Stands, RestKept, Reached
    <3>4. CASE UpsertTenantWorkspace(r)
      BY <1>2, <3>4 DEF UpsertTenantWorkspace, Internal, Building, Stands, RestKept, Reached
    <3>5. CASE UpsertWorkspace(r)
      BY <1>2, <3>5 DEF UpsertWorkspace, Internal, Building, Stands, RestKept, Reached
    <3>6. CASE UpsertAccount(r)
      BY <1>2, <3>6 DEF UpsertAccount, Internal, Building, Stands, RestKept, Reached
    <3>7. CASE UpsertTenantMember(r)
      BY <1>2, <3>7 DEF UpsertTenantMember, Internal, Building, Stands, RestKept, Reached, AccessInv, AccessTypes,
        RowTypes
    <3> QED
      BY <1>9, <3>1, <3>2, <3>3, <3>4, <3>5, <3>6, <3>7 DEF LoginStep, UpsertWorkspaceMember, SignIn
  <2> DEFINE x == [reqs[r] EXCEPT !.at = step]
  <2>2. /\ Goes(r, x)
        /\ reqs'[r].at = step /\ reqs'[r].user = reqs[r].user /\ reqs[r].user = Root
        /\ reqs'[r].ws = reqs[r].ws /\ reqs'[r].inv = reqs[r].inv
    BY <2>1, ProceedsTo DEF Internal, Steps
  <2>3. x.at = step /\ x.user = Root
    BY <2>2, MovedTypes DEF AccessInv
  <2> HIDE DEF x
  <2>4. Reached(r)'
    BY <2>1, <2>2 DEF Reached, Inviting, Internal, Building, AfterJoin
  <2>5. Whole'
    BY <1>1, <2>1, <2>2, <2>3, WholeStays DEF Building
  <2> QED
    BY <1>1, <1>3, <1>4, <1>5, <1>6, <2>2, <2>3, <2>4, <2>5, OthersKept DEF AccessInv, Internal
<1> QED
  BY <1>8, <1>9

LEMMA InviteKeeps ==
    ASSUME AccessInv, NEW r \in Request, InviteStep(r)
    PROVE  AccessInv'
<1>1. /\ Reached(r) /\ reqs[r] \in SignRequest /\ reqs[r].user \in Account /\ reqs[r].ws \in Workspace
      /\ reqs[r].at \in Inviting /\ reqs[r].inv \in Invite
  <2>1. Reached(r) /\ reqs[r] \in SignRequest
    BY DEF AccessInv, AccessTypes, CallTypes
  <2>2. reqs[r].at \in Inviting
    BY DEF InviteStep, ReadInvite, FindUser, WriteUser, JoinTenant, JoinWorkspace, OpenWorkspace, MarkAccepted,
      Stands, Inviting
  <2> QED
    BY <2>1, <2>2 DEF Reached, SignRequest
<1>2. AccessTypes' /\ Grows /\ finished' \subseteq finished
  BY <1>1, InviteTypes DEF AccessInv
<1> DEFINE u == reqs[r].user
           ws == reqs[r].ws
           inv == reqs[r].inv
<1>3. /\ users \in [Account -> UserRow] /\ tMember \in [Account -> {"none", "ADMIN", "MEMBER"}]
      /\ wMember \in [Account -> SUBSET Workspace] /\ invites \in [Invite -> InviteRow]
      /\ reqs \in [Request -> SignRequest]
  BY DEF AccessInv, AccessTypes, RowTypes, CallTypes
<1>4. invites[inv].state # "none" /\ invites[inv].user = u /\ invites[inv].ws = ws /\ ws \in workspaces
  BY <1>1 DEF Reached, AccessInv, Rooms
<1>5. Rooms'
  <2>1. ASSUME NEW i \in Invite, invites'[i].state # "none" PROVE invites[i].state # "none" /\ invites'[i].ws = invites[i].ws
    BY <1>3, <1>4, <2>1 DEF InviteStep, ReadInvite, FindUser, WriteUser, JoinTenant, JoinWorkspace, OpenWorkspace,
      MarkAccepted, InviteRow
  <2>2. workspaces' = workspaces
    BY DEF InviteStep, ReadInvite, FindUser, WriteUser, JoinTenant, JoinWorkspace, OpenWorkspace, MarkAccepted, stored
  <2>3. \A v \in Account : wMember'[v] \subseteq wMember[v] \cup {ws}
    BY <1>1, <1>3 DEF InviteStep, ReadInvite, FindUser, WriteUser, JoinTenant, JoinWorkspace, OpenWorkspace, MarkAccepted,
      stored
  <2> QED
    BY <1>2, <1>4, <2>1, <2>2, <2>3 DEF AccessInv, Rooms, Grows
<1>6. CASE ReadInvite(r) /\ Answers(r)
  <2>1. UNCHANGED <<stored, invites, halted>> /\ reqs[r].at \notin Building
    BY <1>6 DEF ReadInvite, Stands, Building
  <2>2. Reached(r)' /\ Goes(r, NoRequest) /\ NoRequest.at = "idle"
    BY <1>6, AnsweredReached
  <2>3. Whole'
    BY <1>2, <2>1, <2>2, WholeStays DEF stored
  <2>4. Accepted' /\ \A v \in Account : users[v].onboarded => users'[v].onboarded
    BY <1>2, <2>1, RowsKept DEF stored
  <2> QED
    BY <1>2, <1>5, <2>2, <2>3, <2>4, OthersKept DEF AccessInv
<1>7. CASE ReadInvite(r) /\ Proceeds(r, "findUser")
  <2>1. UNCHANGED <<stored, invites, halted>> /\ reqs[r].at \notin Building /\ reqs[r].at # "idle"
    BY <1>7 DEF ReadInvite, Stands, Building
  <2>2. finished' = {s \in finished : s.user # u} \/ Answers(r)
    BY <1>7 DEF ReadInvite
  <2>3. CASE ~Answers(r)
    <3> DEFINE x == [reqs[r] EXCEPT !.at = "findUser"]
    <3>1. /\ Goes(r, x) /\ reqs'[r].at = "findUser" /\ reqs'[r].user = u
          /\ reqs'[r].ws = ws /\ reqs'[r].inv = inv
      BY <1>7, ProceedsTo DEF Steps
    <3>2. x.at = "findUser" /\ x.user = u
      BY <3>1, MovedTypes DEF AccessInv
    <3> HIDE DEF x
    <3>3. Reached(r)'
      BY <1>1, <1>4, <2>1, <2>2, <2>3, <3>1 DEF Reached, Inviting, Internal, Building, AfterJoin
    <3>4. Whole'
      BY <1>2, <2>1, <3>1, <3>2, WholeStays DEF stored
    <3>5. Accepted' /\ \A v \in Account : users[v].onboarded => users'[v].onboarded
      BY <1>2, <2>1, RowsKept DEF stored
    <3> QED
      BY <1>2, <1>5, <2>1, <3>1, <3>2, <3>3, <3>4, <3>5, OthersKept DEF AccessInv
  <2> QED
    BY <1>6, <1>7, <2>3
<1>8. CASE FindUser(r)
  <2> DEFINE x == [reqs[r] EXCEPT !.at = "writeUser", !.found = users[u].there]
  <2>1. /\ UNCHANGED <<stored, invites, halted, twice, finished>> /\ reqs[r].at = "findUser"
        /\ reqs' = [reqs EXCEPT ![r].at = "writeUser", ![r].found = users[u].there]
    BY <1>8 DEF FindUser, Stands, RestKept
  <2>2. reqs' = [reqs EXCEPT ![r] = x]
    BY <1>3, <2>1
  <2>3. x \in SignRequest /\ x.at = "writeUser" /\ x.user = u /\ x.ws = ws /\ x.inv = inv
    BY <1>1, <1>3 DEF SignRequest, UserRow, Steps
  <2> HIDE DEF x
  <2>4. Goes(r, x) /\ reqs'[r] = x
    BY <1>3, <2>2, <2>3 DEF Goes
  <2>5. Reached(r)'
    <3>1. u \in twice \/ \A s \in finished : s.user # u
      BY <1>1, <2>1 DEF Reached
    <3>2. /\ reqs'[r].at = "writeUser" /\ reqs'[r].user = u /\ reqs'[r].ws = ws /\ reqs'[r].inv = inv
      BY <2>3, <2>4
    <3>3. /\ invites' = invites /\ inv \in Invite /\ invites[inv].state # "none"
          /\ invites[inv].user = u /\ invites[inv].ws = ws
      BY <1>1, <1>4, <2>1
    <3>4. u \in twice' \/ \A s \in finished' : s.user # u
      BY <2>1, <3>1
    <3> QED
      BY <3>2, <3>3, <3>4 DEF Reached, Inviting, Internal, Building, AfterJoin
  <2>6. Whole'
    BY <1>2, <2>1, <2>3, <2>4, WholeStays DEF stored, Building
  <2>7. Accepted' /\ \A v \in Account : users[v].onboarded => users'[v].onboarded
    BY <1>2, <2>1, RowsKept DEF stored
  <2> QED
    BY <1>2, <1>5, <2>1, <2>3, <2>4, <2>5, <2>6, <2>7, OthersKept DEF AccessInv
<1>9. CASE WriteUser(r)
  <2>1. /\ UNCHANGED <<tenant, workspaces, tMember, wMember, tenantWs, profiles, invites>>
        /\ UNCHANGED <<halted, twice, finished>> /\ reqs[r].at = "writeUser"
        /\ \/ Answers(r) /\ UNCHANGED users
           \/ /\ users' = [users EXCEPT ![u] = [there |-> TRUE, pw |-> reqs[r].pw, onboarded |-> FALSE]]
              /\ Proceeds(r, "joinTenant")
    BY <1>9 DEF WriteUser, Stands, RestKept
  <2>2. Accepted'
    BY <1>2, <2>1, RowsKept
  <2>3. CASE Answers(r) /\ UNCHANGED users
    <3>1. Reached(r)' /\ Goes(r, NoRequest) /\ NoRequest.at = "idle"
      BY <2>3, AnsweredReached
    <3>2. Whole'
      BY <1>2, <2>1, <2>3, <3>1, WholeStays DEF Building
    <3> QED
      BY <1>2, <1>5, <2>2, <2>3, <3>1, <3>2, OthersKept DEF AccessInv
  <2>4. CASE /\ users' = [users EXCEPT ![u] = [there |-> TRUE, pw |-> reqs[r].pw, onboarded |-> FALSE]]
             /\ Proceeds(r, "joinTenant")
    <3> DEFINE x == [reqs[r] EXCEPT !.at = "joinTenant"]
    <3>1. /\ Goes(r, x) /\ reqs'[r].at = "joinTenant" /\ reqs'[r].user = u
          /\ reqs'[r].ws = ws /\ reqs'[r].inv = inv
      BY <2>4, ProceedsTo DEF Steps
    <3>2. x.at = "joinTenant" /\ x.user = u /\ \A q \in Request \ {r} : reqs'[q] = reqs[q]
      BY <3>1, MovedTypes DEF AccessInv
    <3> HIDE DEF x
    <3>3. users'[u].there /\ \A v \in Account \ {u} : users'[v] = users[v]
      BY <1>1, <1>3, <2>4
    <3>4. Reached(r)'
      BY <1>1, <1>4, <2>1, <3>1, <3>3 DEF Reached, Inviting, Internal, Building, AfterJoin
    <3>5. ASSUME NEW q \in Request \ {r} PROVE Reached(q)'
      <4>1. reqs[q].at # "idle" /\ reqs[q].user = u => u \in twice
        BY <2>1 DEF AccessInv, Together
      <4>2. reqs[q].user \in Account
        BY <1>3 DEF SignRequest
      <4>3. reqs[q].at \in {"profile", "profileDone"} =>
             reqs[q].user \in twice \/ (users[reqs[q].user].onboarded => users'[reqs[q].user].onboarded)
        BY <3>3, <4>1, <4>2
      <4> QED
        BY <1>2, <2>1, <3>2, <4>3, ReachedKept
    <3>6. Together'
      BY <1>2, <2>1, <3>1, <3>2, TogetherKept
    <3>7. Onboarded'
      <4>1. u \in twice \/ \A s \in finished : s.user # u
        BY <1>1, <2>1 DEF Reached
      <4>2. \A s \in finished : s.user \in Account
        BY DEF AccessInv, AccessTypes, CallTypes, Seat
      <4> QED
        BY <2>1, <3>3, <4>1, <4>2 DEF AccessInv, Onboarded
    <3>8. Whole'
      BY <1>2, <2>1, <3>1, <3>2, <3>3, WholeStays DEF Building
    <3> QED
      BY <1>2, <1>5, <2>2, <3>4, <3>5, <3>6, <3>7, <3>8 DEF AccessInv
  <2> QED
    BY <2>1, <2>3, <2>4
<1>10. CASE JoinTenant(r) \/ JoinWorkspace(r) \/ OpenWorkspace(r)
  <2>1. PICK step \in {"joinWorkspace", "openWorkspace", "mark"} :
          /\ Proceeds(r, step) /\ UNCHANGED <<users, invites, halted, finished>> /\ reqs[r].at \in Building
          /\ tMember'[u] # "none"
          /\ step \in {"openWorkspace", "mark"} => ws \in wMember'[u]
          /\ step = "mark" => ws \in tenantWs'
    <3>1. CASE JoinTenant(r)
      BY <1>1, <1>3, <3>1 DEF JoinTenant, Stands, RestKept, Building, InviteRow
    <3>2. CASE JoinWorkspace(r)
      BY <1>1, <1>3, <3>2 DEF JoinWorkspace, Stands, RestKept, Building, Reached, AfterJoin
    <3>3. CASE OpenWorkspace(r)
      BY <1>1, <1>3, <3>3 DEF OpenWorkspace, Stands, RestKept, Building, Reached, AfterJoin
    <3> QED
      BY <1>10, <3>1, <3>2, <3>3
  <2> DEFINE x == [reqs[r] EXCEPT !.at = step]
  <2>2. /\ Goes(r, x) /\ reqs'[r].at = step /\ reqs'[r].user = u
        /\ reqs'[r].ws = ws /\ reqs'[r].inv = inv
    BY <2>1, ProceedsTo DEF Steps
  <2>3. x.at = step /\ x.user = u /\ reqs[r].at # "idle"
    BY <2>1, <2>2, MovedTypes DEF AccessInv, Building
  <2> HIDE DEF x
  <2>4. users[u].there
    BY <1>1, <2>1 DEF Reached
  <2>5. Reached(r)'
    BY <1>1, <1>4, <2>1, <2>2, <2>4 DEF Reached, Inviting, Internal, Building, AfterJoin
  <2>6. Whole'
    <3>1. reqs[r].at \in Building /\ reqs[r].user \notin halted' =>
             \/ x.at \in Building /\ x.user = reqs[r].user
             \/ tMember'[reqs[r].user] # "none" /\ wMember'[reqs[r].user] # {}
      BY <2>1, <2>3 DEF Building
    <3>2. \A v \in Account \ halted' : /\ v \in halted => tMember'[v] # "none" /\ wMember'[v] # {}
                                       /\ users'[v].there /\ ~users[v].there => x.user = v /\ x.at \in Building
      BY <2>1
    <3> QED
      BY <1>2, <2>2, <3>1, <3>2, WholeStays
  <2>7. Accepted' /\ \A v \in Account : users[v].onboarded => users'[v].onboarded
    BY <1>2, <2>1, RowsKept
  <2> QED
    BY <1>2, <1>5, <2>1, <2>2, <2>3, <2>5, <2>6, <2>7, OthersKept DEF AccessInv
<1>11. CASE MarkAccepted(r)
  <2>1. /\ UNCHANGED stored /\ reqs[r].at = "mark" /\ Answers(r) /\ finished' = finished /\ halted' = halted \ {u}
        /\ invites' = [invites EXCEPT ![inv].state = "accepted"]
    BY <1>11 DEF MarkAccepted, Stands, SignIn
  <2>2. users[u].there /\ tMember[u] # "none" /\ ws \in wMember[u] /\ ws \in tenantWs
    BY <1>1, <2>1 DEF Reached, AfterJoin
  <2>3. Reached(r)' /\ Goes(r, NoRequest) /\ NoRequest.at = "idle"
    BY <2>1, AnsweredReached
  <2>4. Whole'
    BY <1>2, <2>1, <2>2, <2>3, WholeStays DEF stored, Building
  <2>5. Accepted'
    <3>1. \A i \in Invite : i # inv => invites'[i] = invites[i]
      BY <1>3, <2>1
    <3>2. invites'[inv].user = u /\ invites'[inv].ws = ws
      BY <1>1, <1>3, <1>4, <2>1 DEF InviteRow
    <3> QED
      BY <2>1, <2>2, <3>1, <3>2 DEF AccessInv, Accepted, stored
  <2> QED
    BY <1>2, <1>5, <2>1, <2>3, <2>4, <2>5, OthersKept DEF AccessInv, stored
<1> QED
  BY <1>6, <1>7, <1>8, <1>9, <1>10, <1>11 DEF InviteStep, ReadInvite

LEMMA OnboardKeeps ==
    ASSUME AccessInv, NEW r \in Request, OnboardStep(r)
    PROVE  AccessInv'
<1> DEFINE u == reqs[r].user
           ws == reqs[r].ws
<1>1. AccessTypes' /\ Grows /\ UNCHANGED invites
  BY OnboardTypes DEF AccessInv
<1>2. /\ Reached(r) /\ u \in Account /\ ws \in Workspace
      /\ users \in [Account -> UserRow] /\ reqs \in [Request -> SignRequest]
  BY DEF AccessInv, AccessTypes, RowTypes, CallTypes, SignRequest
<1>3. reqs[r].at \in {"profileOfUser", "profile", "profileDone"}
  BY DEF OnboardStep, UpdateUser, UpsertProfile, EndOnboarding, Stands
<1>4. UNCHANGED <<workspaces, wMember, tMember, halted, twice>>
  BY DEF OnboardStep, UpdateUser, UpsertProfile, EndOnboarding, RestKept
<1>5. /\ \A v \in Account : users'[v].there = users[v].there
      /\ \A v \in Account : users[v].onboarded => users'[v].onboarded
  BY <1>2 DEF OnboardStep, UpdateUser, UpsertProfile, EndOnboarding, UserRow
<1>6. Rooms' /\ Accepted'
  BY <1>1, <1>4, RowsKept
<1>7. ASSUME NEW x, Goes(r, x) PROVE Whole'
  BY <1>1, <1>3, <1>4, <1>5, <1>7, WholeStays DEF Building
<1>8. CASE UpdateUser(r) \/ UpsertProfile(r)
  <2>1. finished' = finished
    BY <1>8 DEF UpdateUser, UpsertProfile, RestKept
  <2>2. CASE Answers(r)
    BY <1>1, <1>5, <1>6, <1>7, <2>1, <2>2, AnsweredReached, OthersKept DEF AccessInv
  <2>3. CASE ~Answers(r)
    <3>1. PICK step \in {"profile", "profileDone"} :
            /\ Proceeds(r, step) /\ (users'[u].onboarded \/ u \in twice)
            /\ step = "profileDone" => ws \in profiles'
      BY <1>2, <1>8, <2>3 DEF UpdateUser, UpsertProfile, Stands, Reached, UserRow
    <3> DEFINE x == [reqs[r] EXCEPT !.at = step]
    <3>2. /\ Goes(r, x) /\ reqs'[r].at = step /\ reqs'[r].user = u /\ reqs'[r].ws = ws
      BY <3>1, ProceedsTo DEF Steps
    <3>3. x.user = u /\ reqs[r].at # "idle"
      BY <1>3, <3>2, MovedTypes DEF AccessInv
    <3> HIDE DEF x
    <3>4. Reached(r)'
      BY <1>4, <3>1, <3>2 DEF Reached, Inviting, Internal, Building, AfterJoin
    <3> QED
      BY <1>1, <1>5, <1>6, <1>7, <2>1, <3>2, <3>3, <3>4, OthersKept DEF AccessInv
  <2> QED
    BY <2>2, <2>3
<1>9. CASE EndOnboarding(r)
  <2>1. /\ reqs[r].at = "profileDone" /\ Answers(r) /\ UNCHANGED <<users, profiles>>
        /\ finished' = finished \cup {[user |-> u, ws |-> ws]}
    BY <1>9 DEF EndOnboarding, Stands
  <2>2. Reached(r)' /\ Goes(r, NoRequest) /\ NoRequest.at = "idle"
    BY <2>1, AnsweredReached
  <2>3. ASSUME NEW q \in Request \ {r} PROVE Reached(q)'
    <3>1. reqs[q].at # "idle" /\ reqs[q].user = u => u \in twice
      BY <2>1 DEF AccessInv, Together
    <3>2. reqs'[q] = reqs[q]
      BY <2>2, MovedTypes DEF AccessInv
    <3>3. reqs[q].at \in {"findUser", "writeUser"} =>
            reqs[q].user \in twice \/ \A s \in finished' : s \in finished \/ s.user # reqs[q].user
      BY <2>1, <3>1
    <3> QED
      BY <1>1, <2>1, <3>2, <3>3, ReachedKept
  <2>4. Onboarded'
    BY <1>2, <1>4, <2>1 DEF AccessInv, Onboarded, Reached
  <2>5. Together'
    BY <1>1, <2>2, TogetherKept
  <2> QED
    BY <1>1, <1>6, <1>7, <2>2, <2>3, <2>4, <2>5 DEF AccessInv
<1> QED
  BY <1>8, <1>9 DEF OnboardStep

(* A request that is received for an account with another under way is        *)
(* noticed.                                                                   *)
LEMMA ReceivedKeeps ==
    ASSUME AccessInv, NEW r \in Request, Received(r)
    PROVE  AccessInv'
<1>1. AccessTypes' /\ Grows /\ UNCHANGED <<stored, invites, sessions, finished>>
  BY ReceivedTypes DEF AccessInv
<1>2. PICK x \in SignRequest :
        /\ Receive(r, x) /\ halted' = halted
        /\ x.at \in {"credentials", "invitation", "profileOfUser"}
        /\ x.at = "invitation" => /\ x.inv \in Invite /\ invites[x.inv].state # "none"
                                  /\ invites[x.inv].user = x.user /\ invites[x.inv].ws = x.ws
  <2>1. ASSUME NEW u \in Account, NEW pw \in Password \cup {EnvPassword}, Login(r, u, pw)
        PROVE  \E x \in SignRequest : Receive(r, x) /\ halted' = halted /\ x.at = "credentials"
    <3> DEFINE x == [NoRequest EXCEPT !.at = "credentials", !.user = u, !.pw = pw]
    <3>1. x \in SignRequest /\ x.at = "credentials"
      BY NoRows DEF SignRequest, Steps
    <3>2. Receive(r, x) /\ halted' = halted
      BY <2>1 DEF Login
    <3> QED
      BY <3>1, <3>2
  <2>2. ASSUME NEW i \in Invite, NEW pw \in Password, AcceptInvite(r, i, pw)
        PROVE  \E x \in SignRequest : /\ Receive(r, x) /\ halted' = halted /\ x.at = "invitation"
                                     /\ x.inv \in Invite /\ invites[x.inv].state # "none"
                                     /\ invites[x.inv].user = x.user /\ invites[x.inv].ws = x.ws
    <3> DEFINE x == [NoRequest EXCEPT !.at = "invitation", !.user = invites[i].user, !.inv = i,
                                      !.ws = invites[i].ws, !.pw = pw]
    <3>1. invites[i] \in InviteRow
      BY DEF AccessInv, AccessTypes, CallTypes
    <3>2. x \in SignRequest /\ x.at = "invitation" /\ x.inv = i /\ x.user = invites[i].user /\ x.ws = invites[i].ws
      BY <3>1, NoRows DEF SignRequest, InviteRow, Steps
    <3>3. Receive(r, x) /\ halted' = halted /\ invites[i].state # "none"
      BY <2>2 DEF AcceptInvite
    <3> HIDE DEF x
    <3> QED
      BY <3>2, <3>3
  <2>3. ASSUME NEW s \in sessions, Onboard(r, s)
        PROVE  \E x \in SignRequest : Receive(r, x) /\ halted' = halted /\ x.at = "profileOfUser"
    <3> DEFINE x == [NoRequest EXCEPT !.at = "profileOfUser", !.user = s.user, !.ws = s.ws]
    <3>1. x \in SignRequest /\ x.at = "profileOfUser"
      BY NoRows DEF SignRequest, Steps, AccessInv, AccessTypes, CallTypes, Seat
    <3>2. Receive(r, x) /\ halted' = halted
      BY <2>3 DEF Onboard
    <3> QED
      BY <3>1, <3>2
  <2> QED
    BY <2>1, <2>2, <2>3 DEF Received
<1>3. Goes(r, x) /\ reqs[r] = NoRequest
      /\ twice' = IF InHand(x.user) THEN twice \cup {x.user} ELSE twice
  BY <1>2, RequestMoves DEF Receive, AccessInv
<1>4. reqs'[r] = x /\ \A q \in Request \ {r} : reqs'[q] = reqs[q]
  BY <1>3, MovedTypes DEF AccessInv
<1>5. Reached(r)'
  BY <1>1, <1>2, <1>4 DEF Reached, Inviting, Internal, Building, AfterJoin
<1>6. ASSUME NEW q \in Request \ {r} PROVE Reached(q)'
  BY <1>1, <1>4, ReachedKept DEF stored
<1>7. Together'
  <2>1. ASSUME NEW p \in Request, NEW q \in Request, p # q, reqs'[p].at # "idle", reqs'[q].at # "idle",
               reqs'[p].user = reqs'[q].user
        PROVE  reqs'[p].user \in twice'
    <3>1. CASE p = r
      BY <1>3, <1>4, <2>1, <3>1 DEF InHand
    <3>2. CASE q = r
      BY <1>3, <1>4, <2>1, <3>2 DEF InHand
    <3>3. CASE p # r /\ q # r
      BY <1>1, <1>4, <2>1, <3>3 DEF AccessInv, Together, Grows
    <3> QED
      BY <3>1, <3>2, <3>3
  <2> QED
    BY <2>1 DEF Together
<1>8. Rooms' /\ Accepted' /\ Onboarded'
  BY <1>1, RowsKept DEF stored
<1>9. Whole'
  <2>1. reqs[r].at \notin Building
    BY <1>3 DEF NoRequest, Building
  <2> QED
    BY <1>1, <1>2, <1>3, <2>1, WholeStays DEF stored
<1> QED
  BY <1>1, <1>5, <1>6, <1>7, <1>8, <1>9 DEF AccessInv

LEMMA HaltKeeps ==
    ASSUME AccessInv, NEW r \in Request, Halt(r)
    PROVE  AccessInv'
<1>1. AccessTypes' /\ Grows /\ UNCHANGED <<stored, invites, sessions, finished>>
  BY ReceivedTypes DEF AccessInv
<1>2. /\ Answers(r) /\ halted \subseteq halted'
      /\ reqs[r].at \in Building => reqs[r].user \in halted'
  BY DEF Halt, Building
<1>3. Reached(r)' /\ Goes(r, NoRequest) /\ NoRequest.at = "idle"
  BY <1>2, AnsweredReached
<1>4. Rooms' /\ Accepted'
  BY <1>1, RowsKept DEF stored
<1>5. Whole'
  BY <1>1, <1>2, <1>3, WholeStays DEF stored
<1> QED
  BY <1>1, <1>3, <1>4, <1>5, OthersKept DEF AccessInv, stored

LEMMA AsideKeeps ==
    ASSUME AccessInv, Aside \/ UNCHANGED accessVars
    PROVE  AccessInv'
<1>1. AccessTypes' /\ Grows /\ UNCHANGED <<stored, reqs, halted, twice, finished>>
  BY AsideTypes DEF AccessInv
<1>2. \A q \in Request : Reached(q)'
  BY <1>1, ReachedKept DEF stored
<1>3. Together' /\ Onboarded' /\ Whole'
  BY <1>1 DEF AccessInv, Together, Onboarded, Whole, stored
<1>4. \A i \in Invite : invites'[i].state # "none" =>
        /\ invites'[i].ws \in workspaces
        /\ invites'[i].state = "accepted" => invites'[i] = invites[i]
  <2>1. invites \in [Invite -> InviteRow]
    BY DEF AccessInv, AccessTypes, CallTypes
  <2> QED
    BY <2>1 DEF Aside, Logout, InviteUser, InviteExpires, accessVars, AccessInv, Rooms, InviteRow
<1>5. Rooms'
  BY <1>1, <1>4 DEF AccessInv, Rooms, stored
<1>6. Accepted'
  BY <1>1, <1>4 DEF AccessInv, Accepted, stored
<1> QED
  BY <1>1, <1>2, <1>3, <1>5, <1>6 DEF AccessInv

LEMMA AccessInvariant == AccessSpec => []AccessInv
<1>1. AccessInv /\ [AccessNext]_accessVars => AccessInv'
  BY NextCases, LoginKeeps, InviteKeeps, OnboardKeeps, ReceivedKeeps, HaltKeeps, AsideKeeps
<1> QED
  BY <1>1, InitAccessInv, PTL DEF AccessSpec

(* The rows and requests keep their types, and a profile has its workspace.   *)
THEOREM AccessTypesCorrect == AccessSpec => []AccessTypeOK
BY AccessInvariant, AccessInvImplies, PTL

(* Whatever runs beside whatever and wherever it stops, an account that       *)
(* nothing is being done about and that was not left half set up has all that *)
(* signing in and working take.                                               *)
THEOREM AccountsStayWhole == AccessSpec => []AccountsWhole
BY AccessInvariant, AccessInvImplies, PTL

-----------------------------------------------------------------------------
(* Replies: some numbers up to n have a greatest one                       *)

LEMMA LeastOne ==
    ASSUME NEW S \in SUBSET Nat, S # {}
    PROVE  \E x \in S : \A y \in S : x <= y
<1>1. \E x \in S : \A y \in S : ~(<<y, x>> \in OpToRel(<, Nat))
  BY NatLessThanWellFounded, WFMin, Zenon
<1>2. PICK x \in S : \A y \in S : ~(<<y, x>> \in OpToRel(<, Nat))
  BY <1>1, Zenon
<1>3. ASSUME NEW y \in S, y < x
      PROVE  <<y, x>> \in OpToRel(<, Nat)
  <2>1. y \in Nat /\ x \in Nat /\ y < x
    BY <1>3
  <2> QED
    BY <2>1, Zenon DEF OpToRel
<1>4. \A y \in S : ~(y < x)
  BY <1>2, <1>3, Zenon
<1> QED
  BY <1>4, SMT

LEMMA GreatestOne ==
    ASSUME NEW n \in Nat, NEW S \in SUBSET (0 .. n), S # {}
    PROVE  \E x \in S : \A y \in S : y <= x
<1> DEFINE below == {k \in Nat : n - k \in S}
<1>0. PICK w \in S : w \in 0 .. n
  OBVIOUS
<1>1. n - w \in below
  BY <1>0
<1>2. PICK z \in below : \A y \in below : z <= y
  BY <1>1, LeastOne
<1>3. n - z \in S
  BY <1>2
<1>4. ASSUME NEW y \in S PROVE y <= n - z
  <2>1. y \in 0 .. n
    OBVIOUS
  <2>2. n - y \in below
    BY <2>1
  <2>3. z <= n - y /\ z \in Nat
    BY <1>2, <2>2
  <2> QED
    BY <2>1, <2>3
<1> QED
  BY <1>3, <1>4

-----------------------------------------------------------------------------
(* The newest mail of a thread                                             *)

Mail == FromCustomer \cup {"ours", "draft", "gone"}
TheirNewest(m) == NewestOf(m, FromCustomer)

LEMMA NewestIs ==
    ASSUME NEW m \in Seq(Mail), NEW kinds
    PROVE  /\ NewestOf(m, kinds) \in 0 .. Len(m)
           /\ NewestOf(m, kinds) > 0 => m[NewestOf(m, kinds)] \in kinds
           /\ \A n \in 1 .. Len(m) : m[n] \in kinds => n <= NewestOf(m, kinds)
<1> DEFINE those == {n \in 1 .. Len(m) : m[n] \in kinds}
<1>1. Len(m) \in Nat
  BY LenProperties
<1>2. CASE those = {}
  BY <1>1, <1>2 DEF NewestOf
<1>3. CASE those # {}
  <2>1. those \in SUBSET (0 .. Len(m))
    BY <1>1
  <2>2. \E x \in those : \A y \in those : y <= x
    <3> HIDE DEF those
    <3> QED
      BY <1>1, <1>3, <2>1, GreatestOne
  <2>3. NewestOf(m, kinds) = CHOOSE x \in those : \A y \in those : y <= x
    BY <1>3 DEF NewestOf
  <2>4. NewestOf(m, kinds) \in those /\ \A y \in those : y <= NewestOf(m, kinds)
    <3> HIDE DEF those
    <3> QED
      BY <2>2, <2>3
  <2> QED
    BY <1>1, <2>4
<1> QED
  BY <1>2, <1>3

(* A thread may grow, and what is the user's own may change there; what is *)
(* the customer's stays, so that its newest is as late as before.          *)
Keeps(old, new) ==
  /\ new \in Seq(Mail) /\ Len(old) <= Len(new)
  /\ \A n \in 1 .. Len(old) : old[n] \in FromCustomer => new[n] = old[n]

LEMMA NewestGrows ==
    ASSUME NEW m \in Seq(Mail), NEW w, Keeps(m, w)
    PROVE  TheirNewest(m) <= TheirNewest(w)
<1>1. Len(m) \in Nat /\ Len(w) \in Nat /\ w \in Seq(Mail) /\ Len(m) <= Len(w)
  BY LenProperties DEF Keeps
<1>2. /\ TheirNewest(m) \in 0 .. Len(m)
      /\ TheirNewest(m) > 0 => m[TheirNewest(m)] \in FromCustomer
  BY NewestIs DEF TheirNewest
<1>3. /\ TheirNewest(w) \in 0 .. Len(w)
      /\ \A n \in 1 .. Len(w) : w[n] \in FromCustomer => n <= TheirNewest(w)
  BY <1>1, NewestIs DEF TheirNewest
<1> QED
  BY <1>1, <1>2, <1>3 DEF Keeps

LEMMA KeepsMore ==
    ASSUME NEW m \in Seq(Mail), NEW w, Keeps(m, w), NEW from \in Mail
    PROVE  Keeps(m, Append(w, from))
<1>1. Len(m) \in Nat /\ Len(w) \in Nat /\ w \in Seq(Mail) /\ Len(m) <= Len(w)
  BY LenProperties DEF Keeps
<1>2. /\ Append(w, from) \in Seq(Mail) /\ Len(Append(w, from)) = Len(w) + 1
      /\ \A n \in 1 .. Len(w) : Append(w, from)[n] = w[n]
  BY <1>1, AppendProperties
<1> DEFINE x == Append(w, from)
<1> HIDE DEF x
<1>3. x \in Seq(Mail) /\ Len(m) <= Len(x) /\ \A n \in 1 .. Len(m) : x[n] = w[n]
  BY <1>1, <1>2 DEF x
<1>4. Keeps(m, x)
  BY <1>3 DEF Keeps
<1> QED
  BY <1>4 DEF x

LEMMA KeepsSame ==
    ASSUME NEW m \in Seq(Mail)
    PROVE  Keeps(m, m)
BY LenProperties DEF Keeps

LEMMA KeepsWithout ==
    ASSUME NEW m \in Seq(Mail)
    PROVE  Keeps(m, WithoutDraft(m))
<1>1. Len(m) \in Nat /\ \A n \in 1 .. Len(m) : m[n] \in Mail
  BY LenProperties, ElementOfSeq
<1>2. "gone" \in Mail /\ "draft" \notin FromCustomer
  BY DEF Mail, FromCustomer
<1> DEFINE w == WithoutDraft(m)
<1>3. /\ w \in [1 .. Len(m) -> Mail]
      /\ \A n \in 1 .. Len(m) : m[n] \in FromCustomer => w[n] = m[n]
  <2>1. \A n \in 1 .. Len(m) : w[n] = IF m[n] = "draft" THEN "gone" ELSE m[n]
    BY DEF WithoutDraft
  <2>2. ASSUME NEW n \in 1 .. Len(m) PROVE w[n] \in Mail /\ (m[n] \in FromCustomer => w[n] = m[n])
    BY <1>1, <1>2, <2>1, Zenon
  <2>3. w = [n \in 1 .. Len(m) |-> w[n]]
    BY DEF WithoutDraft
  <2> HIDE DEF w
  <2> QED
    BY <2>2, <2>3
<1> HIDE DEF w
<1>4. w \in Seq(Mail) /\ Len(w) = Len(m)
  BY <1>1, <1>3, IsASeq, LenProperties
<1>5. Keeps(m, w)
  BY <1>1, <1>3, <1>4 DEF Keeps
<1> QED
  BY <1>5 DEF w

-----------------------------------------------------------------------------
(* The rows and the synchronisations                                       *)

ReplyRow == [thread : Known, mail : Nat, kind : FromCustomer, at : Nat]
Place == {"rest", "start", "next", "ingest", "create", "apply", "done", "failed"}
SyncRow == [at : Place, todo : SUBSET Thread, thread : Thread \cup {"none"}, mail : Nat, all : BOOLEAN]
Syncer == {"page", "cron", "post"}
Mailbox == {"page", "cron"}

(* What is a customer's stays, so that what was its newest mail when the   *)
(* threads were listed is at most the newest now.                          *)
Threads == thread \in [Thread -> Seq(Mail)]
ThreadsTyped ==
  /\ rows \in Seq(ReplyRow)
  /\ \A i \in 1 .. Len(rows) : rows[i].at \in rows[i].mail .. Len(thread[rows[i].thread])
SyncsTyped ==
  /\ syncs \in [Syncer -> SyncRow]
  /\ \A s \in Syncer : syncs[s].at \in {"ingest", "create", "apply"} =>
       syncs[s].thread \in Known /\ syncs[s].mail \in 0 .. Len(thread[syncs[s].thread])
  /\ \A s \in Syncer : \A t \in syncs[s].todo : TheirNewest(thread[t]) > 0
DueTyped == due \in [Thread -> Nat] /\ \A t \in Thread : due[t] <= TheirNewest(thread[t])
DeskTyped == Threads /\ ThreadsTyped /\ SyncsTyped /\ DueTyped /\ all \in BOOLEAN

(* What a step of a synchronisation does to it, and to no other.           *)
Syncing(s, from, to) ==
  /\ syncs' \in [Syncer -> SyncRow] /\ syncs[s].at = from /\ syncs'[s].at = to
  /\ \A x \in Syncer \ {s} : syncs'[x] = syncs[x]
Same(s) == syncs'[s].todo = syncs[s].todo /\ syncs'[s].thread = syncs[s].thread /\ syncs'[s].mail = syncs[s].mail

LEMMA AtMoves ==
    ASSUME DeskTyped, NEW s \in Syncer, NEW to \in Place, Moves(s, to)
    PROVE  Syncing(s, syncs[s].at, to) /\ Same(s)
BY DEF DeskTyped, SyncsTyped, Syncing, Same, Moves, SyncRow

LEMMA BeginEffect ==
    ASSUME DeskTyped, NEW s \in Syncer, BeginSync(s)
    PROVE  /\ Syncing(s, "rest", "start") /\ Same(s)
           /\ ~doubled' => \A x \in Syncer \ {s} : ~Running(x)
           /\ UNCHANGED <<thread, rows, applied, due, masked, cut, unapplied, brought, mails>>
<1>0. /\ syncs' = [syncs EXCEPT ![s].at = "start", ![s].all = all] /\ syncs[s].at = "rest"
      /\ syncs \in [Syncer -> SyncRow] /\ all \in BOOLEAN
  <2>1. Resting.at = "rest"
    BY DEF Resting
  <2> QED
    BY <2>1, Zenon DEF DeskTyped, SyncsTyped, BeginSync
<1>1. Syncing(s, "rest", "start") /\ Same(s)
  BY <1>0 DEF Syncing, Same, SyncRow, Place
<1>2. DOMAIN syncs = Syncer
  BY DEF DeskTyped, SyncsTyped
<1>3. ~doubled' => \A x \in Syncer \ {s} : ~Running(x)
  BY <1>2, Zenon DEF BeginSync
<1> QED
  BY <1>1, <1>3, Zenon DEF BeginSync

(* A POST has the customer's message it names, or none.                    *)
NamedIn(m) == {0} \cup {n \in 1 .. Len(m) : m[n] \in FromCustomer}

LEMMA PostEffect ==
    ASSUME DeskTyped, NEW t \in Known, NEW n \in NamedIn(thread[t]), PostReply(t, n)
    PROVE  /\ Syncing("post", "rest", "ingest") /\ syncs'["post"].todo = syncs["post"].todo
           /\ syncs'["post"].thread = t /\ syncs'["post"].mail = n /\ n \in 0 .. Len(thread[t])
           /\ ~doubled' => ~doubled /\ ~Running("page") /\ ~Running("cron")
           /\ UNCHANGED <<thread, rows, applied, due, masked, cut, unapplied, brought, mails, viewVars>>
<1>1. n \in 0 .. Len(thread[t]) /\ t \in Thread
  <2>1. t \in Thread /\ Len(thread[t]) \in Nat
    BY DeskAssumption, LenProperties DEF DeskTyped, Threads
  <2> QED
    BY <2>1 DEF NamedIn
<1>2. /\ syncs' = [syncs EXCEPT !["post"].at = "ingest", !["post"].thread = t, !["post"].mail = n]
      /\ syncs["post"] = Resting /\ Resting.at = "rest" /\ syncs \in [Syncer -> SyncRow] /\ "post" \in Syncer
  BY DEF PostReply, DeskTyped, SyncsTyped, Syncer, Resting
<1>3. n \in Nat
  <2>1. Len(thread[t]) \in Nat
    BY <1>1, LenProperties DEF DeskTyped, Threads
  <2> QED
    BY <1>1, <2>1
<1>4. /\ Syncing("post", "rest", "ingest") /\ syncs'["post"].todo = syncs["post"].todo
      /\ syncs'["post"].thread = t /\ syncs'["post"].mail = n
  <2> DEFINE was == syncs["post"]
             e == [was EXCEPT !.at = "ingest", !.thread = t, !.mail = n]
  <2>1. was \in SyncRow /\ was.at = "rest"
    BY <1>2, Zenon
  <2>2. syncs' = [syncs EXCEPT !["post"] = e]
    BY <1>2
  <2> HIDE DEF was
  <2>3. e \in SyncRow /\ e.todo = was.todo /\ e.thread = t /\ e.mail = n /\ e.at = "ingest"
    BY <1>1, <1>3, <2>1 DEF SyncRow, Place
  <2> HIDE DEF e
  <2>4. syncs' \in [Syncer -> SyncRow] /\ syncs'["post"] = e /\ \A u \in Syncer : u # "post" => syncs'[u] = syncs[u]
    BY <1>2, <2>2, <2>3
  <2> QED
    BY <2>1, <2>3, <2>4 DEF Syncing, was
<1>5. ~doubled' => ~doubled /\ ~Running("page") /\ ~Running("cron")
  <2>1. doubled' = (doubled \/ \E r \in {"page", "cron"} : Running(r))
    BY Zenon DEF PostReply
  <2>2. (\E r \in {"page", "cron"} : Running(r)) <=> Running("page") \/ Running("cron")
    BY Zenon
  <2> QED
    BY <2>1, <2>2
<1> QED
  BY <1>1, <1>4, <1>5, Zenon DEF PostReply

LEMMA ListEffect ==
    ASSUME DeskTyped, NEW s \in Syncer, ListThreads(s)
    PROVE  /\ Syncing(s, "start", "next") /\ syncs'[s].todo = {t \in Thread : TheirNewest(thread[t]) > 0}
           /\ due' = [t \in Thread |-> TheirNewest(thread[t])] /\ masked' = {} /\ ~cut'
           /\ UNCHANGED <<thread, rows, applied, doubled, unapplied, brought>>
<1>0. \A t : CustomersNewest(t) = TheirNewest(thread[t])
  BY DEF CustomersNewest, TheirNewest
<1>1. due' = [t \in Thread |-> TheirNewest(thread[t])]
  BY <1>0, Zenon DEF ListThreads
<1>2. {t \in Thread : CustomersNewest(t) > 0} = {t \in Thread : TheirNewest(thread[t]) > 0}
  BY <1>0, Zenon
<1> DEFINE new == {t \in Thread : TheirNewest(thread[t]) > 0}
<1>3. new \in SUBSET Thread
  OBVIOUS
<1>4. syncs' = [syncs EXCEPT ![s].at = "next", ![s].todo = new] /\ syncs[s].at = "start"
  BY <1>2, Zenon DEF ListThreads
<1> HIDE DEF new
<1>5. Syncing(s, "start", "next") /\ syncs'[s].todo = new
  BY <1>3, <1>4 DEF DeskTyped, SyncsTyped, Syncing, SyncRow, Place
<1> QED
  BY <1>1, <1>5 DEF new, ListThreads

(* The message read is the newest that is not sent: as late as the         *)
(* customer's, or a draft of the user's, and then the thread is masked.    *)
LEMMA SyncReadEffect ==
    ASSUME DeskTyped, NEW s \in Syncer, NEW t \in Thread, ReadThread(s, t)
    PROVE  LET n == Newest(t) new == HasLead(t, n) /\ ~Stored(t, n) IN
           /\ t \in syncs[s].todo /\ n \in 1 .. Len(thread[t]) /\ TheirNewest(thread[t]) <= n
           /\ Syncing(s, "next", IF new THEN "ingest" ELSE "next")
           /\ syncs'[s].todo = syncs[s].todo \ {t} /\ syncs'[s].thread = t /\ syncs'[s].mail = n
           /\ masked \subseteq masked' /\ (t \in masked' \/ thread[t][n] \in FromCustomer)
           /\ UNCHANGED <<thread, rows, applied, due, doubled, cut, unapplied, brought>>
<1> DEFINE n == Newest(t)
           new == HasLead(t, n) /\ ~Stored(t, n)
           to == IF new THEN "ingest" ELSE "next"
<1>1. thread[t] \in Seq(Mail) /\ t \in syncs[s].todo /\ syncs[s].at = "next"
  BY DEF DeskTyped, Threads, ReadThread
<1>2. /\ n \in 1 .. Len(thread[t]) /\ TheirNewest(thread[t]) <= n
      /\ thread[t][n] \in FromCustomer \cup {"draft"}
  <2> DEFINE both == FromCustomer \cup {"draft"}
             m == thread[t]
             c == TheirNewest(m)
  <2>1. /\ n \in 0 .. Len(m) /\ (n > 0 => m[n] \in both)
        /\ \A k \in 1 .. Len(m) : m[k] \in both => k <= n
    <3>1. n = NewestOf(m, both)
      BY DEF Newest
    <3> HIDE DEF both, m
    <3> QED
      BY <1>1, <3>1, NewestIs DEF m
  <2>2. c \in 0 .. Len(m) /\ (c > 0 => m[c] \in FromCustomer) /\ c > 0 /\ Len(m) \in Nat
    BY <1>1, NewestIs, LenProperties DEF TheirNewest, DeskTyped, SyncsTyped
  <2>3. m[c] \in both
    BY <2>2
  <2> HIDE DEF both, m, c, n
  <2>4. n \in 1 .. Len(m) /\ c <= n /\ m[n] \in both
    BY <2>1, <2>2, <2>3
  <2> QED
    BY <2>4 DEF m, c, both
<1>4. /\ syncs' = [syncs EXCEPT ![s].todo = @ \ {t}, ![s].thread = t, ![s].mail = n, ![s].at = to]
      /\ UNCHANGED <<thread, rows, applied, due, doubled, cut, unapplied, brought>>
  BY Zenon DEF ReadThread
<1>5. to \in Place /\ n \in Nat
  BY <1>1, <1>2, LenProperties DEF Place
<1>8. masked \subseteq masked' /\ (t \in masked' \/ thread[t][n] \in FromCustomer)
  <2>1. masked' = IF thread[t][n] = "draft" THEN masked \cup {t} ELSE masked
    BY Zenon DEF ReadThread
  <2>2. thread[t][n] = "draft" \/ thread[t][n] \in FromCustomer
    BY <1>2
  <2> HIDE DEF n
  <2> QED
    BY <2>1, <2>2, Zenon
<1> HIDE DEF n, to
<1>6. /\ Syncing(s, "next", to)
      /\ syncs'[s].todo = syncs[s].todo \ {t} /\ syncs'[s].thread = t /\ syncs'[s].mail = n
  <2> DEFINE was == syncs[s]
             e == [was EXCEPT !.todo = @ \ {t}, !.thread = t, !.mail = n, !.at = to]
  <2>1. syncs \in [Syncer -> SyncRow]
    BY DEF DeskTyped, SyncsTyped
  <2>2. was \in SyncRow
    BY <2>1
  <2>3. syncs' = [syncs EXCEPT ![s] = e]
    BY <1>4, <2>1
  <2> HIDE DEF was
  <2>4. e \in SyncRow /\ e.todo = was.todo \ {t} /\ e.thread = t /\ e.mail = n /\ e.at = to
    BY <1>5, <2>2 DEF SyncRow
  <2> HIDE DEF e
  <2>5. syncs' \in [Syncer -> SyncRow] /\ syncs'[s] = e /\ \A u \in Syncer : u # s => syncs'[u] = syncs[u]
    BY <2>1, <2>3, <2>4
  <2> QED
    BY <1>1, <2>4, <2>5 DEF Syncing, was
<1> QED
  BY <1>1, <1>2, <1>4, <1>6, <1>8, Zenon DEF n, to

LEMMA IngestEffect ==
    ASSUME DeskTyped, NEW s \in Syncer, Ingest(s)
    PROVE  /\ Same(s) /\ syncs[s].at = "ingest"
           /\ IF Stored(syncs[s].thread, syncs[s].mail) THEN Syncing(s, "ingest", "next")
              ELSE Syncing(s, "ingest", "create")
           /\ UNCHANGED <<thread, rows, applied, historyVars>>
<1>1. syncs[s].at = "ingest" /\ UNCHANGED <<thread, rows, applied, historyVars>>
  BY DEF Ingest
<1>2. CASE Stored(syncs[s].thread, syncs[s].mail)
  <2>1. Moves(s, "next")
    BY <1>2, Zenon DEF Ingest
  <2> QED
    BY <1>1, <1>2, <2>1, AtMoves DEF Place
<1>3. CASE ~Stored(syncs[s].thread, syncs[s].mail)
  <2>1. Moves(s, "create")
    BY <1>3, Zenon DEF Ingest
  <2> QED
    BY <1>1, <1>3, <2>1, AtMoves DEF Place
<1> QED
  BY <1>2, <1>3

(* The row a synchronisation stores, or the row of a POST.                 *)
NewRows(s) ==
  {added \in ReplyRow : /\ added.thread = syncs[s].thread /\ added.mail = syncs[s].mail
                      /\ added.at = Len(thread[syncs[s].thread])}

LEMMA SyncCreateEffect ==
    ASSUME DeskTyped, NEW s \in Syncer, CreateReply(s)
    PROVE  /\ Same(s) /\ syncs[s].at = "create"
           /\ \/ /\ Stored(syncs[s].thread, syncs[s].mail) /\ Syncing(s, "create", "failed") /\ rows' = rows
              \/ /\ ~Stored(syncs[s].thread, syncs[s].mail) /\ Syncing(s, "create", "apply")
                 /\ \E added \in NewRows(s) : rows' = Append(rows, added)
           /\ UNCHANGED <<thread, applied, historyVars>>
<1>1. syncs[s].at = "create" /\ UNCHANGED <<thread, applied, historyVars>>
  BY DEF CreateReply
<1>2. ASSUME NEW kind \in Kinds(s)
      PROVE  [thread |-> syncs[s].thread, mail |-> syncs[s].mail, kind |-> kind,
              at |-> Len(thread[syncs[s].thread])] \in NewRows(s)
  <2> DEFINE t == syncs[s].thread
             n == syncs[s].mail
  <2>1. t \in Known /\ t \in Thread /\ n \in 0 .. Len(thread[t])
    BY <1>1, DeskAssumption DEF DeskTyped, SyncsTyped
  <2>2. thread[t] \in Seq(Mail)
    BY <2>1 DEF DeskTyped, Threads
  <2>3. Len(thread[t]) \in Nat /\ n \in Nat
    BY <2>1, <2>2, LenProperties
  <2>4. kind \in FromCustomer
    <3>1. Kinds(s) \in {{"human", "settled"}} \/ \E from \in FromCustomer : Kinds(s) = {from}
      BY Zenon DEF Kinds
    <3> QED
      BY <1>2, <3>1 DEF FromCustomer
  <2> QED
    BY <2>1, <2>3, <2>4 DEF NewRows, ReplyRow
<1>3. CASE Stored(syncs[s].thread, syncs[s].mail)
  <2>1. Moves(s, "failed") /\ rows' = rows
    BY <1>3, Zenon DEF CreateReply
  <2> QED
    BY <1>1, <1>3, <2>1, AtMoves DEF Place
<1>4. CASE ~Stored(syncs[s].thread, syncs[s].mail)
  <2>1. /\ Moves(s, "apply")
        /\ \E kind \in Kinds(s) :
             rows' = Append(rows, [thread |-> syncs[s].thread, mail |-> syncs[s].mail, kind |-> kind,
                                   at |-> Len(thread[syncs[s].thread])])
    BY <1>4, Zenon DEF CreateReply
  <2>2. \E added \in NewRows(s) : rows' = Append(rows, added)
    BY <1>2, <2>1, Zenon
  <2> QED
    BY <1>1, <1>4, <2>1, <2>2, AtMoves DEF Place
<1> QED
  BY <1>3, <1>4

(* What the rows are then.                                                 *)
LEMMA DeskRowAdded ==
    ASSUME DeskTyped, NEW s \in Syncer, NEW added \in NewRows(s), rows' = Append(rows, added)
    PROVE  /\ rows' \in Seq(ReplyRow) /\ Len(rows') = Len(rows) + 1 /\ Len(rows) \in Nat
           /\ \A i \in 1 .. Len(rows) : rows'[i] = rows[i]
           /\ rows'[Len(rows) + 1] = added
           /\ added.thread = syncs[s].thread /\ added.mail = syncs[s].mail
           /\ added.at = Len(thread[syncs[s].thread])
BY AppendProperties, LenProperties DEF NewRows, DeskTyped, ThreadsTyped

LEMMA ApplyEffect ==
    ASSUME DeskTyped, NEW s \in Syncer, ApplyClassification(s)
    PROVE  /\ Same(s) /\ Syncing(s, "apply", "next")
           /\ applied' = applied \cup {[thread |-> syncs[s].thread, mail |-> syncs[s].mail]}
           /\ UNCHANGED <<thread, rows, historyVars>>
BY AtMoves DEF ApplyClassification, Place

(* A synchronisation that ends: it did nothing more to rows and threads.   *)
Ends(s) ==
  /\ syncs' \in [Syncer -> SyncRow] /\ syncs'[s].at \in {"rest", "done", "failed"}
  /\ syncs'[s].todo \subseteq syncs[s].todo
  /\ \A x \in Syncer \ {s} : syncs'[x] = syncs[x]
  /\ UNCHANGED <<thread, rows, applied, due, masked, doubled>>

LEMMA RestEffect ==
    ASSUME DeskTyped, NEW s \in Syncer, syncs' = [syncs EXCEPT ![s] = Resting]
    PROVE  /\ syncs' \in [Syncer -> SyncRow] /\ syncs'[s].at = "rest" /\ syncs'[s].todo = {}
           /\ \A x \in Syncer \ {s} : syncs'[x] = syncs[x]
<1>1. Resting \in SyncRow
  BY DEF Resting, SyncRow, Place
<1>2. Resting.at = "rest" /\ Resting.todo = {}
  BY DEF Resting
<1> HIDE DEF Resting
<1> QED
  BY <1>1, <1>2 DEF DeskTyped, SyncsTyped

LEMMA FinishedEffect ==
    ASSUME DeskTyped, NEW s \in Syncer, syncs' = [syncs EXCEPT ![s] = Finished(s)]
    PROVE  /\ syncs' \in [Syncer -> SyncRow] /\ syncs'[s].at \in {"rest", "done"}
           /\ syncs'[s].todo \subseteq syncs[s].todo
           /\ \A x \in Syncer \ {s} : syncs'[x] = syncs[x]
<1>1. CASE s # "page"
  BY <1>1, RestEffect DEF Finished
<1>2. CASE s = "page"
  BY <1>2 DEF DeskTyped, SyncsTyped, Finished, SyncRow, Place
<1> QED
  BY <1>1, <1>2

LEMMA DoneEffect ==
    ASSUME DeskTyped, NEW s \in Syncer, SyncDone(s)
    PROVE  Ends(s) /\ syncs[s].at = "next" /\ syncs[s].todo = {} /\ UNCHANGED <<cut, unapplied, brought>>
BY FinishedEffect DEF SyncDone, Ends, historyVars

LEMMA NotConnectedEffect ==
    ASSUME DeskTyped, NEW s \in Syncer, NotConnected(s)
    PROVE  Ends(s) /\ syncs[s].at = "start" /\ cut' /\ UNCHANGED <<unapplied, brought>>
BY FinishedEffect DEF NotConnected, Ends

LEMMA BreaksEffect ==
    ASSUME DeskTyped, NEW s \in Syncer, SyncBreaks(s)
    PROVE  /\ Ends(s) /\ (s \in Mailbox => cut') /\ (cut => cut') /\ UNCHANGED brought
           /\ unapplied' = IF syncs[s].at = "apply"
                           THEN unapplied \cup {[thread |-> syncs[s].thread, mail |-> syncs[s].mail]}
                           ELSE unapplied
<1>1. Syncing(s, syncs[s].at, "failed") /\ Same(s)
  BY AtMoves DEF SyncBreaks, Place
<1>2. (s \in Mailbox => cut') /\ (cut => cut')
  <2>1. cut' = IF s = "post" THEN cut ELSE TRUE
    BY Zenon DEF SyncBreaks
  <2>2. s \in Mailbox => s # "post"
    BY DEF Mailbox
  <2> QED
    BY <2>1, <2>2, Zenon
<1> QED
  BY <1>1, <1>2 DEF SyncBreaks, Ends, Syncing, Same

(* The page or the cron takes note that a synchronisation is over.         *)
LEMMA NotedEffect ==
    ASSUME DeskTyped, GivenUp("cron") \/ GivenUp("post") \/ SyncAnswered \/ SyncRefused
    PROVE  \E s \in Syncer : /\ Ends(s) /\ syncs[s].at \in {"done", "failed"}
                             /\ UNCHANGED <<cut, unapplied>>
                             /\ brought' \in {brought, Len(rows)}
<1>1. ASSUME NEW s \in {"cron", "post"}, GivenUp(s)
      PROVE  s \in Syncer /\ Ends(s) /\ syncs[s].at = "failed" /\ UNCHANGED <<cut, unapplied, brought>>
  <2>1. s \in Syncer /\ syncs' = [syncs EXCEPT ![s] = Resting]
    BY <1>1 DEF GivenUp, Syncer
  <2>2. Ends(s)
    BY <1>1, <2>1, RestEffect DEF GivenUp, Ends, historyVars
  <2> QED
    BY <1>1, <2>1, <2>2 DEF GivenUp, historyVars
<1>2. CASE SyncAnswered
  <2>1. "page" \in Syncer /\ syncs' = [syncs EXCEPT !["page"] = Resting]
    BY <1>2 DEF SyncAnswered, Syncer
  <2>2. Ends("page")
    BY <1>2, <2>1, RestEffect DEF SyncAnswered, Ends
  <2> QED
    BY <1>2, <2>1, <2>2 DEF SyncAnswered
<1>3. CASE SyncRefused
  <2>1. "page" \in Syncer /\ syncs' = [syncs EXCEPT !["page"] = Resting]
    BY <1>3 DEF SyncRefused, Syncer
  <2>2. Ends("page")
    BY <1>3, <2>1, RestEffect DEF SyncRefused, Ends, historyVars
  <2> QED
    BY <1>3, <2>1, <2>2 DEF SyncRefused, historyVars
<1> QED
  BY <1>1, <1>2, <1>3

(* A mail comes, or the user writes or discards one.                       *)
MailChanges(t) == \E m : Keeps(thread[t], m) /\ Changes(t, m)

LEMMA MailSteps ==
    ASSUME DeskTyped, NEW t \in Known,
           \/ \E from \in FromCustomer : MailComes(t, from)
           \/ \E what \in {"draft", "ours"} : UserWrites(t, what)
           \/ UserDiscards(t)
    PROVE  MailChanges(t)
<1>0. thread[t] \in Seq(Mail)
  BY DeskAssumption DEF DeskTyped, Threads
<1>1. ASSUME NEW from \in FromCustomer, MailComes(t, from) PROVE MailChanges(t)
  <2>1. Keeps(thread[t], Append(thread[t], from))
    BY <1>0, KeepsSame, KeepsMore DEF Mail
  <2> QED
    BY <1>1, <2>1, Zenon DEF MailComes, MailChanges
<1>2. ASSUME NEW what \in {"draft", "ours"}, UserWrites(t, what) PROVE MailChanges(t)
  <2>1. Keeps(thread[t], Append(WithoutDraft(thread[t]), what))
    BY <1>0, KeepsWithout, KeepsMore DEF Mail
  <2> QED
    BY <1>2, <2>1, Zenon DEF UserWrites, MailChanges
<1>3. CASE UserDiscards(t)
  BY <1>0, <1>3, KeepsWithout, Zenon DEF UserDiscards, MailChanges
<1> QED
  BY <1>1, <1>2, <1>3, Zenon

LEMMA MailEffect ==
    ASSUME DeskTyped, NEW t \in Known, MailChanges(t)
    PROVE  /\ Threads'
           /\ \A u \in Thread : /\ Len(thread[u]) \in Nat /\ Len(thread'[u]) \in Nat
                                /\ Keeps(thread[u], thread'[u]) /\ Len(thread[u]) <= Len(thread'[u])
                                /\ TheirNewest(thread[u]) \in Nat /\ TheirNewest(thread'[u]) \in Nat
                                /\ TheirNewest(thread[u]) <= TheirNewest(thread'[u])
           /\ UNCHANGED <<rows, applied, syncs, historyVars, viewVars>>
<1>0. PICK m : /\ t \in Thread /\ thread' = [thread EXCEPT ![t] = m] /\ Keeps(thread[t], m)
               /\ thread \in [Thread -> Seq(Mail)]
               /\ UNCHANGED <<rows, applied, syncs, historyVars, viewVars>>
  BY DeskAssumption DEF MailChanges, Changes, DeskTyped, Threads
<1>1. m \in Seq(Mail)
  BY <1>0 DEF Keeps
<1>2. Threads'
  BY <1>0, <1>1 DEF Threads
<1>3. ASSUME NEW u \in Thread
      PROVE  /\ Len(thread[u]) \in Nat /\ Len(thread'[u]) \in Nat
             /\ Keeps(thread[u], thread'[u]) /\ Len(thread[u]) <= Len(thread'[u])
             /\ TheirNewest(thread[u]) \in Nat /\ TheirNewest(thread'[u]) \in Nat
             /\ TheirNewest(thread[u]) <= TheirNewest(thread'[u])
  <2>1. thread[u] \in Seq(Mail) /\ thread'[u] \in Seq(Mail)
    BY <1>0, <1>2 DEF Threads
  <2>2. /\ Len(thread[u]) \in Nat /\ Len(thread'[u]) \in Nat
        /\ TheirNewest(thread[u]) \in 0 .. Len(thread[u])
        /\ TheirNewest(thread'[u]) \in 0 .. Len(thread'[u])
    BY <2>1, NewestIs, LenProperties DEF TheirNewest
  <2>3. Keeps(thread[u], thread'[u])
    <3>1. CASE u = t
      <4>1. thread'[u] = m
        BY <1>0, <3>1
      <4> QED
        BY <1>0, <3>1, <4>1
    <3>2. CASE u # t
      <4>1. thread'[u] = thread[u]
        BY <1>0, <3>2
      <4> QED
        BY <2>1, <4>1, KeepsSame
    <3> QED
      BY <3>1, <3>2
  <2>4. TheirNewest(thread[u]) <= TheirNewest(thread'[u]) /\ Len(thread[u]) <= Len(thread'[u])
    BY <2>1, <2>3, NewestGrows DEF Keeps
  <2> QED
    BY <2>2, <2>3, <2>4
<1> QED
  BY <1>0, <1>2, <1>3

-----------------------------------------------------------------------------
(* The steps, as the synchronisation sees them                             *)

LEMMA DeskSteps ==
    ASSUME DeskTyped, DeskNext
    PROVE  \/ \E t \in Known : MailChanges(t)
           \/ \E t \in Known : \E n \in NamedIn(thread[t]) : PostReply(t, n)
           \/ \E s \in Mailbox : BeginSync(s) \/ ListThreads(s) \/ NotConnected(s) \/ \E t \in Thread : ReadThread(s, t)
           \/ \E s \in Syncer : Ingest(s) \/ CreateReply(s) \/ ApplyClassification(s) \/ SyncDone(s) \/ SyncBreaks(s)
           \/ GivenUp("cron") \/ GivenUp("post") \/ SyncAnswered \/ SyncRefused
           \/ UNCHANGED syncVars
<1>1. CASE \/ \E t \in Known, from \in FromCustomer : MailComes(t, from)
           \/ \E t \in Known, what \in {"draft", "ours"} : UserWrites(t, what) \/ UserDiscards(t)
  <2>1. \E t \in Known : MailChanges(t)
    BY <1>1, MailSteps, Zenon
  <2> QED
    BY <2>1
<1>2. CASE CronSyncs \/ SyncNow
  <2>1. BeginSync("cron") \/ BeginSync("page")
    BY <1>2 DEF CronSyncs, SyncNow
  <2> QED
    BY <2>1 DEF Mailbox
<1>3. CASE GivenUp("cron") \/ GivenUp("post") \/ SyncAnswered \/ SyncRefused
  BY <1>3
<1>4. CASE \E s \in {"page", "cron"} : ListThreads(s) \/ NotConnected(s) \/ \E t \in Thread : ReadThread(s, t)
  BY <1>4, Zenon DEF Mailbox
<1>5. CASE \E l \in fetches : GetReplies(l) \/ RepliesLoaded(l) \/ RepliesFail(l)
  BY <1>5 DEF GetReplies, RepliesLoaded, RepliesFail
<1>6. CASE ToggleAll \/ GenerateDraft \/ DraftAnswered
  BY <1>6 DEF ToggleAll, GenerateDraft, DraftAnswered
<1>7. CASE \E i \in replies : Select(i)
  BY <1>7 DEF Select
<1>8. CASE \E s \in {"page", "cron", "post"} :
             Ingest(s) \/ CreateReply(s) \/ ApplyClassification(s) \/ SyncDone(s) \/ SyncBreaks(s)
  BY <1>8, Zenon DEF Syncer
<1>9. CASE \E t \in Known : \E n \in {0} \cup {m \in 1 .. Len(thread[t]) : thread[t][m] \in FromCustomer} : PostReply(t, n)
  BY <1>9, Zenon DEF NamedIn
<1> QED
  BY <1>1, <1>2, <1>3, <1>4, <1>5, <1>6, <1>7, <1>8, <1>9, Zenon DEF DeskNext

(* Those that synchronise the mailbox are two of the three.                *)
LEMMA MailboxSyncs == Mailbox \subseteq Syncer /\ "post" \in Syncer \ Mailbox /\ Syncer = Mailbox \cup {"post"}
BY DEF Mailbox, Syncer

LEMMA AllStays ==
    ASSUME all \in BOOLEAN, DeskNext
    PROVE  all' \in BOOLEAN
<1>1. CASE ToggleAll
  BY <1>1, Zenon DEF ToggleAll
<1>2. CASE UNCHANGED viewVars \/ UNCHANGED all
  BY <1>2 DEF viewVars
<1>3. UNCHANGED viewVars \/ UNCHANGED all \/ ToggleAll
  BY DEF DeskNext, MailComes, UserWrites, UserDiscards, Changes, CronSyncs, PostReply, GivenUp, ListThreads, Ingest, CreateReply, ApplyClassification,
         SyncDone, NotConnected, SyncBreaks, ReadThread, GetReplies, RepliesLoaded, RepliesFail, SyncNow,
         SyncAnswered, SyncRefused, GenerateDraft, DraftAnswered, Select
<1> QED
  BY <1>1, <1>2, <1>3

(* What the rows and threads of a step leave of the types.                 *)
LEMMA SyncTypes ==
    ASSUME DeskTyped, NEW s \in Syncer, thread' = thread, syncs' \in [Syncer -> SyncRow],
           \A x \in Syncer \ {s} : syncs'[x] = syncs[x],
           syncs'[s].at \in {"ingest", "create", "apply"} =>
             syncs'[s].thread \in Known /\ syncs'[s].mail \in 0 .. Len(thread[syncs'[s].thread]),
           \A t \in syncs'[s].todo : TheirNewest(thread[t]) > 0
    PROVE  SyncsTyped'
<1>1. ASSUME NEW x \in Syncer, syncs'[x].at \in {"ingest", "create", "apply"}
      PROVE  syncs'[x].thread \in Known /\ syncs'[x].mail \in 0 .. Len(thread[syncs'[x].thread])
  BY <1>1 DEF DeskTyped, SyncsTyped
<1>2. ASSUME NEW x \in Syncer, NEW t \in syncs'[x].todo
      PROVE  TheirNewest(thread[t]) > 0
  BY <1>2 DEF DeskTyped, SyncsTyped
<1> QED
  BY <1>1, <1>2 DEF SyncsTyped

LEMMA EndsTyped ==
    ASSUME DeskTyped, NEW s \in Syncer, Ends(s)
    PROVE  Threads' /\ ThreadsTyped' /\ SyncsTyped' /\ DueTyped'
<1>1. SyncsTyped'
  <2>1. \A t \in syncs'[s].todo : TheirNewest(thread[t]) > 0
    BY DEF Ends, DeskTyped, SyncsTyped
  <2> QED
    BY <2>1, SyncTypes DEF Ends
<1> QED
  BY <1>1 DEF Ends, DeskTyped, Threads, ThreadsTyped, DueTyped

LEMMA DeskTypedStep ==
    ASSUME DeskTyped, [DeskNext]_deskVars
    PROVE  DeskTyped'
<1>0. all' \in BOOLEAN
  <2>1. CASE DeskNext
    BY <2>1, AllStays DEF DeskTyped
  <2>2. CASE UNCHANGED deskVars
    BY <2>2 DEF DeskTyped, deskVars, viewVars
  <2> QED
    BY <2>1, <2>2
<1> SUFFICES Threads' /\ ThreadsTyped' /\ SyncsTyped' /\ DueTyped'
  BY <1>0 DEF DeskTyped
<1>1. ASSUME NEW t \in Known, MailChanges(t)
      PROVE  Threads' /\ ThreadsTyped' /\ SyncsTyped' /\ DueTyped'
  <2>1. /\ Threads'
        /\ \A u \in Thread : /\ Len(thread[u]) \in Nat /\ Len(thread'[u]) \in Nat
                             /\ Len(thread[u]) <= Len(thread'[u])
                             /\ TheirNewest(thread[u]) \in Nat /\ TheirNewest(thread'[u]) \in Nat
                             /\ TheirNewest(thread[u]) <= TheirNewest(thread'[u])
        /\ rows' = rows /\ syncs' = syncs /\ due' = due
    BY <1>1, MailEffect DEF historyVars
  <2>2. ThreadsTyped'
    <3>1. rows \in Seq(ReplyRow) /\ \A i \in 1 .. Len(rows) : rows[i] \in ReplyRow
      BY ElementOfSeq DEF DeskTyped, ThreadsTyped
    <3>2. ASSUME NEW i \in 1 .. Len(rows)
          PROVE  rows[i].at \in rows[i].mail .. Len(thread'[rows[i].thread])
      <4>1. rows[i].thread \in Thread /\ rows[i].mail \in Nat /\ rows[i].at \in Nat
        BY <3>1, DeskAssumption DEF ReplyRow
      <4>2. rows[i].at \in rows[i].mail .. Len(thread[rows[i].thread])
        BY DEF DeskTyped, ThreadsTyped
      <4> QED
        BY <2>1, <4>1, <4>2
    <3> QED
      BY <2>1, <3>1, <3>2 DEF ThreadsTyped
  <2>3. SyncsTyped'
    <3>1. ASSUME NEW s \in Syncer, syncs[s].at \in {"ingest", "create", "apply"}
          PROVE  syncs[s].thread \in Known /\ syncs[s].mail \in 0 .. Len(thread'[syncs[s].thread])
      <4>1. syncs[s].thread \in Known /\ syncs[s].mail \in 0 .. Len(thread[syncs[s].thread])
        BY <3>1 DEF DeskTyped, SyncsTyped
      <4> QED
        BY <2>1, <4>1, DeskAssumption DEF SyncRow
    <3>2. ASSUME NEW s \in Syncer, NEW u \in syncs[s].todo
          PROVE  TheirNewest(thread'[u]) > 0
      <4>1. u \in Thread /\ TheirNewest(thread[u]) > 0
        BY DEF DeskTyped, SyncsTyped, SyncRow
      <4> QED
        BY <2>1, <4>1
    <3> QED
      BY <2>1, <3>1, <3>2 DEF SyncsTyped, DeskTyped
  <2>4. DueTyped'
    BY <2>1 DEF DeskTyped, DueTyped
  <2> QED
    BY <2>1, <2>2, <2>3, <2>4
<1>2. ASSUME NEW s \in Syncer, BeginSync(s)
      PROVE  Threads' /\ ThreadsTyped' /\ SyncsTyped' /\ DueTyped'
  <2>1. Syncing(s, "rest", "start") /\ Same(s) /\ UNCHANGED <<thread, rows, due>>
    BY <1>2, BeginEffect
  <2>2. SyncsTyped'
    BY <2>1, SyncTypes DEF Syncing, Same, DeskTyped, SyncsTyped
  <2> QED
    BY <2>1, <2>2 DEF DeskTyped, Threads, ThreadsTyped, DueTyped
<1>3. ASSUME NEW s \in Syncer, ListThreads(s)
      PROVE  Threads' /\ ThreadsTyped' /\ SyncsTyped' /\ DueTyped'
  <2>1. /\ Syncing(s, "start", "next") /\ syncs'[s].todo = {t \in Thread : TheirNewest(thread[t]) > 0}
        /\ due' = [t \in Thread |-> TheirNewest(thread[t])] /\ UNCHANGED <<thread, rows>>
    BY <1>3, ListEffect
  <2>2. SyncsTyped'
    BY <2>1, SyncTypes DEF Syncing
  <2>3. DueTyped'
    <3>1. \A t \in Thread : TheirNewest(thread[t]) \in Nat
      <4>1. ASSUME NEW t \in Thread PROVE TheirNewest(thread[t]) \in Nat
        <5>1. thread[t] \in Seq(Mail)
          BY DEF DeskTyped, Threads
        <5> QED
          BY <5>1, NewestIs, LenProperties DEF TheirNewest
      <4> QED
        BY <4>1
    <3>2. due' \in [Thread -> Nat] /\ thread' = thread /\ \A t \in Thread : due'[t] = TheirNewest(thread[t])
      BY <2>1, <3>1
    <3> QED
      BY <3>1, <3>2 DEF DueTyped
  <2> QED
    BY <2>1, <2>2, <2>3 DEF DeskTyped, Threads, ThreadsTyped
<1>4. ASSUME NEW s \in Syncer, NEW t \in Thread, ReadThread(s, t)
      PROVE  Threads' /\ ThreadsTyped' /\ SyncsTyped' /\ DueTyped'
  <2> DEFINE n == Newest(t)
             new == HasLead(t, n) /\ ~Stored(t, n)
  <2>1. /\ n \in 1 .. Len(thread[t])
        /\ Syncing(s, "next", IF new THEN "ingest" ELSE "next")
        /\ syncs'[s].todo = syncs[s].todo \ {t} /\ syncs'[s].thread = t /\ syncs'[s].mail = n
        /\ UNCHANGED <<thread, rows, due>>
    BY <1>4, SyncReadEffect, Zenon
  <2>2. SyncsTyped'
    <3>1. syncs'[s].at \in {"ingest", "create", "apply"} => t \in Known
      BY <2>1 DEF Syncing, HasLead
    <3>2. \A u \in syncs'[s].todo : TheirNewest(thread[u]) > 0
      BY <2>1 DEF DeskTyped, SyncsTyped
    <3>3. n \in 0 .. Len(thread[t])
      <4>1. Len(thread[t]) \in Nat
        BY LenProperties DEF DeskTyped, Threads
      <4> QED
        BY <2>1, <4>1
    <3> HIDE DEF n, new
    <3> QED
      BY <2>1, <3>1, <3>2, <3>3, SyncTypes DEF Syncing
  <2> QED
    BY <2>1, <2>2 DEF DeskTyped, Threads, ThreadsTyped, DueTyped
<1>5. ASSUME NEW s \in Syncer, Ingest(s)
      PROVE  Threads' /\ ThreadsTyped' /\ SyncsTyped' /\ DueTyped'
  <2>1. /\ Same(s) /\ syncs[s].at = "ingest" /\ syncs' \in [Syncer -> SyncRow]
        /\ \A x \in Syncer \ {s} : syncs'[x] = syncs[x]
        /\ UNCHANGED <<thread, rows, due>>
    BY <1>5, IngestEffect DEF Syncing, historyVars
  <2>2. SyncsTyped'
    BY <2>1, SyncTypes DEF Same, DeskTyped, SyncsTyped
  <2> QED
    BY <2>1, <2>2 DEF DeskTyped, Threads, ThreadsTyped, DueTyped
<1>6. ASSUME NEW s \in Syncer, CreateReply(s)
      PROVE  Threads' /\ ThreadsTyped' /\ SyncsTyped' /\ DueTyped'
  <2>1. /\ Same(s) /\ syncs[s].at = "create" /\ syncs' \in [Syncer -> SyncRow]
        /\ \A x \in Syncer \ {s} : syncs'[x] = syncs[x]
        /\ rows' = rows \/ \E added \in NewRows(s) : rows' = Append(rows, added)
        /\ UNCHANGED <<thread, due>>
    BY <1>6, SyncCreateEffect DEF Syncing, historyVars
  <2>2. SyncsTyped'
    BY <2>1, SyncTypes DEF Same, DeskTyped, SyncsTyped
  <2>3. ThreadsTyped'
    <3>1. CASE rows' = rows
      BY <2>1, <3>1 DEF DeskTyped, ThreadsTyped
    <3>2. ASSUME NEW added \in NewRows(s), rows' = Append(rows, added) PROVE ThreadsTyped'
      <4>1. /\ rows' \in Seq(ReplyRow) /\ Len(rows') = Len(rows) + 1 /\ Len(rows) \in Nat
            /\ \A i \in 1 .. Len(rows) : rows'[i] = rows[i]
            /\ rows'[Len(rows) + 1] = added
        BY <3>2, DeskRowAdded
      <4>2. added.at \in added.mail .. Len(thread[added.thread])
        <5> DEFINE u == syncs[s].thread
        <5>1. u \in Thread /\ syncs[s].mail \in 0 .. Len(thread[u])
          BY <2>1, DeskAssumption DEF DeskTyped, SyncsTyped
        <5>2. Len(thread[u]) \in Nat
          BY <5>1, LenProperties DEF DeskTyped, Threads
        <5>3. added.at = Len(thread[u]) /\ added.mail = syncs[s].mail /\ added.thread = u
          BY <3>2, DeskRowAdded
        <5> QED
          BY <5>1, <5>2, <5>3
      <4>3. ASSUME NEW i \in 1 .. Len(rows')
            PROVE  rows'[i].at \in rows'[i].mail .. Len(thread[rows'[i].thread])
        <5>1. CASE i = Len(rows) + 1
          BY <4>1, <4>2, <5>1
        <5>2. CASE i # Len(rows) + 1
          <6>1. i \in 1 .. Len(rows) /\ rows'[i] = rows[i]
            BY <4>1, <5>2
          <6> QED
            BY <6>1 DEF DeskTyped, ThreadsTyped
        <5> QED
          BY <5>1, <5>2
      <4> QED
        BY <2>1, <4>1, <4>3 DEF ThreadsTyped
    <3> QED
      BY <2>1, <3>1, <3>2
  <2> QED
    BY <2>1, <2>2, <2>3 DEF DeskTyped, Threads, DueTyped
<1>7. ASSUME NEW s \in Syncer, ApplyClassification(s)
      PROVE  Threads' /\ ThreadsTyped' /\ SyncsTyped' /\ DueTyped'
  <2>1. Same(s) /\ Syncing(s, "apply", "next") /\ UNCHANGED <<thread, rows, due>>
    BY <1>7, ApplyEffect DEF historyVars
  <2>2. SyncsTyped'
    BY <2>1, SyncTypes DEF Same, Syncing, DeskTyped, SyncsTyped
  <2> QED
    BY <2>1, <2>2 DEF DeskTyped, Threads, ThreadsTyped, DueTyped
<1>8. ASSUME NEW s \in Syncer, SyncDone(s) \/ NotConnected(s) \/ SyncBreaks(s)
      PROVE  Threads' /\ ThreadsTyped' /\ SyncsTyped' /\ DueTyped'
  <2>1. Ends(s)
    BY <1>8, DoneEffect, NotConnectedEffect, BreaksEffect
  <2> QED
    BY <2>1, EndsTyped
<1>9. ASSUME GivenUp("cron") \/ GivenUp("post") \/ SyncAnswered \/ SyncRefused
      PROVE  Threads' /\ ThreadsTyped' /\ SyncsTyped' /\ DueTyped'
  <2>1. PICK s \in Syncer : Ends(s)
    BY <1>9, NotedEffect
  <2> QED
    BY <2>1, EndsTyped
<1>10. ASSUME UNCHANGED syncVars
       PROVE  Threads' /\ ThreadsTyped' /\ SyncsTyped' /\ DueTyped'
  BY <1>10 DEF syncVars, historyVars, DeskTyped, Threads, ThreadsTyped, SyncsTyped, DueTyped
<1>13. ASSUME NEW t \in Known, NEW n \in NamedIn(thread[t]), PostReply(t, n)
       PROVE  Threads' /\ ThreadsTyped' /\ SyncsTyped' /\ DueTyped'
  <2>1. /\ Syncing("post", "rest", "ingest") /\ syncs'["post"].todo = syncs["post"].todo
        /\ syncs'["post"].thread = t /\ syncs'["post"].mail = n /\ n \in 0 .. Len(thread[t])
        /\ UNCHANGED <<thread, rows, due>>
    BY <1>13, PostEffect
  <2>2. SyncsTyped'
    <3>1. "post" \in Syncer /\ \A u \in syncs'["post"].todo : TheirNewest(thread[u]) > 0
      BY <2>1, MailboxSyncs DEF DeskTyped, SyncsTyped
    <3> QED
      BY <2>1, <3>1, SyncTypes DEF Syncing
  <2> QED
    BY <2>1, <2>2 DEF DeskTyped, Threads, ThreadsTyped, DueTyped
<1>11. CASE DeskNext
  BY <1>1, <1>2, <1>3, <1>4, <1>5, <1>6, <1>7, <1>8, <1>9, <1>10, <1>11, <1>13, DeskSteps, MailboxSyncs
<1>12. CASE UNCHANGED deskVars
  BY <1>10, <1>12 DEF deskVars
<1> QED
  BY <1>11, <1>12

LEMMA DeskTypedInit == DeskInit => DeskTyped
<1> SUFFICES ASSUME DeskInit PROVE DeskTyped
  OBVIOUS
<1>1. Threads /\ \A t \in Thread : Len(thread[t]) = 1
  <2>1. <<"human">> \in Seq(Mail) /\ Len(<<"human">>) = 1
    BY DEF Mail, FromCustomer
  <2> QED
    BY <2>1 DEF DeskInit, Threads
<1>2. ThreadsTyped
  <2>1. PICK order \in [1 .. Cardinality(Mailed) -> Mailed] :
          rows = [i \in DOMAIN order |-> [thread |-> order[i], mail |-> 1, kind |-> "human", at |-> 1]]
    BY DEF DeskInit
  <2>2. Cardinality(Mailed) \in Nat
    BY FS_CardinalityType, DeskAssumption
  <2>3. \A i \in 1 .. Cardinality(Mailed) :
          rows[i] \in ReplyRow /\ rows[i].at = 1 /\ rows[i].mail = 1
    BY <2>1, DeskAssumption DEF ReplyRow, FromCustomer
  <2>4. rows \in [1 .. Cardinality(Mailed) -> ReplyRow]
    BY <2>1, <2>3
  <2>5. rows \in Seq(ReplyRow) /\ Len(rows) = Cardinality(Mailed)
    BY <2>2, <2>4, IsASeq, LenProperties
  <2>6. ASSUME NEW i \in 1 .. Len(rows)
        PROVE  rows[i].at \in rows[i].mail .. Len(thread[rows[i].thread])
    <3>1. rows[i].thread \in Thread
      BY <2>3, <2>5, DeskAssumption DEF ReplyRow
    <3>2. rows[i].at = 1 /\ rows[i].mail = 1
      BY <2>3, <2>5
    <3>3. Len(thread[rows[i].thread]) = 1
      BY <1>1, <3>1
    <3> QED
      BY <3>2, <3>3
  <2> QED
    BY <2>5, <2>6 DEF ThreadsTyped
<1>3. SyncsTyped
  <2>1. syncs = [s \in Syncer |-> Resting] /\ Resting \in SyncRow /\ Resting.at = "rest" /\ Resting.todo = {}
    BY DEF DeskInit, Syncer, Resting, SyncRow, Place
  <2> QED
    BY <2>1 DEF SyncsTyped
<1>4. DueTyped
  <2>1. ASSUME NEW t \in Thread PROVE TheirNewest(thread[t]) \in Nat
    <3>1. thread[t] \in Seq(Mail)
      BY <1>1 DEF Threads
    <3> QED
      BY <3>1, NewestIs, LenProperties DEF TheirNewest
  <2> QED
    BY <2>1 DEF DeskInit, DueTyped
<1> QED
  BY <1>1, <1>2, <1>3, <1>4 DEF DeskTyped, DeskInit

-----------------------------------------------------------------------------
(* What is stored is applied                                               *)

(* A row that is neither applied nor was left over belongs to the          *)
(* synchronisation that has just stored it.                                *)
Applying(s, id) == syncs[s].at = "apply" /\ [thread |-> syncs[s].thread, mail |-> syncs[s].mail] = id
Applies ==
  \A i \in 1 .. Len(rows) :
    Id(rows[i]) \in applied \cup unapplied \/ \E s \in Syncer : Applying(s, Id(rows[i]))

(* A step that stores nothing keeps that, if the row it was to apply is    *)
(* applied or left over.                                                   *)
LEMMA AppliesKept ==
    ASSUME Applies, NEW s \in Syncer, rows' = rows, applied \subseteq applied', unapplied \subseteq unapplied',
           \A x \in Syncer \ {s} : syncs'[x] = syncs[x],
           syncs[s].at = "apply" =>
             [thread |-> syncs[s].thread, mail |-> syncs[s].mail] \in applied' \cup unapplied'
    PROVE  Applies'
<1>1. ASSUME NEW i \in 1 .. Len(rows)
      PROVE  Id(rows[i]) \in applied' \cup unapplied' \/ \E x \in Syncer : Applying(x, Id(rows[i]))'
  <2>1. CASE Id(rows[i]) \in applied \cup unapplied
    BY <2>1
  <2>2. ASSUME NEW x \in Syncer, Applying(x, Id(rows[i]))
        PROVE  Id(rows[i]) \in applied' \cup unapplied' \/ Applying(x, Id(rows[i]))'
    <3>1. CASE x = s
      BY <2>2, <3>1 DEF Applying
    <3>2. CASE x # s
      <4>1. syncs'[x] = syncs[x] /\ rows' = rows
        BY <3>2
      <4> QED
        BY <2>2, <4>1 DEF Applying, Id
    <3> QED
      BY <3>1, <3>2
  <2> QED
    BY <2>1, <2>2 DEF Applies
<1>2. ASSUME NEW i \in 1 .. Len(rows)
      PROVE  (Id(rows[i]) \in applied \cup unapplied \/ \E x \in Syncer : Applying(x, Id(rows[i])))'
  BY <1>1, Zenon DEF Id
<1> QED
  BY <1>2, Zenon DEF Applies

LEMMA AppliesStored ==
    ASSUME DeskTyped, Applies, NEW s \in Syncer, Syncing(s, "create", "apply"), Same(s),
           NEW added \in NewRows(s), rows' = Append(rows, added), applied' = applied, unapplied' = unapplied
    PROVE  Applies'
<1>1. /\ Len(rows') = Len(rows) + 1 /\ Len(rows) \in Nat
      /\ \A i \in 1 .. Len(rows) : rows'[i] = rows[i]
      /\ rows'[Len(rows) + 1] = added
  BY DeskRowAdded
<1>2. ASSUME NEW i \in 1 .. Len(rows'), i # Len(rows) + 1
      PROVE  (Id(rows[i]) \in applied \cup unapplied \/ \E x \in Syncer : Applying(x, Id(rows[i])))'
  <2>1. i \in 1 .. Len(rows) /\ rows'[i] = rows[i]
    BY <1>1, <1>2
  <2>2. Id(rows[i])' = Id(rows[i])
    BY <2>1 DEF Id
  <2>3. CASE Id(rows[i]) \in applied \cup unapplied
    BY <2>2, <2>3
  <2>4. ASSUME NEW x \in Syncer, Applying(x, Id(rows[i]))
        PROVE  Applying(x, Id(rows[i]))'
    <3>1. x # s
      BY <2>4 DEF Applying, Syncing
    <3>2. syncs'[x] = syncs[x]
      BY <3>1 DEF Syncing
    <3> QED
      BY <2>2, <2>4, <3>2 DEF Applying, Id
  <2> QED
    BY <2>1, <2>3, <2>4 DEF Applies
<1>3. ASSUME NEW i \in 1 .. Len(rows'), i = Len(rows) + 1
      PROVE  Applying(s, Id(rows[i]))'
  <2>1. syncs'[s].at = "apply" /\ syncs'[s].thread = syncs[s].thread /\ syncs'[s].mail = syncs[s].mail
    BY DEF Syncing, Same
  <2>2. Id(added) = [thread |-> syncs[s].thread, mail |-> syncs[s].mail]
    BY DeskRowAdded DEF Id
  <2> QED
    BY <1>1, <1>3, <2>1, <2>2 DEF Applying, Id
<1>4. ASSUME NEW i \in 1 .. Len(rows')
      PROVE  (Id(rows[i]) \in applied \cup unapplied \/ \E x \in Syncer : Applying(x, Id(rows[i])))'
  BY <1>2, <1>3, Zenon
<1> QED
  BY <1>4, Zenon DEF Applies

LEMMA AppliesStep ==
    ASSUME DeskTyped, Applies, [DeskNext]_deskVars
    PROVE  Applies'
<1>1. ASSUME NEW t \in Known, MailChanges(t)
      PROVE  Applies'
  BY <1>1 DEF MailChanges, Changes, historyVars, Applies, Applying, Id
<1>2. ASSUME NEW s \in Syncer, BeginSync(s)
      PROVE  Applies'
  <2>1. syncs[s].at # "apply" /\ UNCHANGED <<rows, applied, unapplied>> /\ \A x \in Syncer \ {s} : syncs'[x] = syncs[x]
    BY <1>2, BeginEffect DEF Syncing
  <2> QED
    BY <2>1, AppliesKept
<1>3. ASSUME NEW s \in Syncer, ListThreads(s)
      PROVE  Applies'
  <2>1. syncs[s].at # "apply" /\ UNCHANGED <<rows, applied, unapplied>> /\ \A x \in Syncer \ {s} : syncs'[x] = syncs[x]
    BY <1>3, ListEffect DEF Syncing
  <2> QED
    BY <2>1, AppliesKept
<1>4. ASSUME NEW s \in Syncer, NEW t \in Thread, ReadThread(s, t)
      PROVE  Applies'
  <2>1. /\ syncs[s].at # "apply" /\ UNCHANGED <<rows, applied, unapplied>>
        /\ \A x \in Syncer \ {s} : syncs'[x] = syncs[x]
    BY <1>4, SyncReadEffect, Zenon DEF Syncing
  <2> QED
    BY <2>1, AppliesKept
<1>5. ASSUME NEW s \in Syncer, Ingest(s)
      PROVE  Applies'
  <2>1. syncs[s].at # "apply" /\ UNCHANGED <<rows, applied, unapplied>> /\ \A x \in Syncer \ {s} : syncs'[x] = syncs[x]
    BY <1>5, IngestEffect DEF Syncing, historyVars
  <2> QED
    BY <2>1, AppliesKept
<1>6. ASSUME NEW s \in Syncer, CreateReply(s)
      PROVE  Applies'
  <2>1. Same(s) /\ UNCHANGED <<applied, unapplied>>
    BY <1>6, SyncCreateEffect DEF historyVars
  <2>2. CASE Syncing(s, "create", "failed") /\ rows' = rows
    <3>1. syncs[s].at # "apply" /\ \A x \in Syncer \ {s} : syncs'[x] = syncs[x]
      BY <2>2 DEF Syncing
    <3> QED
      BY <2>1, <2>2, <3>1, AppliesKept
  <2>3. CASE Syncing(s, "create", "apply") /\ \E added \in NewRows(s) : rows' = Append(rows, added)
    BY <2>1, <2>3, AppliesStored
  <2> QED
    BY <1>6, <2>2, <2>3, SyncCreateEffect
<1>7. ASSUME NEW s \in Syncer, ApplyClassification(s)
      PROVE  Applies'
  <2>1. /\ applied' = applied \cup {[thread |-> syncs[s].thread, mail |-> syncs[s].mail]}
        /\ UNCHANGED <<rows, unapplied>> /\ \A x \in Syncer \ {s} : syncs'[x] = syncs[x]
    BY <1>7, ApplyEffect DEF Syncing, historyVars
  <2> QED
    BY <2>1, AppliesKept
<1>8. ASSUME NEW s \in Syncer, Ends(s), UNCHANGED unapplied, syncs[s].at # "apply"
      PROVE  Applies'
  BY <1>8, AppliesKept DEF Ends
<1>9. ASSUME NEW s \in Syncer, SyncDone(s) \/ NotConnected(s)
      PROVE  Applies'
  BY <1>8, <1>9, DoneEffect, NotConnectedEffect
<1>10. ASSUME NEW s \in Syncer, SyncBreaks(s)
       PROVE  Applies'
  BY <1>10, BreaksEffect, AppliesKept DEF Ends
<1>11. ASSUME GivenUp("cron") \/ GivenUp("post") \/ SyncAnswered \/ SyncRefused
       PROVE  Applies'
  <2>1. PICK s \in Syncer : Ends(s) /\ syncs[s].at \in {"done", "failed"} /\ UNCHANGED <<cut, unapplied>>
    BY <1>11, NotedEffect
  <2> QED
    BY <1>8, <2>1
<1>12. ASSUME UNCHANGED syncVars
       PROVE  Applies'
  BY <1>12 DEF syncVars, historyVars, Applies, Applying, Id
<1>15. ASSUME NEW t \in Known, NEW n \in NamedIn(thread[t]), PostReply(t, n)
       PROVE  Applies'
  <2>1. /\ "post" \in Syncer /\ syncs["post"].at # "apply" /\ UNCHANGED <<rows, applied, unapplied>>
        /\ \A x \in Syncer \ {"post"} : syncs'[x] = syncs[x]
    BY <1>15, PostEffect, MailboxSyncs DEF Syncing
  <2> QED
    BY <2>1, AppliesKept
<1>13. CASE DeskNext
  BY <1>1, <1>2, <1>3, <1>4, <1>5, <1>6, <1>7, <1>9, <1>10, <1>11, <1>12, <1>13, <1>15, DeskSteps, MailboxSyncs
<1>14. CASE UNCHANGED deskVars
  BY <1>12, <1>14 DEF deskVars
<1> QED
  BY <1>13, <1>14

-----------------------------------------------------------------------------
(* Every thread has its newest mail stored                                 *)

(* One that is not doubled runs alone, and what it is about to store is    *)
(* not stored.                                                             *)
Solo ==
  \A s \in Syncer : Running(s) =>
    /\ \A x \in Syncer \ {s} : ~Running(x)
    /\ syncs[s].at = "create" => ~Stored(syncs[s].thread, syncs[s].mail)
SyncAlone == ~doubled => Solo

LEMMA SoloKept ==
    ASSUME Solo, NEW s \in Syncer, rows' = rows, \A x \in Syncer \ {s} : syncs'[x] = syncs[x],
           Running(s)' => Running(s),
           syncs'[s].at = "create" => ~Stored(syncs'[s].thread, syncs'[s].mail)
    PROVE  Solo'
<1>1. \A x \in Syncer \ {s} : Running(x)' <=> Running(x)
  BY DEF Running
<1>2. ASSUME NEW y \in Syncer, Running(y)'
      PROVE  /\ \A x \in Syncer \ {y} : ~Running(x)'
             /\ syncs'[y].at = "create" => ~Stored(syncs'[y].thread, syncs'[y].mail)
  <2>1. Running(y)
    BY <1>1, <1>2
  <2>2. ASSUME NEW x \in Syncer \ {y} PROVE ~Running(x)'
    BY <1>1, <2>1 DEF Solo
  <2>3. CASE y = s
    BY <2>2, <2>3
  <2>4. CASE y # s
    BY <2>1, <2>2, <2>4 DEF Solo
  <2> QED
    BY <2>3, <2>4
<1>3. ASSUME NEW t, NEW n PROVE Stored(t, n)' <=> Stored(t, n)
  BY DEF Stored
<1> QED
  BY <1>2, <1>3 DEF Solo, Stored

(* Only a synchronisation that begins, or a POST, sets doubled.            *)
LEMMA DoubledStays ==
    ASSUME [DeskNext]_deskVars
    PROVE  \/ doubled' = doubled
           \/ \E s \in Mailbox : BeginSync(s)
           \/ \E t \in Known : \E n \in NamedIn(thread[t]) : PostReply(t, n)
<1>1. ASSUME UNCHANGED historyVars PROVE doubled' = doubled
  BY <1>1 DEF historyVars
<1>2. ASSUME UNCHANGED syncVars PROVE doubled' = doubled
  BY <1>1, <1>2 DEF syncVars
<1>3. CASE \/ \E t \in Known, from \in FromCustomer : MailComes(t, from)
           \/ \E t \in Known, what \in {"draft", "ours"} : UserWrites(t, what) \/ UserDiscards(t)
  BY <1>1, <1>3, Zenon DEF MailComes, UserWrites, UserDiscards, Changes
<1>4. CASE CronSyncs \/ SyncNow
  BY <1>4, Zenon DEF CronSyncs, SyncNow, Mailbox
<1>5. CASE GivenUp("cron") \/ GivenUp("post") \/ SyncAnswered \/ SyncRefused
  BY <1>1, <1>5, Zenon DEF GivenUp, SyncAnswered, SyncRefused
<1>6. CASE \E s \in {"page", "cron"} : ListThreads(s) \/ NotConnected(s) \/ \E t \in Thread : ReadThread(s, t)
  BY <1>6, Zenon DEF ListThreads, NotConnected, ReadThread
<1>7. CASE \E l \in fetches : GetReplies(l) \/ RepliesLoaded(l) \/ RepliesFail(l)
  BY <1>2, <1>7, Zenon DEF GetReplies, RepliesLoaded, RepliesFail
<1>8. CASE ToggleAll \/ GenerateDraft \/ DraftAnswered \/ \E i \in replies : Select(i)
  BY <1>2, <1>8, Zenon DEF ToggleAll, GenerateDraft, DraftAnswered, Select
<1>9. CASE \E s \in {"page", "cron", "post"} :
             Ingest(s) \/ CreateReply(s) \/ ApplyClassification(s) \/ SyncDone(s) \/ SyncBreaks(s)
  BY <1>1, <1>9, Zenon DEF Ingest, CreateReply, ApplyClassification, SyncDone, SyncBreaks
<1>10. CASE \E t \in Known : \E n \in {0} \cup {m \in 1 .. Len(thread[t]) : thread[t][m] \in FromCustomer} : PostReply(t, n)
  BY <1>10, Zenon DEF NamedIn
<1>11. CASE UNCHANGED deskVars
  BY <1>2, <1>11, Zenon DEF deskVars
<1> QED
  BY <1>3, <1>4, <1>5, <1>6, <1>7, <1>8, <1>9, <1>10, <1>11, Zenon DEF DeskNext

LEMMA AloneStep ==
    ASSUME DeskTyped, SyncAlone, [DeskNext]_deskVars
    PROVE  SyncAlone'
<1> USE DEF Running
<1>1. ASSUME NEW s \in Syncer, BeginSync(s)
      PROVE  SyncAlone'
  <2> SUFFICES ASSUME ~doubled' PROVE Solo'
    BY Zenon DEF SyncAlone
  <2>1. /\ Syncing(s, "rest", "start") /\ \A x \in Syncer \ {s} : ~Running(x)
    BY <1>1, BeginEffect
  <2>2. \A x \in Syncer \ {s} : ~Running(x)'
    BY <2>1 DEF Syncing
  <2> QED
    BY <2>1, <2>2 DEF Syncing, Solo
<1>14. ASSUME NEW t \in Known, NEW n \in NamedIn(thread[t]), PostReply(t, n)
       PROVE  SyncAlone'
  <2> SUFFICES ASSUME ~doubled' PROVE Solo'
    BY Zenon DEF SyncAlone
  <2>1. /\ Syncing("post", "rest", "ingest")
        /\ \A x \in Syncer \ {"post"} : ~Running(x)
    BY <1>14, PostEffect, Zenon DEF Syncer
  <2>2. \A x \in Syncer \ {"post"} : ~Running(x)'
    BY <2>1 DEF Syncing
  <2> QED
    BY <2>1, <2>2 DEF Syncing, Solo
<1>15. CASE \/ \E s \in Mailbox : BeginSync(s)
            \/ \E t \in Known : \E n \in NamedIn(thread[t]) : PostReply(t, n)
  BY <1>1, <1>14, <1>15, MailboxSyncs
<1> SUFFICES ASSUME Solo, ~(\E s \in Mailbox : BeginSync(s)),
                    ~\E t \in Known : \E n \in NamedIn(thread[t]) : PostReply(t, n)
             PROVE  Solo'
  <2>1. CASE doubled' = doubled
    BY <1>15, <2>1, Zenon DEF SyncAlone
  <2> QED
    BY <1>15, <2>1, DoubledStays, Zenon
<1>2. ASSUME NEW t \in Known, MailChanges(t)
      PROVE  Solo'
  BY <1>2 DEF MailChanges, Changes, Solo, Stored
<1>3. ASSUME NEW s \in Syncer, ListThreads(s)
      PROVE  Solo'
  BY <1>3, ListEffect, SoloKept DEF Syncing
<1>4. ASSUME NEW s \in Syncer, NEW t \in Thread, ReadThread(s, t)
      PROVE  Solo'
  <2>1. /\ syncs[s].at = "next" /\ syncs'[s].at \in {"ingest", "next"} /\ rows' = rows
        /\ \A x \in Syncer \ {s} : syncs'[x] = syncs[x]
    BY <1>4, SyncReadEffect, Zenon DEF Syncing
  <2> QED
    BY <2>1, SoloKept
<1>5. ASSUME NEW s \in Syncer, Ingest(s)
      PROVE  Solo'
  BY <1>5, IngestEffect, SoloKept DEF Syncing, Same
<1>6. ASSUME NEW s \in Syncer, CreateReply(s)
      PROVE  Solo'
  <2>1. /\ syncs[s].at = "create" /\ syncs'[s].at \in {"failed", "apply"}
        /\ \A x \in Syncer \ {s} : syncs'[x] = syncs[x]
    BY <1>6, SyncCreateEffect DEF Syncing
  <2> QED
    BY <2>1 DEF Solo
<1>7. ASSUME NEW s \in Syncer, ApplyClassification(s)
      PROVE  Solo'
  BY <1>7, ApplyEffect, SoloKept DEF Syncing
<1>8. ASSUME NEW s \in Syncer, Ends(s)
      PROVE  Solo'
  BY <1>8, SoloKept DEF Ends
<1>9. ASSUME NEW s \in Syncer, SyncDone(s) \/ NotConnected(s) \/ SyncBreaks(s)
      PROVE  Solo'
  BY <1>8, <1>9, DoneEffect, NotConnectedEffect, BreaksEffect
<1>10. ASSUME GivenUp("cron") \/ GivenUp("post") \/ SyncAnswered \/ SyncRefused
       PROVE  Solo'
  BY <1>8, <1>10, NotedEffect
<1>11. ASSUME UNCHANGED syncVars
       PROVE  Solo'
  BY <1>11 DEF syncVars, Solo, Stored
<1>12. CASE DeskNext
  BY <1>2, <1>3, <1>4, <1>5, <1>6, <1>7, <1>9, <1>10, <1>11, <1>12, DeskSteps, MailboxSyncs
<1>13. CASE UNCHANGED deskVars
  BY <1>11, <1>13 DEF deskVars
<1> QED
  BY <1>12, <1>13

(* A thread that is due has a mail of the customer's as late stored, or    *)
(* one comes: its synchronisation has it to read yet, or is about to store *)
(* one; or a draft of the user's was in the way.                           *)
Since(t) ==
  \E i \in 1 .. Len(rows) :
    /\ rows[i].thread = t /\ rows[i].mail >= due[t]
    /\ thread[t][rows[i].mail] \in FromCustomer
ComesBy(s, t) ==
  \/ Running(s) /\ t \in syncs[s].todo
  \/ /\ syncs[s].at \in {"ingest", "create"} /\ syncs[s].thread = t
     /\ syncs[s].mail >= due[t] /\ thread[t][syncs[s].mail] \in FromCustomer
Cares == \A t \in Known : due[t] > 0 => t \in masked \/ Since(t) \/ \E s \in Mailbox : ComesBy(s, t)
Catches == (\E s \in Mailbox : syncs[s].at = "start") \/ Cares
CaughtUp == ~doubled /\ ~cut => Catches

(* A step of one synchronisation that drops no thread.                     *)
LEMMA CaresKept ==
    ASSUME Catches, NEW s \in Syncer, due' = due, thread' = thread, masked \subseteq masked',
           s \in Mailbox => syncs[s].at # "start",
           \A x \in Syncer \ {s} : syncs'[x] = syncs[x],
           \A t \in Known : Since(t) => Since(t)',
           \A t \in Known : s \in Mailbox /\ ComesBy(s, t) => t \in masked' \/ Since(t)' \/ ComesBy(s, t)'
    PROVE  Catches'
<1>1. ASSUME NEW x \in Mailbox, syncs[x].at = "start"
      PROVE  Catches'
  <2>1. syncs'[x].at = "start"
    BY <1>1, MailboxSyncs
  <2> QED
    BY <2>1 DEF Catches
<1>2. CASE Cares
  <2>1. ASSUME NEW t \in Known, NEW x \in Mailbox, ComesBy(x, t)
        PROVE  t \in masked' \/ Since(t)' \/ \E y \in Mailbox : ComesBy(y, t)'
    <3>1. CASE x = s
      BY <2>1, <3>1
    <3>2. CASE x # s
      <4>1. ComesBy(x, t)'
        BY <2>1, <3>2, MailboxSyncs DEF ComesBy, Running
      <4> QED
        BY <4>1
    <3> QED
      BY <3>1, <3>2
  <2>2. ASSUME NEW t \in Known, due'[t] > 0
        PROVE  t \in masked' \/ Since(t)' \/ \E y \in Mailbox : ComesBy(y, t)'
    BY <1>2, <2>1, <2>2 DEF Cares
  <2> QED
    BY <2>2 DEF Catches, Cares
<1> QED
  BY <1>1, <1>2 DEF Catches

LEMMA SinceStays ==
    ASSUME rows' = rows, due' = due, thread' = thread
    PROVE  \A t \in Known : Since(t) => Since(t)'
BY DEF Since

LEMMA StoredIsSince ==
    ASSUME NEW t \in Known, NEW n, Stored(t, n), n >= due[t], thread[t][n] \in FromCustomer
    PROVE  Since(t)
BY DEF Stored, Since

(* What the customer wrote stays stored, or to be stored.                  *)
LEMMA CatchesMail ==
    ASSUME DeskTyped, Catches, NEW t \in Known, MailChanges(t)
    PROVE  Catches'
<1>1. /\ UNCHANGED <<rows, syncs, due, masked>>
      /\ \A u \in Thread : Len(thread[u]) \in Nat /\ Keeps(thread[u], thread'[u])
  BY MailEffect DEF historyVars
<1>2. \A u \in Known : due[u] \in Nat /\ u \in Thread
  BY DeskAssumption DEF DeskTyped, DueTyped
<1>3. ASSUME NEW u \in Known, due[u] > 0, Since(u) PROVE Since(u)'
  <2>1. PICK i \in 1 .. Len(rows) :
          rows[i].thread = u /\ rows[i].mail >= due[u] /\ thread[u][rows[i].mail] \in FromCustomer
    BY <1>3 DEF Since
  <2>2. rows[i] \in ReplyRow /\ rows[i].at \in rows[i].mail .. Len(thread[u])
    BY <2>1, ElementOfSeq DEF DeskTyped, ThreadsTyped
  <2>3. rows[i].mail \in 1 .. Len(thread[u])
    BY <1>1, <1>2, <1>3, <2>1, <2>2 DEF ReplyRow
  <2>4. thread'[u][rows[i].mail] \in FromCustomer
    BY <1>1, <1>2, <2>1, <2>3 DEF Keeps
  <2> QED
    BY <1>1, <2>1, <2>4 DEF Since
<1>4. ASSUME NEW u \in Known, due[u] > 0, NEW s \in Mailbox, ComesBy(s, u) PROVE ComesBy(s, u)'
  <2>1. CASE Running(s) /\ u \in syncs[s].todo
    BY <1>1, <2>1 DEF ComesBy, Running
  <2>2. CASE /\ syncs[s].at \in {"ingest", "create"} /\ syncs[s].thread = u
             /\ syncs[s].mail >= due[u] /\ thread[u][syncs[s].mail] \in FromCustomer
    <3>1. syncs[s].mail \in 0 .. Len(thread[u])
      BY <2>2, MailboxSyncs DEF DeskTyped, SyncsTyped
    <3>2. syncs[s].mail \in 1 .. Len(thread[u])
      BY <1>1, <1>2, <1>4, <2>2, <3>1
    <3>3. thread'[u][syncs[s].mail] \in FromCustomer
      BY <1>1, <1>2, <2>2, <3>2 DEF Keeps
    <3> QED
      BY <1>1, <2>2, <3>3 DEF ComesBy
  <2> QED
    BY <1>4, <2>1, <2>2 DEF ComesBy
<1>5. Cares => Cares'
  BY <1>1, <1>3, <1>4 DEF Cares
<1> QED
  BY <1>1, <1>5 DEF Catches

LEMMA CaughtUpStep ==
    ASSUME DeskTyped, SyncAlone, CaughtUp, [DeskNext]_deskVars
    PROVE  CaughtUp'
<1> SUFFICES ASSUME ~doubled', ~cut' PROVE Catches'
  BY Zenon DEF CaughtUp
<1>1. ASSUME NEW s \in Mailbox, BeginSync(s)
      PROVE  Catches'
  BY <1>1, BeginEffect, MailboxSyncs DEF Syncing, Catches
<1>2. ASSUME NEW s \in Mailbox, ListThreads(s)
      PROVE  Catches'
  <2>1. /\ syncs'[s].at = "next" /\ syncs'[s].todo = {t \in Thread : TheirNewest(thread[t]) > 0}
        /\ due' = [t \in Thread |-> TheirNewest(thread[t])]
    BY <1>2, ListEffect, MailboxSyncs DEF Syncing
  <2>2. ASSUME NEW t \in Known, due'[t] > 0
        PROVE  ComesBy(s, t)'
    BY <2>1, <2>2, DeskAssumption DEF ComesBy, Running
  <2> QED
    BY <2>2 DEF Catches, Cares
<1>14. ASSUME NEW t \in Known, NEW n \in NamedIn(thread[t]), PostReply(t, n)
       PROVE  Catches'
  <2>1. /\ Syncing("post", "rest", "ingest") /\ ~doubled
        /\ UNCHANGED <<thread, rows, due, masked, cut>>
    BY <1>14, PostEffect, Zenon
  <2>2. Catches
    BY <2>1, Zenon DEF CaughtUp
  <2>3. \A u \in Known : Since(u) => Since(u)'
    BY <2>1, SinceStays
  <2> QED
    BY <2>1, <2>2, <2>3, MailboxSyncs, CaresKept DEF Syncing
<1>15. CASE \/ \E s \in Mailbox : BeginSync(s) \/ ListThreads(s)
            \/ \E t \in Known : \E n \in NamedIn(thread[t]) : PostReply(t, n)
  BY <1>1, <1>2, <1>14, <1>15
<1> SUFFICES ASSUME doubled' = doubled, ~(\E s \in Mailbox : BeginSync(s) \/ ListThreads(s)),
                    ~\E t \in Known : \E n \in NamedIn(thread[t]) : PostReply(t, n)
             PROVE  Catches'
  BY <1>15, DoubledStays, Zenon
<1>0. Solo /\ (cut' = cut => Catches)
  BY Zenon DEF SyncAlone, CaughtUp
<1>3. ASSUME NEW t \in Known, MailChanges(t)
      PROVE  Catches'
  <2>1. cut' = cut
    BY <1>3, MailEffect DEF historyVars
  <2> QED
    BY <1>0, <1>3, <2>1, CatchesMail
<1>4. ASSUME NEW s \in Mailbox, NEW t \in Thread, ReadThread(s, t)
      PROVE  Catches'
  <2> DEFINE n == Newest(t)
             new == HasLead(t, n) /\ ~Stored(t, n)
  <2>0. s \in Syncer
    BY MailboxSyncs
  <2>1. /\ n \in 1 .. Len(thread[t]) /\ TheirNewest(thread[t]) <= n
        /\ Syncing(s, "next", IF new THEN "ingest" ELSE "next")
        /\ syncs'[s].todo = syncs[s].todo \ {t} /\ syncs'[s].thread = t /\ syncs'[s].mail = n
        /\ masked \subseteq masked' /\ (t \in masked' \/ thread[t][n] \in FromCustomer)
        /\ UNCHANGED <<thread, rows, due, cut>>
    BY <1>4, <2>0, SyncReadEffect, Zenon
  <2>2. due[t] \in Nat /\ due[t] <= n
    <3>1. due[t] \in Nat /\ due[t] <= TheirNewest(thread[t])
      BY DEF DeskTyped, DueTyped
    <3>2. thread[t] \in Seq(Mail) /\ Len(thread[t]) \in Nat
      BY LenProperties DEF DeskTyped, Threads
    <3>3. TheirNewest(thread[t]) \in Nat
      BY <3>2, NewestIs DEF TheirNewest
    <3> HIDE DEF n
    <3> QED
      BY <2>1, <3>1, <3>2, <3>3
  <2>3. \A u \in Known : Since(u) => Since(u)'
    BY <2>1, SinceStays
  <2>4. ASSUME NEW u \in Known, ComesBy(s, u)
        PROVE  u \in masked' \/ Since(u)' \/ ComesBy(s, u)'
    <3>1. u \in syncs[s].todo
      BY <2>1, <2>4 DEF ComesBy, Syncing
    <3>2. CASE u # t
      <4>1. u \in syncs'[s].todo /\ syncs'[s].at \in {"ingest", "next"}
        BY <2>1, <3>1, <3>2 DEF Syncing
      <4> QED
        BY <4>1 DEF ComesBy, Running
    <3>3. CASE u = t /\ thread[t][n] \in FromCustomer /\ Stored(t, n)
      BY <2>2, <2>3, <3>3, StoredIsSince
    <3>4. CASE u = t /\ thread[t][n] \in FromCustomer /\ ~Stored(t, n)
      <4>1. HasLead(t, n)
        BY <3>4 DEF HasLead
      <4>2. syncs'[s].at = "ingest" /\ syncs'[s].thread = u /\ syncs'[s].mail >= due'[u]
        <5> HIDE DEF n
        <5> QED
          BY <2>1, <2>2, <3>4, <4>1 DEF Syncing
      <4>3. thread'[u][syncs'[s].mail] \in FromCustomer
        BY <2>1, <3>4
      <4> QED
        BY <4>2, <4>3 DEF ComesBy
    <3>5. CASE u = t /\ u \in masked'
      BY <3>5
    <3> QED
      BY <2>1, <3>2, <3>3, <3>4, <3>5
  <2>5. syncs[s].at # "start" /\ \A x \in Syncer \ {s} : syncs'[x] = syncs[x]
    BY <2>1 DEF Syncing
  <2> QED
    BY <1>0, <2>0, <2>1, <2>3, <2>4, <2>5, CaresKept
<1>5. ASSUME NEW s \in Syncer, Ingest(s)
      PROVE  Catches'
  <2>1. /\ Same(s) /\ syncs[s].at = "ingest" /\ syncs'[s].at \in {"next", "create"}
        /\ syncs'[s].at = "next" => Stored(syncs[s].thread, syncs[s].mail)
        /\ \A x \in Syncer \ {s} : syncs'[x] = syncs[x]
        /\ UNCHANGED <<thread, rows, due, masked, cut>>
    BY <1>5, IngestEffect DEF Syncing, historyVars
  <2>2. \A u \in Known : Since(u) => Since(u)'
    BY <2>1, SinceStays
  <2>3. ASSUME NEW u \in Known, ComesBy(s, u)
        PROVE  Since(u)' \/ ComesBy(s, u)'
    <3>1. CASE u \in syncs[s].todo
      BY <2>1, <3>1 DEF ComesBy, Running, Same
    <3>2. CASE u \notin syncs[s].todo /\ syncs'[s].at = "create"
      BY <2>1, <2>3, <3>2 DEF ComesBy, Running, Same
    <3>3. CASE u \notin syncs[s].todo /\ syncs'[s].at = "next"
      <4>1. syncs[s].thread = u /\ syncs[s].mail >= due[u] /\ thread[u][syncs[s].mail] \in FromCustomer
        BY <2>3, <3>3 DEF ComesBy
      <4> QED
        BY <2>1, <2>2, <3>3, <4>1, StoredIsSince
    <3> QED
      BY <2>1, <3>1, <3>2, <3>3
  <2> QED
    BY <1>0, <2>1, <2>2, <2>3, CaresKept
<1>6. ASSUME NEW s \in Syncer, CreateReply(s)
      PROVE  Catches'
  <2>1. /\ Same(s) /\ syncs[s].at = "create"
        /\ \A x \in Syncer \ {s} : syncs'[x] = syncs[x]
        /\ UNCHANGED <<thread, due, masked, cut>>
    BY <1>6, SyncCreateEffect DEF Syncing, historyVars
  <2>2. ~Stored(syncs[s].thread, syncs[s].mail)
    BY <1>0, <2>1 DEF Solo, Running
  <2>3. syncs'[s].at = "apply" /\ \E added \in NewRows(s) : rows' = Append(rows, added)
    BY <1>6, <2>2, SyncCreateEffect DEF Syncing
  <2>7. PICK added \in NewRows(s) : rows' = Append(rows, added)
    BY <2>3
  <2>4. /\ Len(rows') = Len(rows) + 1 /\ Len(rows) \in Nat
        /\ \A i \in 1 .. Len(rows) : rows'[i] = rows[i]
        /\ rows'[Len(rows) + 1] = added /\ added.thread = syncs[s].thread /\ added.mail = syncs[s].mail
    BY <2>7, DeskRowAdded
  <2>5. ASSUME NEW u \in Known, Since(u)
        PROVE  Since(u)'
    <3>1. PICK i \in 1 .. Len(rows) :
            rows[i].thread = u /\ rows[i].mail >= due[u] /\ thread[u][rows[i].mail] \in FromCustomer
      BY <2>5 DEF Since
    <3>2. i \in 1 .. Len(rows') /\ rows'[i] = rows[i]
      BY <2>4
    <3> QED
      BY <2>1, <3>1, <3>2 DEF Since
  <2>6. ASSUME NEW u \in Known, ComesBy(s, u)
        PROVE  Since(u)' \/ ComesBy(s, u)'
    <3>1. CASE u \in syncs[s].todo
      BY <2>1, <2>3, <3>1 DEF ComesBy, Running, Same
    <3>2. CASE u \notin syncs[s].todo
      <4>1. syncs[s].thread = u /\ syncs[s].mail >= due[u] /\ thread[u][syncs[s].mail] \in FromCustomer
        BY <2>6, <3>2 DEF ComesBy
      <4>2. /\ Len(rows) + 1 \in 1 .. Len(rows') /\ rows'[Len(rows) + 1].thread = u
            /\ rows'[Len(rows) + 1].mail >= due'[u] /\ thread'[u][rows'[Len(rows) + 1].mail] \in FromCustomer
        BY <2>1, <2>4, <4>1
      <4> QED
        BY <4>2 DEF Since
    <3> QED
      BY <3>1, <3>2
  <2> QED
    BY <1>0, <2>1, <2>5, <2>6, CaresKept
<1>7. ASSUME NEW s \in Syncer, ApplyClassification(s)
      PROVE  Catches'
  <2>1. /\ Same(s) /\ syncs[s].at = "apply" /\ syncs'[s].at = "next"
        /\ \A x \in Syncer \ {s} : syncs'[x] = syncs[x]
        /\ UNCHANGED <<thread, rows, due, masked, cut>>
    BY <1>7, ApplyEffect DEF Syncing, historyVars
  <2>2. \A u \in Known : ComesBy(s, u) => ComesBy(s, u)'
    BY <2>1 DEF ComesBy, Running, Same
  <2> QED
    BY <1>0, <2>1, <2>2, SinceStays, CaresKept
<1>8. ASSUME NEW s \in Syncer, Ends(s), cut' = cut, s \in Mailbox => syncs[s].at # "start",
             s \in Mailbox => \A u \in Known : ~ComesBy(s, u)
      PROVE  Catches'
  BY <1>0, <1>8, SinceStays, CaresKept DEF Ends
<1>9. ASSUME NEW s \in Syncer, SyncDone(s)
      PROVE  Catches'
  <2>1. Ends(s) /\ syncs[s].at = "next" /\ syncs[s].todo = {} /\ cut' = cut
    BY <1>9, DoneEffect
  <2>2. \A u \in Known : ~ComesBy(s, u)
    BY <2>1 DEF ComesBy
  <2> QED
    BY <1>8, <2>1, <2>2
<1>16. ASSUME NEW s \in Syncer, SyncBreaks(s)
       PROVE  Catches'
  <2>1. Ends(s) /\ s \notin Mailbox
    BY <1>16, BreaksEffect
  <2>2. cut' = cut
    <3>1. s = "post"
      BY <2>1 DEF Mailbox, Syncer
    <3> QED
      BY <1>16, <3>1, Zenon DEF SyncBreaks
  <2> QED
    BY <1>8, <2>1, <2>2
<1>17. ASSUME NEW s \in Mailbox, NotConnected(s)
       PROVE  Catches'
  BY <1>17, NotConnectedEffect, MailboxSyncs
<1>10. ASSUME GivenUp("cron") \/ GivenUp("post") \/ SyncAnswered \/ SyncRefused
       PROVE  Catches'
  <2>1. PICK s \in Syncer : Ends(s) /\ syncs[s].at \in {"done", "failed"} /\ cut' = cut
    BY <1>10, NotedEffect
  <2>2. \A u \in Known : ~ComesBy(s, u)
    BY <2>1 DEF ComesBy, Running
  <2> QED
    BY <1>8, <2>1, <2>2
<1>11. ASSUME UNCHANGED syncVars
       PROVE  Catches'
  <2>1. UNCHANGED <<thread, rows, syncs, due, masked, cut>>
    BY <1>11 DEF syncVars, historyVars
  <2> QED
    BY <1>0, <2>1 DEF Catches, Cares, Since, ComesBy, Running
<1>12. CASE DeskNext
  BY <1>3, <1>4, <1>5, <1>6, <1>7, <1>9, <1>10, <1>11, <1>12, <1>16, <1>17, DeskSteps
<1>13. CASE UNCHANGED deskVars
  BY <1>11, <1>13 DEF deskVars
<1> QED
  BY <1>12, <1>13

-----------------------------------------------------------------------------
(* The page                                                                *)

(* The newest rows of a list are all there are, or as many as it takes.    *)
LEMMA NewestTaken ==
    ASSUME NEW n \in Nat, NEW given, given = {i \in 1 .. n : i > n - TakeRows}, NEW i \in 1 .. n
    PROVE  i \in given \/ Cardinality(given) = TakeRows
<1>0. TakeRows \in Nat \ {0}
  BY DeskAssumption
<1> SUFFICES ASSUME i \notin given PROVE Cardinality(given) = TakeRows
  OBVIOUS
<1>1. n - TakeRows >= 1
  BY <1>0
<1>2. given = (n - TakeRows + 1) .. n
  BY <1>0, <1>1
<1>3. n - TakeRows + 1 \in Int /\ n \in Int /\ n - TakeRows + 1 <= n
  BY <1>0, <1>1
<1>4. Cardinality((n - TakeRows + 1) .. n) = n - (n - TakeRows + 1) + 1
  BY <1>3, FS_Interval
<1>5. n - (n - TakeRows + 1) + 1 = TakeRows
  BY <1>0
<1> QED
  BY <1>2, <1>4, <1>5, Zenon

LEMMA LatestIs ==
    ASSUME NEW n \in Nat, NEW some \in SUBSET (1 .. n)
    PROVE  IF some = {} THEN Latest(some) = 0 ELSE Latest(some) \in some
<1>1. CASE some = {}
  BY <1>1 DEF Latest
<1>2. CASE some # {}
  <2>1. some \in SUBSET (0 .. n)
    OBVIOUS
  <2>2. \E x \in some : \A y \in some : y <= x
    BY <1>2, <2>1, GreatestOne
  <2> QED
    BY <1>2, <2>2 DEF Latest
<1> QED
  BY <1>1, <1>2

LoadRow == [n : Nat, all : BOOLEAN, at : {"sent", "done"}, got : SUBSET Nat, ofSync : BOOLEAN]
Draft == [id : Nat, moved : BOOLEAN]
ViewTyped ==
  /\ started \in Nat /\ brought \in 0 .. Len(rows)
  /\ \A l \in fetches : l \in LoadRow /\ l.n <= started /\ l.got \subseteq 1 .. Len(rows)
  /\ replies \subseteq 1 .. Len(rows)
  /\ answered.n \in 0 .. started
  /\ drafting \in Draft

(* A list has what the synchronisation brought, or is full.                *)
Brings(got) == \A i \in 1 .. brought : i \in got \/ Cardinality(got) = TakeRows

(* The load started last, while it is under way and once it is answered,   *)
(* is of the scope the button shows, and brings what there was.            *)
OfScope ==
  /\ \A l \in fetches : l.n = started =>
       (l.ofSync \/ l.all = all) /\ (l.all /\ l.at = "done" => Brings(l.got))
  /\ answered.n = started =>
       (answered.ofSync \/ answered.all = all) /\ (answered.all => Brings(replies))

(* The selection is of the list, and so is the draft of the selection.     *)
OfSelected(d) == d # NoDraft => d.id = selected \/ d.moved
HeldInView ==
  /\ IF replies = {} THEN selected = 0 ELSE selected \in replies
  /\ OfSelected(drafting) /\ OfSelected(draft)
View == ViewTyped /\ OfScope /\ HeldInView

Quiet == UNCHANGED <<all, replies, selected, fetches, drafting, draft, answered, started, brought>>

LEMMA ViewSteps ==
    ASSUME DeskTyped, DeskNext
    PROVE  \/ Quiet
           \/ \E l \in fetches : GetReplies(l) \/ RepliesLoaded(l) \/ RepliesFail(l)
           \/ ToggleAll \/ SyncAnswered \/ GenerateDraft \/ DraftAnswered
           \/ \E i \in replies : Select(i)
<1>1. ASSUME UNCHANGED viewVars, UNCHANGED brought PROVE Quiet
  BY <1>1 DEF viewVars, Quiet
<1>2. ASSUME NEW t, \/ \E from \in FromCustomer : MailComes(t, from)
                    \/ \E what \in {"draft", "ours"} : UserWrites(t, what)
                    \/ UserDiscards(t)
                    \/ \E n : PostReply(t, n)
      PROVE  Quiet
  <2>1. UNCHANGED viewVars /\ UNCHANGED brought
    BY <1>2 DEF MailComes, UserWrites, UserDiscards, Changes, PostReply, historyVars
  <2> QED
    BY <1>1, <2>1
<1>3. CASE CronSyncs \/ GivenUp("cron") \/ GivenUp("post")
  BY <1>1, <1>3 DEF CronSyncs, BeginSync, GivenUp, historyVars
<1>4. ASSUME NEW s, ListThreads(s) \/ Ingest(s) \/ CreateReply(s) \/ ApplyClassification(s)
                    \/ SyncDone(s) \/ NotConnected(s) \/ SyncBreaks(s) \/ \E t \in Thread : ReadThread(s, t)
      PROVE  Quiet
  BY <1>1, <1>4 DEF ListThreads, Ingest, CreateReply, ApplyClassification, SyncDone, NotConnected, SyncBreaks,
                    ReadThread, historyVars
<1>5. CASE SyncNow \/ SyncRefused
  BY <1>5 DEF SyncNow, BeginSync, SyncRefused, historyVars, Quiet
<1> QED
  BY <1>2, <1>3, <1>4, <1>5, Zenon DEF DeskNext

LEMMA RowsGrow ==
    ASSUME DeskTyped, [DeskNext]_deskVars
    PROVE  Len(rows) \in Nat /\ Len(rows') \in Nat /\ Len(rows) <= Len(rows')
<1>1. Len(rows) \in Nat /\ Len(rows') \in Nat
  BY DeskTypedStep, LenProperties DEF DeskTyped, ThreadsTyped
<1>2. CASE rows' = rows
  BY <1>1, <1>2
<1>3. ASSUME NEW s \in Syncer, CreateReply(s) PROVE Len(rows) <= Len(rows')
  <2>1. rows' = rows \/ \E added \in NewRows(s) : rows' = Append(rows, added)
    BY <1>3, SyncCreateEffect
  <2>2. rows' = rows \/ Len(rows') = Len(rows) + 1
    BY <2>1, DeskRowAdded
  <2> QED
    BY <1>1, <2>2
<1>4. rows' = rows \/ \E s \in Syncer : CreateReply(s)
  <2>1. CASE UNCHANGED deskVars
    BY <2>1 DEF deskVars, syncVars
  <2>2. CASE DeskNext
    BY <2>2, DeskSteps, Zenon DEF MailChanges, Changes, PostReply, BeginSync, ListThreads, Ingest,
       ApplyClassification, SyncDone, NotConnected, SyncBreaks, ReadThread, GivenUp, SyncAnswered, SyncRefused, syncVars
  <2> QED
    BY <2>1, <2>2
<1> QED
  BY <1>1, <1>2, <1>3, <1>4

LEMMA SelectingHeld ==
    ASSUME ViewTyped, HeldInView, NEW id, Selecting(id),
           IF replies' = {} THEN id = 0 ELSE id \in replies'
    PROVE  HeldInView' /\ drafting' \in Draft
<1>1. selected' = id
  BY DEF Selecting
<1>2. CASE id = selected
  BY <1>1, <1>2 DEF Selecting, HeldInView, OfSelected, ViewTyped, NoDraft
<1>3. CASE id # selected
  <2>1. draft' = NoDraft /\ drafting' = [drafting EXCEPT !.moved = drafting # NoDraft]
    BY <1>3 DEF Selecting
  <2>2. drafting' \in Draft /\ OfSelected(drafting)'
    <3>1. CASE drafting = NoDraft
      BY <2>1, <3>1 DEF NoDraft, Draft, OfSelected
    <3>2. CASE drafting # NoDraft
      <4>1. drafting' = [drafting EXCEPT !.moved = TRUE]
        BY <2>1, <3>2
      <4> QED
        BY <4>1 DEF ViewTyped, Draft, OfSelected
    <3> QED
      BY <3>1, <3>2
  <2>3. OfSelected(draft)'
    BY <2>1 DEF OfSelected, NoDraft
  <2> QED
    BY <1>1, <2>2, <2>3 DEF HeldInView
<1> QED
  BY <1>2, <1>3

LEMMA ViewStep ==
    ASSUME DeskTyped, View, [DeskNext]_deskVars
    PROVE  View'
<1>0. /\ Len(rows) \in Nat /\ Len(rows') \in Nat /\ Len(rows) <= Len(rows')
      /\ started \in Nat /\ brought \in 0 .. Len(rows) /\ brought \in 0 .. Len(rows')
  BY RowsGrow DEF View, ViewTyped
<1>1. CASE Quiet
  <2>1. ViewTyped'
    BY <1>0, <1>1 DEF Quiet, View, ViewTyped
  <2>2. OfScope'
    BY <1>1 DEF Quiet, View, OfScope, Brings
  <2>3. HeldInView'
    BY <1>1 DEF Quiet, View, HeldInView, OfSelected, NoDraft
  <2> QED
    BY <2>1, <2>2, <2>3 DEF View
<1>2. ASSUME NEW l \in fetches, GetReplies(l)
      PROVE  View'
  <2>0. UNCHANGED <<rows, all, replies, selected, drafting, draft, answered, started, brought>>
    BY <1>2 DEF GetReplies, syncVars, historyVars
  <2>1. PICK unread \in {{}, Thread} :
          fetches' = (fetches \ {l}) \cup
            {[l EXCEPT !.at = "done",
                       !.got = {i \in 1 .. Len(rows) : i > Len(rows) - TakeRows /\
                                  (l.all \/ (rows[i].kind = "human" /\ (rows[i].thread \in unread \/ ~UserReplied(rows[i]))))}]}
    BY <1>2, Zenon DEF GetReplies
  <2> DEFINE given == {i \in 1 .. Len(rows) : i > Len(rows) - TakeRows /\
                         (l.all \/ (rows[i].kind = "human" /\ (rows[i].thread \in unread \/ ~UserReplied(rows[i]))))}
             new == [l EXCEPT !.at = "done", !.got = given]
  <2>2. given \subseteq 1 .. Len(rows) /\ given \subseteq Nat
    BY <1>0
  <2>3. l.all => given = {i \in 1 .. Len(rows) : i > Len(rows) - TakeRows}
    BY Zenon
  <2>4. l.all => Brings(given)
    <3> SUFFICES ASSUME l.all, NEW i \in 1 .. brought PROVE i \in given \/ Cardinality(given) = TakeRows
      BY Zenon DEF Brings
    <3>1. i \in 1 .. Len(rows)
      BY <1>0
    <3> HIDE DEF given
    <3> QED
      BY <1>0, <2>3, <3>1, NewestTaken
  <2>5. l \in LoadRow /\ l.n <= started
    BY DEF View, ViewTyped
  <2> HIDE DEF given
  <2>6. /\ new \in LoadRow /\ new.n = l.n /\ new.all = l.all /\ new.ofSync = l.ofSync /\ new.got = given
    BY <2>2, <2>5 DEF LoadRow
  <2>7. fetches' = (fetches \ {l}) \cup {new}
    BY <2>1 DEF given
  <2> HIDE DEF new
  <2>8. ViewTyped'
    BY <1>0, <2>0, <2>2, <2>5, <2>6, <2>7 DEF View, ViewTyped
  <2>9. OfScope'
    <3>1. ASSUME NEW k \in fetches', k.n = started
          PROVE  (k.ofSync \/ k.all = all) /\ (k.all /\ k.at = "done" => Brings(k.got))
      <4>1. CASE k \in fetches
        BY <3>1, <4>1 DEF View, OfScope
      <4>2. CASE k = new
        BY <2>4, <2>6, <3>1, <4>2 DEF View, OfScope
      <4> QED
        BY <2>7, <4>1, <4>2
    <3>2. ASSUME NEW got PROVE Brings(got)' <=> Brings(got)
      BY <2>0 DEF Brings
    <3> QED
      BY <2>0, <3>1, <3>2 DEF View, OfScope, Brings
  <2>10. HeldInView'
    BY <2>0 DEF View, HeldInView, OfSelected, NoDraft
  <2> QED
    BY <2>8, <2>9, <2>10 DEF View
<1>3. ASSUME NEW l \in fetches, RepliesLoaded(l)
      PROVE  View'
  <2>1. /\ l.at = "done" /\ fetches' = fetches \ {l} /\ replies' = l.got
        /\ answered' = [n |-> l.n, all |-> l.all, ofSync |-> l.ofSync, failed |-> FALSE]
        /\ Selecting(IF selected \in l.got THEN selected ELSE Latest(l.got))
        /\ UNCHANGED <<rows, all, started, brought>>
    BY <1>3 DEF RepliesLoaded, syncVars, historyVars
  <2>2. answered'.n = l.n /\ answered'.all = l.all /\ answered'.ofSync = l.ofSync
    BY <2>1
  <2>3. l \in LoadRow /\ l.n <= started /\ l.n \in Nat /\ l.got \subseteq 1 .. Len(rows)
    BY DEF View, ViewTyped, LoadRow
  <2>4. HeldInView' /\ drafting' \in Draft
    <3>1. IF l.got = {} THEN Latest(l.got) = 0 ELSE Latest(l.got) \in l.got
      BY <1>0, <2>3, LatestIs
    <3> DEFINE id == IF selected \in l.got THEN selected ELSE Latest(l.got)
    <3>2. IF replies' = {} THEN id = 0 ELSE id \in replies'
      BY <2>1, <3>1
    <3>3. Selecting(id)
      BY <2>1
    <3> HIDE DEF id
    <3> QED
      BY <3>2, <3>3, SelectingHeld DEF View
  <2>5. ViewTyped'
    BY <1>0, <2>1, <2>2, <2>3, <2>4 DEF View, ViewTyped
  <2>6. OfScope'
    <3>1. ASSUME NEW got PROVE Brings(got)' <=> Brings(got)
      BY <2>1 DEF Brings
    <3> QED
      BY <2>1, <2>2, <3>1 DEF View, OfScope, Brings
  <2> QED
    BY <2>4, <2>5, <2>6 DEF View
<1>4. ASSUME NEW l \in fetches, RepliesFail(l)
      PROVE  View'
  <2>1. /\ fetches' = fetches \ {l} /\ answered' = [answered EXCEPT !.failed = TRUE]
        /\ UNCHANGED <<rows, all, replies, selected, drafting, draft, started, brought>>
    BY <1>4 DEF RepliesFail, syncVars, historyVars
  <2>2. answered'.n = answered.n /\ answered'.all = answered.all /\ answered'.ofSync = answered.ofSync
    BY <2>1
  <2>3. ViewTyped'
    BY <1>0, <2>1, <2>2 DEF View, ViewTyped
  <2>4. OfScope'
    BY <2>1, <2>2 DEF View, OfScope, Brings
  <2>5. HeldInView'
    BY <2>1 DEF View, HeldInView, OfSelected, NoDraft
  <2> QED
    BY <2>3, <2>4, <2>5 DEF View
<1>5. ASSUME NEW scope \in BOOLEAN, NEW ofSync \in BOOLEAN, fetches' = fetches \cup {NewLoad(scope, ofSync)},
             started' = started + 1, ofSync \/ scope = all', brought' \in 0 .. Len(rows'),
             UNCHANGED <<replies, selected, drafting, draft, answered>>
      PROVE  View'
  <2> DEFINE new == NewLoad(scope, ofSync)
  <2>1. /\ new \in LoadRow /\ new.n = started + 1 /\ new.all = scope /\ new.at = "sent"
        /\ new.got = {} /\ new.ofSync = ofSync
    BY <1>0 DEF NewLoad, LoadRow
  <2>2. fetches' = fetches \cup {new}
    BY <1>5
  <2> HIDE DEF new
  <2>3. ViewTyped'
    <3>1. ASSUME NEW k \in fetches'
          PROVE  k \in LoadRow /\ k.n <= started' /\ k.got \subseteq 1 .. Len(rows')
      <4>1. CASE k = new
        BY <1>0, <1>5, <2>1, <4>1
      <4>2. CASE k \in fetches
        <5>1. k \in LoadRow /\ k.n <= started /\ k.n \in Nat /\ k.got \subseteq 1 .. Len(rows)
          BY <4>2 DEF View, ViewTyped, LoadRow
        <5> QED
          BY <1>0, <1>5, <5>1
      <4> QED
        BY <2>2, <4>1, <4>2
    <3>2. replies' \subseteq 1 .. Len(rows')
      BY <1>0, <1>5 DEF View, ViewTyped
    <3>3. started' \in Nat /\ answered'.n \in 0 .. started' /\ drafting' \in Draft
      BY <1>0, <1>5 DEF View, ViewTyped
    <3> QED
      BY <1>5, <3>1, <3>2, <3>3 DEF ViewTyped
  <2>4. \A k \in fetches : k.n # started'
    BY <1>0, <1>5 DEF View, ViewTyped, LoadRow
  <2>5. answered'.n # started'
    BY <1>0, <1>5 DEF View, ViewTyped
  <2>6. OfScope'
    BY <1>5, <2>1, <2>2, <2>4, <2>5 DEF OfScope
  <2>7. HeldInView'
    BY <1>5 DEF View, HeldInView, OfSelected, NoDraft
  <2> QED
    BY <2>3, <2>6, <2>7 DEF View
<1>6. CASE ToggleAll
  <2>1. /\ all' = ~all /\ fetches' = fetches \cup {NewLoad(~all, FALSE)} /\ started' = started + 1
        /\ brought' = brought /\ UNCHANGED <<replies, selected, drafting, draft, answered>>
    BY <1>6, Zenon DEF ToggleAll, syncVars, historyVars
  <2>2. PICK scope \in BOOLEAN : scope = ~all
    BY Zenon
  <2>3. fetches' = fetches \cup {NewLoad(scope, FALSE)} /\ (FALSE \/ scope = all')
    BY <2>1, <2>2, Zenon
  <2> QED
    BY <1>0, <1>5, <2>1, <2>3
<1>7. CASE SyncAnswered
  <2>1. /\ fetches' = fetches \cup {NewLoad(syncs["page"].all, TRUE)} /\ started' = started + 1
        /\ brought' = Len(rows) /\ UNCHANGED <<replies, selected, drafting, draft, answered>>
    BY <1>7 DEF SyncAnswered
  <2>2. syncs["page"].all \in BOOLEAN
    BY DEF DeskTyped, SyncsTyped, Syncer, SyncRow
  <2>3. brought' \in 0 .. Len(rows')
    BY <1>0, <2>1
  <2> QED
    BY <1>5, <2>1, <2>2, <2>3
<1>8. ASSUME NEW i \in replies, Select(i)
      PROVE  View'
  <2>1. Selecting(i) /\ UNCHANGED <<all, replies, fetches, answered, started, brought>>
    BY <1>8 DEF Select, syncVars, historyVars
  <2>2. HeldInView' /\ drafting' \in Draft
    BY <2>1, SelectingHeld DEF View
  <2>3. ViewTyped'
    BY <1>0, <2>1, <2>2 DEF View, ViewTyped
  <2>4. OfScope'
    BY <2>1 DEF View, OfScope, Brings
  <2> QED
    BY <2>2, <2>3, <2>4 DEF View
<1>9. CASE GenerateDraft
  <2>1. /\ selected # 0 /\ drafting' = [id |-> selected, moved |-> FALSE]
        /\ UNCHANGED <<all, replies, selected, fetches, draft, answered, started, brought>>
    BY <1>9 DEF GenerateDraft, syncVars, historyVars
  <2>2. selected \in Nat
    <3>1. selected \in replies
      BY <2>1, Zenon DEF View, HeldInView
    <3>2. replies \subseteq 1 .. Len(rows)
      BY Zenon DEF View, ViewTyped
    <3> QED
      BY <1>0, <3>1, <3>2
  <2>3. drafting' \in Draft /\ drafting'.id = selected
    BY <2>1, <2>2 DEF Draft
  <2>4. ViewTyped'
    BY <1>0, <2>1, <2>3 DEF View, ViewTyped
  <2>5. OfScope'
    BY <2>1 DEF View, OfScope, Brings
  <2>6. HeldInView'
    BY <2>1, <2>3 DEF View, HeldInView, OfSelected, NoDraft
  <2> QED
    BY <2>4, <2>5, <2>6 DEF View
<1>10. CASE DraftAnswered
  <2>1. /\ drafting' = NoDraft /\ draft' \in {draft, drafting}
        /\ UNCHANGED <<all, replies, selected, fetches, answered, started, brought>>
    BY <1>10 DEF DraftAnswered, syncVars, historyVars
  <2>2. NoDraft \in Draft
    BY DEF NoDraft, Draft
  <2>3. ViewTyped'
    BY <1>0, <2>1, <2>2 DEF View, ViewTyped
  <2>4. OfScope'
    BY <2>1 DEF View, OfScope, Brings
  <2>5. HeldInView'
    BY <2>1 DEF View, HeldInView, OfSelected, NoDraft
  <2> QED
    BY <2>3, <2>4, <2>5 DEF View
<1>11. CASE DeskNext
  BY <1>1, <1>2, <1>3, <1>4, <1>6, <1>7, <1>8, <1>9, <1>10, <1>11, ViewSteps
<1>12. CASE UNCHANGED deskVars
  BY <1>1, <1>12 DEF deskVars, syncVars, viewVars, historyVars, Quiet
<1> QED
  BY <1>11, <1>12

LEMMA ViewInit == DeskInit => View
<1> SUFFICES ASSUME DeskInit PROVE View
  OBVIOUS
<1>1. Len(rows) \in Nat
  BY DeskTypedInit, LenProperties DEF DeskTyped, ThreadsTyped
<1> DEFINE new == [n |-> 1, all |-> FALSE, at |-> "sent", got |-> {}, ofSync |-> FALSE]
           none == [n |-> 0, all |-> FALSE, ofSync |-> FALSE, failed |-> FALSE]
<1>2. /\ fetches = {new} /\ answered = none /\ started = 1 /\ brought = 0 /\ replies = {}
      /\ selected = 0 /\ drafting = NoDraft /\ draft = NoDraft /\ all = FALSE
  BY DEF DeskInit
<1>3. /\ new \in LoadRow /\ new.n = 1 /\ new.all = FALSE /\ new.at = "sent" /\ new.got = {}
      /\ none.n = 0 /\ NoDraft \in Draft
  BY DEF LoadRow, NoDraft, Draft
<1> HIDE DEF new, none
<1>4. ViewTyped
  BY <1>1, <1>2, <1>3 DEF ViewTyped
<1>5. OfScope
  <2>0. new.all = all
    BY <1>2, <1>3, Zenon
  <2>1. new.at # "done" /\ answered.n # started
    BY <1>2, <1>3
  <2>2. \A l \in fetches : l = new
    BY <1>2
  <2> QED
    BY <2>0, <2>1, <2>2, Zenon DEF OfScope
<1>6. HeldInView
  BY <1>2, Zenon DEF HeldInView, OfSelected
<1> QED
  BY <1>4, <1>5, <1>6 DEF View

-----------------------------------------------------------------------------
(* The theorems                                                            *)

DeskInv == DeskTyped /\ Applies /\ SyncAlone /\ CaughtUp /\ View

LEMMA DeskInvariant == DeskSpec => []DeskInv
<1>1. DeskInit => DeskInv
  <2> SUFFICES ASSUME DeskInit PROVE DeskInv
    OBVIOUS
  <2>1. DeskTyped /\ View
    BY DeskTypedInit, ViewInit
  <2>2. \A s \in Syncer : syncs[s].at = "rest" /\ ~Running(s)
    BY DEF DeskInit, Syncer, Resting, Running
  <2>3. Applies
    <3>1. PICK order \in [1 .. Cardinality(Mailed) -> Mailed] :
            rows = [i \in DOMAIN order |-> [thread |-> order[i], mail |-> 1, kind |-> "human", at |-> 1]]
      BY DEF DeskInit
    <3>2. Cardinality(Mailed) \in Nat
      BY FS_CardinalityType, DeskAssumption
    <3>3. Len(rows) = Cardinality(Mailed)
      BY <3>1, <3>2, IsASeq, LenProperties
    <3>4. ASSUME NEW i \in 1 .. Len(rows) PROVE Id(rows[i]) \in applied
      BY <3>1, <3>3 DEF DeskInit, Id
    <3> QED
      BY <3>4 DEF Applies
  <2>4. SyncAlone
    BY <2>2 DEF SyncAlone, Solo
  <2>5. CaughtUp
    <3>1. Cares
      BY DeskAssumption DEF DeskInit, Cares
    <3> QED
      BY <3>1 DEF CaughtUp, Catches
  <2> QED
    BY <2>1, <2>3, <2>4, <2>5 DEF DeskInv
<1>2. DeskInv /\ [DeskNext]_deskVars => DeskInv'
  BY DeskTypedStep, AppliesStep, AloneStep, CaughtUpStep, ViewStep, Zenon DEF DeskInv
<1> QED
  BY <1>1, <1>2, PTL DEF DeskSpec

(* The replies page and the rows settle to what the mailbox, the scope and *)
(* the selection say (the routes and the page of replies, and the service  *)
(* that stores and applies them), also where the user writes in Gmail or   *)
(* replies are posted: with any number of threads, mails, rows and faults. *)
THEOREM RepliesAlwaysSettle == DeskSpec => []RepliesSettle
<1>1. DeskInv => RepliesSettle
  <2> SUFFICES ASSUME DeskInv PROVE RepliesSettle
    OBVIOUS
  <2>1. ListIsOfScope
    BY DEF DeskInv, View, OfScope, Brings, ListIsOfScope
  <2>2. DraftIsOfSelected
    BY DEF DeskInv, View, HeldInView, OfSelected, DraftIsOfSelected
  <2>3. SyncedIsApplied
    <3> SUFFICES ASSUME \A s \in Syncer : ~Running(s) 
                 PROVE  /\ ~doubled /\ ~cut => Cares
                        /\ \A i \in 1 .. Len(rows) : Id(rows[i]) \in applied \cup unapplied
      <4>1. DOMAIN syncs = Syncer
        BY DEF DeskInv, DeskTyped, SyncsTyped
      <4>2. ASSUME Cares, \A s \in Syncer : ~Running(s), NEW t \in Known \ masked, due[t] > 0
            PROVE  \E i \in 1 .. Len(rows) :
                     /\ rows[i].thread = t /\ rows[i].mail >= due[t]
                     /\ thread[t][rows[i].mail] \in FromCustomer
        <5>1. \A s \in Mailbox : ~ComesBy(s, t)
          BY <4>2, MailboxSyncs DEF ComesBy, Running
        <5> QED
          BY <4>2, <5>1 DEF Cares, Since
      <4> QED
        BY <4>1, <4>2, Zenon DEF SyncedIsApplied
    <3>1. \A s \in Syncer : syncs[s].at \in {"rest", "done", "failed"}
      BY DEF Running
    <3>2. ~doubled /\ ~cut => Cares
      <4>1. ~doubled /\ ~cut => Catches
        BY Zenon DEF DeskInv, CaughtUp
      <4>2. Catches => Cares
        BY <3>1, MailboxSyncs DEF Catches
      <4> QED
        BY <4>1, <4>2, Zenon
    <3>3. \A i \in 1 .. Len(rows) : Id(rows[i]) \in applied \cup unapplied
      BY <3>1 DEF DeskInv, Applies, Applying
    <3> QED
      BY <3>2, <3>3, Zenon
  <2> QED
    BY <2>1, <2>2, <2>3 DEF RepliesSettle
<1> QED
  BY <1>1, DeskInvariant, PTL

(* The bounds hold and the flags are flags.                                *)
DeskCounts ==
  /\ hidden \in BOOLEAN /\ syncing \in BOOLEAN
  /\ mails \in 0 .. MaxMails /\ deskActs \in 0 .. MaxDeskActs /\ deskFaults \in 0 .. MaxDeskFaults

(* What a step may do to the counters and the flags.                       *)
MailCounted == UNCHANGED mails \/ (mails < MaxMails /\ mails' = mails + 1)
ActCounted == UNCHANGED deskActs \/ (deskActs < MaxDeskActs /\ deskActs' = deskActs + 1)
FaultCounted == UNCHANGED deskFaults \/ (deskFaults < MaxDeskFaults /\ deskFaults' = deskFaults + 1)
HiddenFlag == UNCHANGED hidden \/ hidden' = TRUE \/ hidden' = FALSE
SyncingFlag == UNCHANGED syncing \/ syncing' = TRUE \/ syncing' = FALSE \/ \E l : syncing' = (syncing /\ ~l.ofSync)
Counted == MailCounted /\ ActCounted /\ FaultCounted /\ HiddenFlag /\ SyncingFlag

LEMMA DeskCounted ==
    ASSUME DeskNext
    PROVE  Counted
<1>1. (UNCHANGED viewVars => HiddenFlag /\ SyncingFlag) /\ (UNCHANGED syncVars => MailCounted)
  BY DEF viewVars, syncVars, HiddenFlag, SyncingFlag, MailCounted
<1>2. (DeskAct \/ DeskFault \/ NoDeskFault) => ActCounted /\ FaultCounted
  BY DEF DeskAct, DeskFault, NoDeskFault, ActCounted, FaultCounted
<1>3. ASSUME NEW t, \/ \E from \in FromCustomer : MailComes(t, from)
                    \/ \E what \in {"draft", "ours"} : UserWrites(t, what)
                    \/ UserDiscards(t)
      PROVE  Counted
  <2>1. \E m : Changes(t, m)
    BY <1>3, Zenon DEF MailComes, UserWrites, UserDiscards
  <2> QED
    BY <1>1, <1>2, <2>1, Zenon DEF Changes, MailCounted, Counted
<1>4. CASE CronSyncs \/ GivenUp("cron") \/ GivenUp("post")
  BY <1>1, <1>2, <1>4, Zenon DEF CronSyncs, BeginSync, GivenUp, MailCounted, Counted
<1>11. ASSUME NEW t, NEW n, PostReply(t, n)
       PROVE  Counted
  BY <1>1, <1>2, <1>11, Zenon DEF PostReply, MailCounted, Counted
<1>5. ASSUME NEW s, ListThreads(s) \/ Ingest(s) \/ ApplyClassification(s)
      PROVE  Counted
  BY <1>1, <1>2, <1>5, Zenon DEF ListThreads, Ingest, ApplyClassification, MailCounted, Counted
<1>6. ASSUME NEW s, SyncDone(s) \/ NotConnected(s) \/ SyncBreaks(s)
      PROVE  Counted
  BY <1>1, <1>2, <1>6, Zenon DEF SyncDone, NotConnected, SyncBreaks, MailCounted, Counted
<1>7. ASSUME NEW s, CreateReply(s) \/ \E t \in Thread : ReadThread(s, t)
      PROVE  Counted
  <2>1. UNCHANGED mails /\ UNCHANGED viewVars /\ NoDeskFault
    BY <1>7, Zenon DEF CreateReply, ReadThread
  <2> QED
    BY <1>1, <1>2, <2>1, Zenon DEF MailCounted, Counted
<1>8. ASSUME NEW l, GetReplies(l) \/ RepliesLoaded(l) \/ RepliesFail(l)
      PROVE  Counted
  <2>1. UNCHANGED syncVars /\ (DeskFault \/ NoDeskFault)
    BY <1>8, Zenon DEF GetReplies, RepliesLoaded, RepliesFail
  <2>2. HiddenFlag /\ SyncingFlag
    BY <1>8, Zenon DEF GetReplies, RepliesLoaded, RepliesFail, HiddenFlag, SyncingFlag
  <2> QED
    BY <1>1, <1>2, <2>1, <2>2, Zenon DEF Counted
<1>9. CASE SyncNow \/ SyncAnswered \/ SyncRefused
  <2>1. UNCHANGED mails /\ (DeskAct \/ NoDeskFault)
    BY <1>9, Zenon DEF SyncNow, BeginSync, SyncAnswered, SyncRefused
  <2>2. HiddenFlag /\ SyncingFlag
    BY <1>9, Zenon DEF SyncNow, SyncAnswered, SyncRefused, HiddenFlag, SyncingFlag
  <2> QED
    BY <1>2, <2>1, <2>2, Zenon DEF MailCounted, Counted
<1>10. CASE ToggleAll \/ GenerateDraft \/ DraftAnswered \/ \E i \in replies : Select(i)
  <2>1. UNCHANGED syncVars /\ (DeskAct \/ DeskFault \/ NoDeskFault)
    BY <1>10, Zenon DEF ToggleAll, GenerateDraft, DraftAnswered, Select
  <2>2. HiddenFlag /\ SyncingFlag
    BY <1>10, Zenon DEF ToggleAll, GenerateDraft, DraftAnswered, Select, HiddenFlag, SyncingFlag
  <2> QED
    BY <1>1, <1>2, <2>1, <2>2, Zenon DEF Counted
<1> QED
  BY <1>3, <1>4, <1>5, <1>6, <1>7, <1>8, <1>9, <1>10, <1>11, Zenon DEF DeskNext

LEMMA DeskCountsStep ==
    ASSUME DeskCounts, [DeskNext]_deskVars
    PROVE  DeskCounts'
<1>1. Counted
  <2>1. CASE UNCHANGED deskVars
    BY <2>1, Zenon DEF deskVars, syncVars, viewVars, Counted, MailCounted, ActCounted, FaultCounted, HiddenFlag,
       SyncingFlag
  <2> QED
    BY <2>1, DeskCounted
<1>2. hidden' \in BOOLEAN /\ syncing' \in BOOLEAN
  BY <1>1, Zenon DEF DeskCounts, Counted, HiddenFlag, SyncingFlag
<1>3. MailCounted /\ ActCounted /\ FaultCounted
  BY <1>1, Zenon DEF Counted
<1> QED
  BY <1>2, <1>3, DeskAssumption DEF DeskCounts, MailCounted, ActCounted, FaultCounted

(* Types of the threads, the rows, the synchronisations and the page.      *)
THEOREM DeskTypesCorrect == DeskSpec => []DeskTypeOK
<1>1. DeskInit => DeskCounts
  <2> SUFFICES ASSUME DeskInit PROVE DeskCounts
    OBVIOUS
  <2>1. hidden \in BOOLEAN /\ syncing \in BOOLEAN
    BY Zenon DEF DeskInit
  <2>2. mails = 0 /\ deskActs = 0 /\ deskFaults = 0
    BY Zenon DEF DeskInit
  <2> QED
    BY <2>1, <2>2, DeskAssumption DEF DeskCounts
<1>2. DeskCounts /\ [DeskNext]_deskVars => DeskCounts'
  BY DeskCountsStep
<1>3. DeskInv /\ DeskCounts => DeskTypeOK
  <2> SUFFICES ASSUME DeskInv, DeskCounts PROVE DeskTypeOK
    OBVIOUS
  <2>1. ASSUME NEW t \in Thread, NEW n \in 1 .. Len(thread[t])
        PROVE  thread[t][n] \in FromCustomer \cup {"ours", "draft", "gone"}
    <3>1. thread[t] \in Seq(Mail)
      BY DEF DeskInv, DeskTyped, Threads
    <3> QED
      BY <3>1, ElementOfSeq DEF Mail
  <2>2. ASSUME NEW i \in 1 .. Len(rows)
        PROVE  rows[i].thread \in Known /\ rows[i].at \in rows[i].mail .. Len(thread[rows[i].thread])
    <3>1. rows[i] \in ReplyRow
      BY ElementOfSeq DEF DeskInv, DeskTyped, ThreadsTyped
    <3> QED
      BY <3>1 DEF DeskInv, DeskTyped, ThreadsTyped, ReplyRow
  <2>3. \A s \in DOMAIN syncs : syncs[s].todo \subseteq Thread
    BY DEF DeskInv, DeskTyped, SyncsTyped, SyncRow
  <2>4. all \in BOOLEAN /\ answered.n \in 0 .. started
    BY DEF DeskInv, DeskTyped, View, ViewTyped
  <2> QED
    BY <2>1, <2>2, <2>3, <2>4 DEF DeskCounts, DeskTypeOK
<1> QED
  BY <1>1, <1>2, <1>3, DeskInvariant, PTL DEF DeskSpec
-----------------------------------------------------------------------------
(***************************************************************************)
(* The page of a campaign                                                  *)
(***************************************************************************)
(* A text can be none, ""; the provers do not know that this is a string. *)
Texts == STRING \cup {""}
CampRows == [status : {"draft", "active", "paused", "deleted"}, leads : SUBSET Prospect, texts : Seq(Texts)]
ShownRows == CampRows \cup {NotLoaded}
LoadReq == [what : {"load"}, done : BOOLEAN, ok : BOOLEAN, read : ShownRows]
JobReq == [what : {"job"}, done : BOOLEAN, ok : {TRUE}, job : Nat, read : {"", "open", "ended"}]
SaveReq == [what : {"save"}, done : BOOLEAN, ok : {TRUE}, id : Nat, text : Texts, from : {"box", "preview"}]
DropReq == [what : {"delstep"}, done : BOOLEAN, ok : {TRUE}, id : Nat]
StepReq == [what : {"newstep"}, done : BOOLEAN, ok : BOOLEAN, x : {Added}, job : Nat]
StatusReq == [what : {"status"}, done : BOOLEAN, ok : BOOLEAN, x : {"active", "paused"}, job : Nat]
RemoveReq == [what : {"remove"}, done : BOOLEAN, ok : BOOLEAN, x : Prospect, job : Nat]
DeleteReq == [what : {"delete"}, done : BOOLEAN, ok : BOOLEAN, x : {""}, job : Nat]
AddReq == [what : {"add"}, done : BOOLEAN, ok : {TRUE}, leads : SUBSET Prospect, todo : SUBSET Prospect,
           failed : SUBSET Prospect]
ChangeReq == SaveReq \cup DropReq \cup StepReq \cup StatusReq \cup RemoveReq \cup DeleteReq
PageReq == LoadReq \cup JobReq \cup ChangeReq \cup AddReq

(* What a request names is there: an answer knows no more templates than   *)
(* there are, and no job that was not started.                             *)
KnownReq ==
  {r \in PageReq :
     /\ r \in LoadReq => Len(r.read.texts) <= Len(row.texts)
     /\ r \in JobReq => /\ r.job \in 1 .. Len(draftings) /\ (r.read = "ended" => draftings[r.job] = "ended")
                        /\ (r.done => r.read # "") /\ cardJob # 0
     /\ r \in StatusReq => r.job \in 0 .. Len(draftings)
     /\ r \in ChangeReq /\ ~r.done => r.ok
     /\ r \in SaveReq => r.text # ""
     /\ r \in AddReq => /\ r.todo \cup r.failed \subseteq r.leads /\ r.todo \cap r.failed = {}
                        /\ (r.done => r.todo = {})}
NewSteps(s) == {n \in 1 .. Len(s) : s[n] \in StepReq /\ ~s[n].done}

CampRowTypes ==
  /\ row \in CampRows /\ opened \in ShownRows /\ Len(opened.texts) <= Len(row.texts)
JobTypes ==
  /\ draftings \in Seq({"open", "ended"})
  /\ cardJob \in 0 .. Len(draftings) /\ card \in [shown : {"", "open", "ended"}, polling : BOOLEAN]
BoxTypes ==
  /\ typed \in [AllIds -> Texts] /\ previews \in [AllIds -> Texts]
  /\ unsaved \subseteq Ids \cap AllIds
  /\ \A i \in AllIds : (typed[i] # "" => i \in Ids) /\ (i \in unsaved => typed[i] # "")
DialogTypes ==
  /\ dialog \in {"none", "activate", "leads"} /\ chosen \subseteq Prospect /\ adding \in BOOLEAN
  /\ gone \in BOOLEAN /\ gap \in BOOLEAN /\ strayed \in BOOLEAN
  /\ pageActs \in 0 .. MaxPageActs /\ pageFaults \in 0 .. MaxPageFaults
StepsBounded == Len(row.texts) + Cardinality(NewSteps(asked)) <= MaxSteps + pageActs
PageTypes == CampRowTypes /\ JobTypes /\ BoxTypes /\ DialogTypes /\ asked \in Seq(KnownReq) /\ StepsBounded

LEMMA ReqKinds ==
    ASSUME NEW r \in PageReq
    PROVE  /\ r.what = "load" <=> r \in LoadReq
           /\ r.what = "job" <=> r \in JobReq
           /\ r.what = "save" <=> r \in SaveReq
           /\ r.what = "delstep" <=> r \in DropReq
           /\ r.what = "newstep" <=> r \in StepReq
           /\ r.what = "status" <=> r \in StatusReq
           /\ r.what = "remove" <=> r \in RemoveReq
           /\ r.what = "delete" <=> r \in DeleteReq
           /\ r.what = "add" <=> r \in AddReq
           /\ r.what \in {"load", "job", "save", "delstep", "newstep", "status", "remove", "delete", "add"}
           /\ r.done \in BOOLEAN /\ r.ok \in BOOLEAN
           /\ r \in ChangeReq <=> r.what \in {"save", "delstep", "newstep", "status", "remove", "delete"}
<1> USE DEF LoadReq, JobReq, SaveReq, DropReq, StepReq, StatusReq, RemoveReq, DeleteReq, AddReq
<1>1. CASE r \in LoadReq
  BY <1>1 DEF ChangeReq
<1>2. CASE r \in JobReq
  BY <1>2 DEF ChangeReq
<1>3. CASE r \in SaveReq
  BY <1>3 DEF ChangeReq
<1>4. CASE r \in DropReq
  BY <1>4 DEF ChangeReq
<1>5. CASE r \in StepReq
  BY <1>5 DEF ChangeReq
<1>6. CASE r \in StatusReq
  BY <1>6 DEF ChangeReq
<1>7. CASE r \in RemoveReq
  BY <1>7 DEF ChangeReq
<1>8. CASE r \in DeleteReq
  BY <1>8 DEF ChangeReq
<1>9. CASE r \in AddReq
  BY <1>9 DEF ChangeReq
<1> HIDE DEF LoadReq, JobReq, SaveReq, DropReq, StepReq, StatusReq, RemoveReq, DeleteReq, AddReq
<1> QED
  BY <1>1, <1>2, <1>3, <1>4, <1>5, <1>6, <1>7, <1>8, <1>9 DEF PageReq, ChangeReq

(* The requests that the page sends.                                       *)
LEMMA LoadMade == Load \in LoadReq /\ ~Load.done /\ Len(Load.read.texts) = 0
BY DEF Load, LoadReq, ShownRows, NotLoaded

LEMMA AskMade ==
    ASSUME NEW j \in Nat
    PROVE  AskJob(j) \in JobReq /\ ~AskJob(j).done /\ AskJob(j).job = j /\ AskJob(j).read = ""
BY DEF AskJob, JobReq

LEMMA PutMade ==
    ASSUME NEW i \in Nat, NEW text \in Texts, NEW from \in {"box", "preview"}
    PROVE  LET r == Put(i, text, from) IN
           r \in SaveReq /\ ~r.done /\ r.ok /\ r.id = i /\ r.text = text /\ r.from = from /\ r.what = "save"
BY DEF Put, SaveReq

LEMMA DropMade ==
    ASSUME NEW i \in Nat
    PROVE  DeleteStep(i) \in DropReq /\ ~DeleteStep(i).done /\ DeleteStep(i).ok /\ DeleteStep(i).what = "delstep"
BY DEF DeleteStep, DropReq

LEMMA AboutMade ==
    ASSUME NEW what, NEW x
    PROVE  LET r == RequestOf(what, x) IN
           /\ ~r.done /\ r.ok /\ r.job = 0 /\ r.what = what
           /\ what = "status" /\ x \in {"active", "paused"} => r \in StatusReq
           /\ what = "delete" /\ x = "" => r \in DeleteReq
           /\ what = "remove" /\ x \in Prospect => r \in RemoveReq
           /\ what = "newstep" /\ x = Added => r \in StepReq
BY DEF RequestOf, StatusReq, DeleteReq, RemoveReq, StepReq

LEMMA AddMade ==
    ASSUME NEW leads \in SUBSET Prospect
    PROVE  LET r == AddLeads(leads) IN
           r \in AddReq /\ ~r.done /\ r.todo = leads /\ r.leads = leads /\ r.failed = {}
BY DEF AddLeads, AddReq

(* What each kind of request must be known of.                             *)
LEMMA KnownKinds ==
    ASSUME NEW r
    PROVE  /\ r \in LoadReq /\ Len(r.read.texts) <= Len(row.texts) => r \in KnownReq
           /\ /\ r \in JobReq /\ r.job \in 1 .. Len(draftings) /\ (r.read = "ended" => draftings[r.job] = "ended")
              /\ (r.done => r.read # "") /\ cardJob # 0
              => r \in KnownReq
           /\ /\ r \in ChangeReq /\ (~r.done => r.ok) /\ (r \in StatusReq => r.job \in 0 .. Len(draftings))
              /\ (r \in SaveReq => r.text # "")
              => r \in KnownReq
           /\ /\ r \in AddReq /\ r.todo \cup r.failed \subseteq r.leads /\ r.todo \cap r.failed = {} /\ (r.done => r.todo = {})
              => r \in KnownReq
<1>1. CASE r \in LoadReq
  <2>1. r \in PageReq /\ r.what = "load"
    BY <1>1 DEF PageReq, LoadReq
  <2>2. r \notin JobReq /\ r \notin StatusReq /\ r \notin ChangeReq /\ r \notin SaveReq /\ r \notin AddReq
    BY <2>1, ReqKinds
  <2> QED
    BY <1>1, <2>1, <2>2 DEF KnownReq
<1>2. CASE r \in JobReq
  <2>1. r \in PageReq /\ r.what = "job"
    BY <1>2 DEF PageReq, JobReq
  <2>2. r \notin LoadReq /\ r \notin StatusReq /\ r \notin ChangeReq /\ r \notin SaveReq /\ r \notin AddReq
    BY <2>1, ReqKinds
  <2> QED
    BY <1>2, <2>1, <2>2 DEF KnownReq
<1>3. CASE r \in ChangeReq
  <2>1. r \in PageReq
    BY <1>3 DEF PageReq
  <2>2. r \notin LoadReq /\ r \notin JobReq /\ r \notin AddReq
    BY <1>3, <2>1, ReqKinds
  <2> QED
    BY <1>3, <2>1, <2>2 DEF KnownReq
<1>4. CASE r \in AddReq
  <2>1. r \in PageReq /\ r.what = "add"
    BY <1>4 DEF PageReq, AddReq
  <2>2. r \notin LoadReq /\ r \notin StatusReq /\ r \notin ChangeReq /\ r \notin SaveReq /\ r \notin JobReq
    BY <2>1, ReqKinds
  <2> QED
    BY <1>4, <2>1, <2>2 DEF KnownReq
<1> QED
  BY <1>1, <1>2, <1>3, <1>4

LEMMA ChangeKinds ==
    ASSUME NEW r \in ChangeReq
    PROVE  /\ r \in SaveReq <=> r.what = "save"
           /\ r \in StatusReq <=> r.what = "status"
           /\ r \in StepReq <=> r.what = "newstep"
           /\ r \notin LoadReq /\ r \notin JobReq /\ r \notin AddReq /\ r.what \notin {"load", "job", "add"}
BY ReqKinds DEF PageReq

LEMMA KnownMade ==
    ASSUME PageTypes
    PROVE  /\ Load \in KnownReq
           /\ \A j \in 1 .. Len(draftings) : cardJob # 0 => AskJob(j) \in KnownReq
           /\ \A i \in Nat : \A text \in Texts \ {""} : \A from \in {"box", "preview"} : Put(i, text, from) \in KnownReq
           /\ \A i \in Nat : DeleteStep(i) \in KnownReq
           /\ \A x \in {"active", "paused"} : RequestOf("status", x) \in KnownReq
           /\ RequestOf("delete", "") \in KnownReq
           /\ \A l \in Prospect : RequestOf("remove", l) \in KnownReq
           /\ RequestOf("newstep", Added) \in KnownReq
           /\ \A leads \in SUBSET Prospect : AddLeads(leads) \in KnownReq
<1>0. Len(draftings) \in Nat
  <2>1. draftings \in Seq({"open", "ended"})
    BY DEF PageTypes, JobTypes
  <2> QED
    BY <2>1, LenProperties
<1>1. Len(row.texts) \in Nat
  BY DEF PageTypes, CampRowTypes, CampRows
<1>2. Load \in KnownReq
  <2>1. Len(Load.read.texts) <= Len(row.texts)
    BY <1>1, LoadMade
  <2> QED
    BY <2>1, LoadMade, KnownKinds
<1>3. ASSUME NEW j \in 1 .. Len(draftings), cardJob # 0 PROVE AskJob(j) \in KnownReq
  <2>1. j \in Nat
    BY <1>0
  <2>2. AskJob(j) \in JobReq /\ ~AskJob(j).done /\ AskJob(j).job = j /\ AskJob(j).read = ""
    BY <2>1, AskMade
  <2> QED
    BY <1>3, <2>2, KnownKinds
<1>4. ASSUME NEW i \in Nat, NEW text \in Texts \ {""}, NEW from \in {"box", "preview"} PROVE Put(i, text, from) \in KnownReq
  <2> DEFINE r == Put(i, text, from)
  <2>0. text \in Texts /\ text # ""
    OBVIOUS
  <2>1. r \in SaveReq /\ r.ok /\ r.text = text /\ r.what = "save"
    BY <2>0 DEF Put, SaveReq
  <2> HIDE DEF r
  <2>2. r \in ChangeReq
    BY <2>1 DEF ChangeReq
  <2>3. r \notin StatusReq
    BY <2>1, <2>2, ChangeKinds
  <2>4. r \in KnownReq
    BY <2>0, <2>1, <2>2, <2>3, KnownKinds
  <2> QED
    BY <2>4 DEF r
<1>5. ASSUME NEW i \in Nat PROVE DeleteStep(i) \in KnownReq
  <2> DEFINE r == DeleteStep(i)
  <2>1. r \in DropReq /\ r.ok /\ r.what = "delstep"
    BY DropMade
  <2> HIDE DEF r
  <2>2. r \in ChangeReq
    BY <2>1 DEF ChangeReq
  <2>3. r \notin StatusReq /\ r \notin SaveReq
    BY <2>1, <2>2, ChangeKinds
  <2>4. r \in KnownReq
    BY <2>1, <2>2, <2>3, KnownKinds
  <2> QED
    BY <2>4 DEF r
<1>6. ASSUME NEW r, r \in DeleteReq \/ r \in RemoveReq \/ r \in StepReq \/ r \in StatusReq, r.ok, r.job = 0 PROVE r \in KnownReq
  <2>1. r \in ChangeReq
    BY <1>6 DEF ChangeReq
  <2>2. r.what # "save"
    BY <1>6 DEF DeleteReq, RemoveReq, StepReq, StatusReq
  <2>3. r \notin SaveReq
    BY <2>1, <2>2, ChangeKinds
  <2>4. r \in StatusReq => r.job \in 0 .. Len(draftings)
    BY <1>0, <1>6
  <2> QED
    BY <1>6, <2>1, <2>3, <2>4, KnownKinds
<1>7. ASSUME NEW leads \in SUBSET Prospect PROVE AddLeads(leads) \in KnownReq
  <2> DEFINE r == AddLeads(leads)
  <2>1. r \in AddReq /\ ~r.done /\ r.todo = leads /\ r.leads = leads /\ r.failed = {}
    BY AddMade
  <2> HIDE DEF r
  <2>2. r \in KnownReq
    BY <2>1, KnownKinds
  <2> QED
    BY <2>2 DEF r
<1>8. /\ \A x \in {"active", "paused"} : RequestOf("status", x) \in KnownReq
      /\ \A l \in Prospect : RequestOf("remove", l) \in KnownReq
  BY <1>6, AboutMade
<1>9. RequestOf("delete", "") \in KnownReq /\ RequestOf("newstep", Added) \in KnownReq
  BY <1>6, AboutMade
<1> QED
  BY <1>2, <1>3, <1>4, <1>5, <1>7, <1>8, <1>9

LEMMA StepsFinite ==
    ASSUME NEW s \in Seq(PageReq)
    PROVE  IsFiniteSet(NewSteps(s)) /\ Cardinality(NewSteps(s)) \in Nat
<1>1. Len(s) \in Nat
  BY LenProperties
<1>2. IsFiniteSet(1 .. Len(s))
  BY <1>1, FS_Interval
<1>3. NewSteps(s) \in SUBSET (1 .. Len(s))
  BY DEF NewSteps
<1> QED
  BY <1>2, <1>3, FS_Subset, FS_CardinalityType

(* No steps are added while requests are answered, except by the request   *)
(* that adds one.                                                          *)
LEMMA StepsTaken ==
    ASSUME NEW s \in Seq(PageReq), NEW t \in Seq(PageReq), NEW u \in Seq(PageReq), NEW n \in 1 .. Len(s),
           Taken(u, s, n, t), \A k \in 1 .. Len(t) : t[k] \notin StepReq
    PROVE  Cardinality(NewSteps(u)) <= Cardinality(NewSteps(s))
<1>1. /\ Len(s) \in Nat /\ Len(t) \in Nat /\ Len(u) = Len(s) - 1 + Len(t) /\ n \in Nat
      /\ \A i \in 1 .. n - 1 : u[i] = s[i]
      /\ \A i \in n + 1 .. Len(s) : u[i - 1] = s[i]
      /\ \A k \in 1 .. Len(t) : u[Len(s) - 1 + k] = t[k]
  BY DEF Taken
<1> DEFINE f == [m \in NewSteps(u) |-> IF m < n THEN m ELSE m + 1]
<1>2. ASSUME NEW m \in NewSteps(u)
      PROVE  f[m] \in NewSteps(s)
  <2>1. m \in 1 .. Len(u) /\ u[m] \in StepReq /\ ~u[m].done /\ m \in Nat
    BY <1>1 DEF NewSteps
  <2>2. CASE m < n
    <3>1. m \in 1 .. n - 1 /\ m \in 1 .. Len(s)
      BY <1>1, <2>1, <2>2
    <3>2. u[m] = s[m] /\ f[m] = m
      BY <1>1, <2>2, <3>1
    <3> QED
      BY <2>1, <3>1, <3>2 DEF NewSteps
  <2>3. CASE ~(m < n) /\ m < Len(s)
    <3>0. n \in Nat /\ m \in Nat /\ Len(s) \in Nat
      BY <1>1, <2>1
    <3>1. m + 1 \in n + 1 .. Len(s) /\ m + 1 \in 1 .. Len(s) /\ m + 1 - 1 = m
      BY <2>3, <3>0
    <3>2. u[m] = s[m + 1]
      BY <3>0, <3>1 DEF Taken
    <3>3. f[m] = m + 1
      BY <2>3
    <3> QED
      BY <2>1, <3>1, <3>2, <3>3 DEF NewSteps
  <2>4. CASE ~(m < n) /\ ~(m < Len(s))
    <3>1. m - (Len(s) - 1) \in 1 .. Len(t) /\ Len(s) - 1 + (m - (Len(s) - 1)) = m
      BY <1>1, <2>1, <2>4
    <3>2. u[m] = t[m - (Len(s) - 1)]
      BY <1>1, <3>1
    <3> QED
      BY <2>1, <3>1, <3>2
  <2> QED
    BY <2>2, <2>3, <2>4
<1>3. f \in [NewSteps(u) -> NewSteps(s)]
  BY <1>2
<1>4. ASSUME NEW a \in NewSteps(u), NEW b \in NewSteps(u), f[a] = f[b]
      PROVE  a = b
  <2>1. a \in Nat /\ b \in Nat
    BY <1>1 DEF NewSteps
  <2>2. f[a] = (IF a < n THEN a ELSE a + 1) /\ f[b] = (IF b < n THEN b ELSE b + 1)
    OBVIOUS
  <2> QED
    BY <1>1, <1>4, <2>1, <2>2
<1> HIDE DEF f
<1>5. f \in Injection(NewSteps(u), NewSteps(s))
  BY <1>3, <1>4 DEF Injection, IsInjective
<1> QED
  BY <1>5, StepsFinite, FS_Injection

LEMMA StepsSent ==
    ASSUME NEW s \in Seq(PageReq), NEW r \in PageReq
    PROVE  /\ r \notin StepReq => Cardinality(NewSteps(Append(s, r))) <= Cardinality(NewSteps(s))
           /\ Cardinality(NewSteps(Append(s, r))) <= Cardinality(NewSteps(s)) + 1
<1> DEFINE u == Append(s, r)
<1>1. /\ u \in Seq(PageReq) /\ Len(u) = Len(s) + 1 /\ Len(s) \in Nat
      /\ \A i \in 1 .. Len(s) : u[i] = s[i]
      /\ u[Len(s) + 1] = r
  BY AppendProperties, LenProperties
<1> HIDE DEF u
<1>2. NewSteps(u) \subseteq NewSteps(s) \cup {Len(s) + 1}
  BY <1>1 DEF NewSteps
<1>3. r \notin StepReq => NewSteps(u) \subseteq NewSteps(s)
  BY <1>1 DEF NewSteps
<1>4. IsFiniteSet(NewSteps(s)) /\ Cardinality(NewSteps(s)) \in Nat
  BY StepsFinite
<1>5. /\ IsFiniteSet(NewSteps(s) \cup {Len(s) + 1})
      /\ Cardinality(NewSteps(s) \cup {Len(s) + 1}) <= Cardinality(NewSteps(s)) + 1
  <2> DEFINE k == Len(s) + 1
             S == NewSteps(s)
  <2> HIDE DEF k, S
  <2>1. IsFiniteSet(S) /\ Cardinality(S) \in Nat
    BY <1>4 DEF S
  <2>2. IsFiniteSet(S \cup {k}) /\ Cardinality(S \cup {k}) = IF k \in S THEN Cardinality(S) ELSE Cardinality(S) + 1
    BY <2>1, FS_AddElement
  <2>3. IsFiniteSet(S \cup {k}) /\ Cardinality(S \cup {k}) <= Cardinality(S) + 1
    BY <2>1, <2>2
  <2> QED
    BY <2>3 DEF k, S
<1>6. Cardinality(NewSteps(u)) <= Cardinality(NewSteps(s) \cup {Len(s) + 1})
  BY <1>2, <1>5, FS_Subset
<1>7. r \notin StepReq => Cardinality(NewSteps(u)) <= Cardinality(NewSteps(s))
  BY <1>3, <1>4, FS_Subset
<1>8. Cardinality(NewSteps(u)) \in Nat
  BY <1>1, StepsFinite
<1>9. Cardinality(NewSteps(s) \cup {Len(s) + 1}) \in Nat
  BY <1>5, FS_CardinalityType
<1>10. Cardinality(NewSteps(u)) <= Cardinality(NewSteps(s)) + 1
  BY <1>4, <1>5, <1>6, <1>8, <1>9
<1> QED
  BY <1>7, <1>10 DEF u

LEMMA StepsWritten ==
    ASSUME NEW s \in Seq(PageReq), NEW n \in 1 .. Len(s), NEW r \in PageReq, r.what = s[n].what, s[n].done => r.done
    PROVE  LET u == [s EXCEPT ![n] = r] IN
           /\ Cardinality(NewSteps(u)) <= Cardinality(NewSteps(s))
           /\ r.done /\ s[n] \in StepReq /\ ~s[n].done => Cardinality(NewSteps(u)) <= Cardinality(NewSteps(s)) - 1
<1> DEFINE u == [s EXCEPT ![n] = r]
<1>1. /\ u \in Seq(PageReq) /\ Len(u) = Len(s) /\ u[n] = r /\ Len(s) \in Nat
      /\ \A i \in 1 .. Len(s) : i # n => u[i] = s[i]
  BY LenProperties
<1> HIDE DEF u
<1>2. s[n] \in PageReq
  OBVIOUS
<1>3. r \in StepReq <=> s[n] \in StepReq
  BY <1>2, ReqKinds
<1>4. NewSteps(u) \subseteq NewSteps(s)
  BY <1>1, <1>3 DEF NewSteps
<1>5. r.done /\ s[n] \in StepReq /\ ~s[n].done => n \in NewSteps(s) /\ NewSteps(u) \subseteq NewSteps(s) \ {n}
  BY <1>1, <1>3 DEF NewSteps
<1>6. IsFiniteSet(NewSteps(s)) /\ Cardinality(NewSteps(s)) \in Nat
  BY StepsFinite
<1>7. Cardinality(NewSteps(u)) <= Cardinality(NewSteps(s))
  BY <1>4, <1>6, FS_Subset
<1>8. ASSUME r.done, s[n] \in StepReq, ~s[n].done
      PROVE  Cardinality(NewSteps(u)) <= Cardinality(NewSteps(s)) - 1
  <2>1. IsFiniteSet(NewSteps(s) \ {n}) /\ Cardinality(NewSteps(s) \ {n}) = Cardinality(NewSteps(s)) - 1
    BY <1>5, <1>6, <1>8, FS_RemoveElement
  <2>2. Cardinality(NewSteps(u)) <= Cardinality(NewSteps(s) \ {n})
    BY <1>5, <1>8, <2>1, FS_Subset
  <2> QED
    BY <2>1, <2>2
<1> QED
  BY <1>7, <1>8 DEF u

LEMMA KnownGrows ==
    ASSUME CampRowTypes, JobTypes, row'.texts \in Seq(Texts), Len(row.texts) <= Len(row'.texts), Len(draftings) <= Len(draftings'),
           draftings' \in Seq({"open", "ended"}),
           \A j \in 1 .. Len(draftings) : draftings[j] = "ended" => draftings'[j] = "ended",
           cardJob # 0 => cardJob' # 0
    PROVE  KnownReq \subseteq KnownReq'
<1> SUFFICES ASSUME NEW r \in KnownReq PROVE r \in KnownReq'
  OBVIOUS
<1>1. Len(draftings) \in Nat /\ Len(draftings') \in Nat
  <2>1. draftings \in Seq({"open", "ended"})
    BY DEF JobTypes
  <2> QED
    BY <2>1, LenProperties
<1>2. Len(row.texts) \in Nat /\ Len(row'.texts) \in Nat
  <2>1. row.texts \in Seq(Texts)
    BY DEF CampRowTypes, CampRows
  <2> QED
    BY <2>1, LenProperties
<1>3. r \in PageReq
  BY DEF KnownReq
<1>4. r \in LoadReq => Len(r.read.texts) <= Len(row'.texts)
  <2>1. r \in LoadReq => Len(r.read.texts) <= Len(row.texts)
    BY DEF KnownReq
  <2>2. r \in LoadReq => Len(r.read.texts) \in Nat
    <3>1. r \in LoadReq => r.read \in ShownRows
      BY DEF LoadReq
    <3>2. r.read \in ShownRows => Len(r.read.texts) \in Nat
      <4>1. ASSUME r.read \in CampRows PROVE Len(r.read.texts) \in Nat
        <5>1. r.read.texts \in Seq(Texts)
          BY <4>1 DEF CampRows
        <5> QED
          BY <5>1, LenProperties
      <4>2. ASSUME r.read = NotLoaded PROVE Len(r.read.texts) \in Nat
        <5>1. Len(NotLoaded.texts) = 0
          BY DEF NotLoaded
        <5> QED
          BY <4>2, <5>1
      <4> QED
        BY <4>1, <4>2 DEF ShownRows
    <3> QED
      BY <3>1, <3>2
  <2> QED
    BY <1>2, <2>1, <2>2
<1>5. r \in JobReq => /\ r.job \in 1 .. Len(draftings') /\ (r.read = "ended" => draftings'[r.job] = "ended")
                      /\ (r.done => r.read # "") /\ cardJob' # 0
  <2>1. r \in JobReq => /\ r.job \in 1 .. Len(draftings) /\ (r.read = "ended" => draftings[r.job] = "ended")
                        /\ (r.done => r.read # "") /\ cardJob # 0
    BY DEF KnownReq
  <2>2. \A j \in 1 .. Len(draftings) : j \in 1 .. Len(draftings')
    BY <1>1
  <2> QED
    BY <2>1, <2>2
<1>6. r \in StatusReq => r.job \in 0 .. Len(draftings')
  <2>1. r \in StatusReq => r.job \in 0 .. Len(draftings)
    BY DEF KnownReq
  <2>2. \A j \in 0 .. Len(draftings) : j \in 0 .. Len(draftings')
    BY <1>1
  <2> QED
    BY <2>1, <2>2
<1> QED
  BY <1>3, <1>4, <1>5, <1>6 DEF KnownReq

LEMMA AskedTypes ==
    ASSUME PageTypes
    PROVE  /\ asked \in Seq(KnownReq) /\ asked \in Seq(PageReq) /\ KnownReq \subseteq PageReq /\ Len(asked) \in Nat
           /\ \A n \in 1 .. Len(asked) : asked[n] \in KnownReq /\ asked[n] \in PageReq
           /\ Len(row.texts) \in Nat /\ Len(draftings) \in Nat /\ pageActs \in Nat
           /\ Cardinality(NewSteps(asked)) \in Nat /\ draftings \in Seq({"open", "ended"}) /\ row.texts \in Seq(Texts)
<1>1. asked \in Seq(KnownReq) /\ KnownReq \subseteq PageReq
  BY DEF PageTypes, KnownReq
<1>2. asked \in Seq(PageReq) /\ Len(asked) \in Nat /\ \A n \in 1 .. Len(asked) : asked[n] \in KnownReq /\ asked[n] \in PageReq
  BY <1>1, LenProperties
<1>3. Len(row.texts) \in Nat /\ row.texts \in Seq(Texts)
  BY LenProperties DEF PageTypes, CampRowTypes, CampRows
<1>4. Len(draftings) \in Nat /\ draftings \in Seq({"open", "ended"})
  <2>1. draftings \in Seq({"open", "ended"})
    BY DEF PageTypes, JobTypes
  <2> QED
    BY <2>1, LenProperties
<1>5. pageActs \in Nat
  BY DEF PageTypes, DialogTypes
<1> QED
  BY <1>1, <1>2, <1>3, <1>4, <1>5, StepsFinite

LEMMA KnownSame ==
    ASSUME row'.texts = row.texts, draftings' = draftings, cardJob' = cardJob
    PROVE  KnownReq' = KnownReq
BY DEF KnownReq

LEMMA StepsKept ==
    ASSUME PageTypes, Len(row'.texts) = Len(row.texts), pageActs' \in Nat, pageActs <= pageActs',
           asked' \in Seq(PageReq), Cardinality(NewSteps(asked')) <= Cardinality(NewSteps(asked)) + (pageActs' - pageActs)
    PROVE  StepsBounded'
<1>1. Len(row.texts) \in Nat /\ pageActs \in Nat /\ Cardinality(NewSteps(asked)) \in Nat
  BY AskedTypes
<1>2. Cardinality(NewSteps(asked')) \in Nat
  BY StepsFinite
<1>3. Len(row.texts) + Cardinality(NewSteps(asked)) <= MaxSteps + pageActs
  BY DEF PageTypes, StepsBounded
<1>4. MaxSteps \in Nat
  BY PageAssumption
<1>5. Len(row'.texts) + Cardinality(NewSteps(asked')) <= MaxSteps + pageActs'
  <2> DEFINE a == Cardinality(NewSteps(asked))
             b == Cardinality(NewSteps(asked'))
             l == Len(row.texts)
             l1 == Len(row'.texts)
             p == pageActs
             p1 == pageActs'
  <2>1. a \in Nat /\ b \in Nat /\ l \in Nat /\ p \in Nat
    BY <1>1, <1>2
  <2>2. l1 = l /\ b <= a + (p1 - p) /\ p1 \in Nat
    OBVIOUS
  <2>3. l + a <= MaxSteps + p
    BY <1>3
  <2> HIDE DEF a, b, l, l1, p, p1
  <2>4. l1 + b <= MaxSteps + p1
    BY <1>4, <2>1, <2>2, <2>3
  <2> QED
    BY <2>4 DEF l1, b, p1
<1>6. (NewSteps(asked))' = NewSteps(asked')
  BY DEF NewSteps
<1> QED
  BY <1>5, <1>6 DEF StepsBounded

(* What the user does without sending a request.                           *)
LEMMA QuietTypes ==
    ASSUME PageTypes, UNCHANGED <<row, opened, draftings, cardJob, card, asked>>, BoxTypes', DialogTypes', pageActs <= pageActs'
    PROVE  PageTypes'
<1>1. CampRowTypes' /\ JobTypes'
  BY DEF PageTypes, CampRowTypes, JobTypes
<1>2. asked' \in Seq(KnownReq')
  BY KnownSame DEF PageTypes
<1>3. StepsBounded'
  <2>1. Cardinality(NewSteps(asked)) \in Nat /\ asked \in Seq(PageReq) /\ pageActs \in Nat
    BY AskedTypes
  <2>2. pageActs' \in Nat
    BY DEF DialogTypes
  <2>3. Cardinality(NewSteps(asked')) = Cardinality(NewSteps(asked))
    OBVIOUS
  <2>4. Cardinality(NewSteps(asked')) <= Cardinality(NewSteps(asked)) + (pageActs' - pageActs)
    BY <2>1, <2>2, <2>3
  <2> QED
    BY <2>1, <2>2, <2>4, StepsKept
<1> QED
  BY <1>1, <1>2, <1>3 DEF PageTypes

(* A request is sent.                                                      *)
LEMMA SentTypes ==
    ASSUME PageTypes, NEW r \in KnownReq, UNCHANGED <<row, opened, draftings, cardJob, card>>, BoxTypes', DialogTypes',
           pageActs <= pageActs', asked' = Append(asked, r), r \in StepReq => pageActs' = pageActs + 1
    PROVE  PageTypes'
<1>0. asked \in Seq(KnownReq) /\ asked \in Seq(PageReq) /\ KnownReq \subseteq PageReq
  BY AskedTypes
<1>1. CampRowTypes' /\ JobTypes'
  BY DEF PageTypes, CampRowTypes, JobTypes
<1>2. asked' \in Seq(KnownReq')
  <2>1. asked' \in Seq(KnownReq)
    BY <1>0, AppendProperties
  <2> QED
    BY <2>1, KnownSame
<1>3. StepsBounded'
  <2>1. Cardinality(NewSteps(asked)) \in Nat /\ pageActs \in Nat
    BY AskedTypes
  <2>2. pageActs' \in Nat
    BY DEF DialogTypes
  <2>3. asked' \in Seq(PageReq) /\ r \in PageReq
    BY <1>0, AppendProperties
  <2>4. /\ r \notin StepReq => Cardinality(NewSteps(asked')) <= Cardinality(NewSteps(asked))
        /\ Cardinality(NewSteps(asked')) <= Cardinality(NewSteps(asked)) + 1
    BY <1>0, <2>3, StepsSent
  <2>5. Cardinality(NewSteps(asked')) \in Nat
    BY <2>3, StepsFinite
  <2>6. Cardinality(NewSteps(asked')) <= Cardinality(NewSteps(asked)) + (pageActs' - pageActs)
    BY <2>1, <2>2, <2>4, <2>5
  <2> QED
    BY <2>2, <2>3, <2>6, StepsKept
<1> QED
  BY <1>1, <1>2, <1>3 DEF PageTypes

(* An answer is taken, and the page sends t.                               *)
LEMMA TakenTypes ==
    ASSUME PageTypes, NEW n \in 1 .. Len(asked), NEW t \in Seq(KnownReq'), asked' = RemoveAt(asked, n) \o t,
           \A k \in 1 .. Len(t) : t[k] \notin StepReq, KnownReq \subseteq KnownReq',
           UNCHANGED <<row, draftings, pageActs>>, CampRowTypes', JobTypes', BoxTypes', DialogTypes'
    PROVE  PageTypes' /\ Taken(asked', asked, n, t) /\ asked' \in Seq(PageReq) /\ t \in Seq(PageReq)
<1> DEFINE K == KnownReq'
<1>1. K \subseteq PageReq
  BY DEF KnownReq, PageReq, LoadReq, JobReq, ChangeReq, AddReq, SaveReq, DropReq, StepReq, StatusReq, RemoveReq, DeleteReq, ShownRows, CampRows, NotLoaded
<1>2. asked \in Seq(K)
  BY DEF PageTypes
<1> HIDE DEF K
<1>3. t \in Seq(K)
  BY DEF K
<1>4. asked' \in Seq(K) /\ Taken(asked', asked, n, t)
  BY <1>2, <1>3, RemovedFor
<1>5. asked \in Seq(PageReq) /\ t \in Seq(PageReq) /\ asked' \in Seq(PageReq)
  BY <1>1, <1>2, <1>3, <1>4
<1>6. Cardinality(NewSteps(asked')) <= Cardinality(NewSteps(asked))
  BY <1>4, <1>5, StepsTaken
<1>7. StepsBounded'
  <2>1. Cardinality(NewSteps(asked)) \in Nat /\ pageActs \in Nat
    BY AskedTypes
  <2>2. Cardinality(NewSteps(asked')) <= Cardinality(NewSteps(asked)) + (pageActs' - pageActs)
    BY <1>6, <2>1
  <2> QED
    BY <1>5, <2>1, <2>2, StepsKept
<1> QED
  BY <1>4, <1>5, <1>7 DEF PageTypes, K

(* The server answers a request.                                           *)
LEMMA WrittenTypes ==
    ASSUME PageTypes, NEW n \in 1 .. Len(asked), NEW d \in KnownReq', asked' = [asked EXCEPT ![n] = d],
           d.what = asked[n].what, asked[n].done => d.done, KnownReq \subseteq KnownReq',
           \/ Len(row'.texts) = Len(row.texts)
           \/ Len(row'.texts) = Len(row.texts) + 1 /\ asked[n] \in StepReq /\ ~asked[n].done /\ d.done,
           pageActs' = pageActs, CampRowTypes', JobTypes', BoxTypes', DialogTypes'
    PROVE  PageTypes' /\ Written(asked', asked, n, d) /\ asked' \in Seq(PageReq) /\ d \in PageReq
<1> DEFINE K == KnownReq'
<1>1. K \subseteq PageReq
  BY DEF KnownReq, PageReq, LoadReq, JobReq, ChangeReq, AddReq, SaveReq, DropReq, StepReq, StatusReq, RemoveReq, DeleteReq, ShownRows, CampRows, NotLoaded
<1>2. asked \in Seq(K)
  BY DEF PageTypes
<1>3. d \in K
  OBVIOUS
<1> HIDE DEF K
<1>4. asked' \in Seq(K) /\ Written(asked', asked, n, d)
  BY <1>2, <1>3, WrittenIs
<1>5. asked \in Seq(PageReq) /\ asked' \in Seq(PageReq) /\ d \in PageReq
  BY <1>1, <1>2, <1>3, <1>4
<1>6. /\ Cardinality(NewSteps(asked')) <= Cardinality(NewSteps(asked))
      /\ d.done /\ asked[n] \in StepReq /\ ~asked[n].done => Cardinality(NewSteps(asked')) <= Cardinality(NewSteps(asked)) - 1
  BY <1>5, StepsWritten
<1>7. (NewSteps(asked))' = NewSteps(asked')
  BY DEF NewSteps
<1>8. StepsBounded'
  <2> DEFINE a == Cardinality(NewSteps(asked))
             b == Cardinality(NewSteps(asked'))
             l == Len(row.texts)
             l1 == Len(row'.texts)
  <2>1. a \in Nat /\ l \in Nat /\ pageActs \in Nat
    BY AskedTypes
  <2>2. b \in Nat
    BY <1>5, StepsFinite
  <2>3. l1 \in Nat
    BY <2>1
  <2>4. l + a <= MaxSteps + pageActs /\ MaxSteps \in Nat
    BY PageAssumption DEF PageTypes, StepsBounded
  <2>5. b <= a /\ (l1 = l \/ (l1 = l + 1 /\ b <= a - 1))
    BY <1>6
  <2> HIDE DEF a, b, l, l1
  <2>6. l1 + b <= MaxSteps + pageActs
    BY <2>1, <2>2, <2>3, <2>4, <2>5
  <2>7. (Len(row.texts) + Cardinality(NewSteps(asked)) <= MaxSteps + pageActs)'
    BY <1>7, <2>6 DEF l1, b
  <2> QED
    BY <2>7 DEF StepsBounded
<1> QED
  BY <1>4, <1>5, <1>8 DEF PageTypes, K

(* A change that the page will load the campaign after, and the load that  *)
(* brings what there is.                                                   *)
Reloads == {r \in PageReq : \/ r \in AddReq /\ r.leads \ (r.todo \cup r.failed) # {}
                            \/ r \in ChangeReq /\ r.done /\ r.ok}
BringsRow == {r \in LoadReq : r.done => r.ok /\ r.read = row}
Current == \/ OnTheWay(asked, Reloads)
           \/ LastSent(asked, BringsRow, LoadReq)
           \/ ~OnTheWay(asked, LoadReq) /\ opened = row

(* A text that was typed and is not marked as unsaved is stored, or the    *)
(* last on its way to be.                                                  *)
SavesOf(i) == {r \in SaveReq : ~r.done /\ r.id = i}
Saving(i) == {r \in SavesOf(i) : r.from = "box" /\ r.text = typed[i]}
TextKept(i) == \/ LastSent(asked, Saving(i), SavesOf(i))
               \/ ~OnTheWay(asked, SavesOf(i)) /\ row.texts[i] \in {"", typed[i]}
TextsKept == \A i \in AllIds \ unsaved : typed[i] # "" => TextKept(i)

(* The card asks about its own job, and has stopped when that one ended.   *)
OwnPoll == {r \in PageReq : r \in JobReq => r.job = cardJob /\ (~card.polling /\ r.done => r.read = "ended")}
CardKept ==
  /\ \A n \in 1 .. Len(asked) : asked[n] \in OwnPoll
  /\ cardJob = 0 => card.polling
  /\ ~card.polling => card.shown = "ended" /\ draftings[cardJob] = "ended"

PageInv ==
  /\ PageTypes
  /\ ~gap /\ ~gone /\ Exists => Current
  /\ ~gap /\ ~gone => TextsKept
  /\ ~strayed /\ ~gone => CardKept

(* A step of the user that sends nothing, and one that sends r.            *)
QuietStep ==
  /\ PageTypes' /\ UNCHANGED <<row, opened, draftings, cardJob, card, asked, gone, gap, strayed>>
  /\ \A i \in AllIds : i \in unsaved' \/ (i \notin unsaved /\ typed'[i] = typed[i])
Sends(r) ==
  /\ PageTypes' /\ r \in KnownReq /\ asked' = Append(asked, r)
  /\ UNCHANGED <<row, opened, draftings, cardJob, card, typed, gone, strayed>>
  /\ ~gap' => /\ ~gap
              /\ \A i \in AllIds : \/ i \in unsaved' \/ typed[i] = "" \/ r \in Saving(i)
                                  \/ (i \notin unsaved /\ r \notin SavesOf(i))
  /\ r \notin LoadReq /\ (r \in JobReq => r.job = cardJob /\ ~r.done)

LEMMA BoxKept ==
    ASSUME BoxTypes, UNCHANGED <<typed, previews, unsaved>>, Len(row.texts) \in Nat, Len(row'.texts) \in Nat,
           Len(row.texts) <= Len(row'.texts)
    PROVE  BoxTypes'
<1>1. Ids \subseteq 1 .. Len(row'.texts)
  BY DEF Ids
<1>2. Ids' = 1 .. Len(row'.texts)
  BY DEF Ids
<1>3. Ids \subseteq Ids'
  BY <1>1, <1>2
<1> QED
  BY <1>3 DEF BoxTypes

LEMMA TemplatesIn ==
    ASSUME PageTypes
    PROVE  /\ Templates \subseteq Ids /\ Ids \subseteq AllIds /\ AllIds \subseteq Nat /\ Ids = 1 .. Len(row.texts)
           /\ \A i \in Templates : Box(i) \in Texts /\ Box(i) # ""
<1>1. Len(row.texts) \in Nat /\ pageActs \in Nat /\ Cardinality(NewSteps(asked)) \in Nat
  BY AskedTypes
<1>2. Len(row.texts) <= MaxSteps + MaxPageActs /\ MaxSteps \in Nat /\ MaxPageActs \in Nat
  <2>1. MaxSteps \in Nat /\ MaxPageActs \in Nat
    BY PageAssumption
  <2>2. pageActs <= MaxPageActs
    BY <1>1, <2>1 DEF PageTypes, DialogTypes
  <2>3. Len(row.texts) + Cardinality(NewSteps(asked)) <= MaxSteps + pageActs
    BY DEF PageTypes, StepsBounded
  <2>4. Len(row.texts) <= MaxSteps + pageActs
    BY <1>1, <2>1, <2>3
  <2> QED
    BY <1>1, <2>1, <2>2, <2>4
<1>3. opened.texts \in Seq(Texts)
  <2>1. CASE opened \in CampRows
    BY <2>1 DEF CampRows
  <2>2. CASE opened = NotLoaded
    <3>1. NotLoaded.texts \in Seq(Texts)
      BY DEF NotLoaded
    <3> QED
      BY <2>2, <3>1
  <2> QED
    BY <2>1, <2>2 DEF PageTypes, CampRowTypes, ShownRows
<1>4. Len(opened.texts) \in Nat /\ \A i \in 1 .. Len(opened.texts) : opened.texts[i] \in Texts
  BY <1>3, LenProperties
<1>5. Len(opened.texts) <= Len(row.texts)
  BY DEF PageTypes, CampRowTypes
<1>6. Ids \subseteq AllIds /\ AllIds \subseteq Nat
  BY <1>1, <1>2 DEF Ids, AllIds
<1>7. Templates \subseteq Ids
  <2>1. \A i \in 1 .. Len(opened.texts) : i \in 1 .. Len(row.texts)
    BY <1>1, <1>4, <1>5
  <2> QED
    BY <2>1 DEF Templates, Ids
<1>8. ASSUME NEW i \in Templates PROVE Box(i) \in Texts /\ Box(i) # ""
  <2>1. i \in AllIds
    BY <1>6, <1>7
  <2>2. typed[i] \in Texts
    BY <2>1 DEF PageTypes, BoxTypes
  <2>3. opened.texts[i] \in Texts /\ opened.texts[i] # ""
    BY <1>4 DEF Templates
  <2> QED
    BY <2>2, <2>3 DEF Box
<1> QED
  BY <1>6, <1>7, <1>8 DEF Ids

LEMMA ClickCounts == ASSUME PageTypes, Click PROVE pageActs' \in 0 .. MaxPageActs /\ pageActs' = pageActs + 1 /\ pageActs <= pageActs'
<1>1. pageActs \in 0 .. MaxPageActs /\ MaxPageActs \in Nat
  BY PageAssumption DEF PageTypes, DialogTypes
<1>2. pageActs < MaxPageActs /\ pageActs' = pageActs + 1
  BY DEF Click
<1> QED
  BY <1>1, <1>2

LEMMA ActsKept == ASSUME PageTypes, pageActs' = pageActs PROVE pageActs' \in 0 .. MaxPageActs /\ pageActs <= pageActs'
<1>1. pageActs \in 0 .. MaxPageActs /\ MaxPageActs \in Nat
  BY PageAssumption DEF PageTypes, DialogTypes
<1> QED
  BY <1>1

LEMMA DialogQuiet ==
    ASSUME PageTypes, dialog' \in {"none", "activate", "leads"}, chosen' \subseteq Prospect, adding' \in BOOLEAN,
           pageActs' \in 0 .. MaxPageActs, pageActs <= pageActs', pageFaults' = pageFaults,
           UNCHANGED <<row, opened, draftings, cardJob, card, asked, gone, gap, strayed>>,
           UNCHANGED boxes \/ (BoxTypes' /\ \A i \in AllIds : i \in unsaved' \/ (i \notin unsaved /\ typed'[i] = typed[i]))
    PROVE  QuietStep
<1>1. DialogTypes'
  BY DEF PageTypes, DialogTypes
<1>2. BoxTypes'
  <2>1. CASE UNCHANGED boxes
    <3>1. Len(row.texts) \in Nat /\ BoxTypes
      BY AskedTypes DEF PageTypes
    <3>2. UNCHANGED <<typed, previews, unsaved>>
      BY <2>1 DEF boxes
    <3>3. Len(row'.texts) = Len(row.texts)
      OBVIOUS
    <3> QED
      BY <3>1, <3>2, <3>3, BoxKept
  <2> QED
    BY <2>1
<1>3. PageTypes'
  BY <1>1, <1>2, QuietTypes
<1>4. \A i \in AllIds : i \in unsaved' \/ (i \notin unsaved /\ typed'[i] = typed[i])
  BY DEF boxes
<1> QED
  BY <1>3, <1>4 DEF QuietStep

LEMMA AskActivateQuiet == ASSUME PageTypes, AskActivate PROVE QuietStep
<1>1. pageActs' \in 0 .. MaxPageActs /\ pageActs <= pageActs'
  BY ClickCounts DEF AskActivate
<1> QED
  BY <1>1, DialogQuiet DEF AskActivate, PageTypes, DialogTypes, carding

LEMMA CloseDialogQuiet == ASSUME PageTypes, CloseDialog PROVE QuietStep
<1>1. pageActs' \in 0 .. MaxPageActs /\ pageActs <= pageActs'
  BY ActsKept DEF CloseDialog
<1>2. chosen' \subseteq Prospect
  BY DEF CloseDialog, PageTypes, DialogTypes
<1> QED
  BY <1>1, <1>2, DialogQuiet DEF CloseDialog, PageTypes, DialogTypes, carding

LEMMA OpenLeadsQuiet == ASSUME PageTypes, OpenLeads PROVE QuietStep
<1>1. pageActs' \in 0 .. MaxPageActs /\ pageActs <= pageActs'
  BY ClickCounts DEF OpenLeads
<1> QED
  BY <1>1, DialogQuiet DEF OpenLeads, PageTypes, DialogTypes, carding

LEMMA PickLeadQuiet == ASSUME PageTypes, NEW l \in Prospect, PickLead(l) PROVE QuietStep
<1>1. pageActs' \in 0 .. MaxPageActs /\ pageActs <= pageActs'
  BY ClickCounts DEF PickLead
<1>2. chosen' \subseteq Prospect
  BY DEF PickLead, PageTypes, DialogTypes
<1> QED
  BY <1>1, <1>2, DialogQuiet DEF PickLead, PageTypes, DialogTypes, carding

LEMMA SelectAllQuiet == ASSUME PageTypes, NEW leads \in SUBSET Prospect, handleSelectAllFiltered(leads) PROVE QuietStep
<1>1. pageActs' \in 0 .. MaxPageActs /\ pageActs <= pageActs'
  BY ClickCounts DEF handleSelectAllFiltered
<1>2. chosen' \subseteq Prospect
  BY DEF handleSelectAllFiltered, PageTypes, DialogTypes
<1> QED
  BY <1>1, <1>2, DialogQuiet DEF handleSelectAllFiltered, PageTypes, DialogTypes, carding

LEMMA PreviewQuiet ==
    ASSUME PageTypes, NEW i \in AllIds, NEW text \in Texts, previews' = [previews EXCEPT ![i] = text],
           UNCHANGED <<row, draftings, opened, typed, unsaved, picking, carding, asked, gone, gap, strayed, pageFaults>>,
           pageActs' \in 0 .. MaxPageActs, pageActs <= pageActs'
    PROVE  QuietStep
<1>1. BoxTypes'
  <2>1. previews' \in [AllIds -> Texts]
    BY DEF PageTypes, BoxTypes
  <2>2. Ids' = Ids
    BY DEF Ids
  <2> QED
    BY <2>1, <2>2 DEF PageTypes, BoxTypes
<1>2. \A j \in AllIds : j \in unsaved' \/ (j \notin unsaved /\ typed'[j] = typed[j])
  OBVIOUS
<1> QED
  BY <1>1, <1>2, DialogQuiet DEF PageTypes, DialogTypes, carding, picking

LEMMA RewriteQuiet == ASSUME PageTypes, NEW i \in AllIds, simulateTemplateRewrite(i) PROVE QuietStep
<1>1. pageActs' \in 0 .. MaxPageActs /\ pageActs <= pageActs'
  BY ClickCounts DEF simulateTemplateRewrite
<1>2. Rewritten \in Texts
  BY PageAssumption DEF Texts
<1> QED
  BY <1>1, <1>2, PreviewQuiet DEF simulateTemplateRewrite

LEMMA CancelQuiet == ASSUME PageTypes, NEW i \in AllIds, cancelPreview(i) PROVE QuietStep
<1>1. pageActs' \in 0 .. MaxPageActs /\ pageActs <= pageActs'
  BY ActsKept DEF cancelPreview
<1>2. "" \in Texts
  BY DEF Texts
<1> QED
  BY <1>1, <1>2, PreviewQuiet DEF cancelPreview

LEMMA TypeTextQuiet == ASSUME PageTypes, NEW i \in AllIds, NEW text \in Typing, TypeText(i, text) PROVE QuietStep
<1>1. pageActs' \in 0 .. MaxPageActs /\ pageActs <= pageActs'
  BY ClickCounts DEF TypeText
<1>2. text \in Texts /\ text # ""
  BY PageAssumption DEF Texts
<1>3. i \in Ids /\ Ids \subseteq AllIds
  BY TemplatesIn DEF TypeText
<1>4. typed' = [typed EXCEPT ![i] = text] /\ unsaved' = unsaved \cup {i} /\ UNCHANGED <<previews, row>>
  BY DEF TypeText
<1>5. typed' \in [AllIds -> Texts] /\ typed'[i] = text /\ \A j \in AllIds \ {i} : typed'[j] = typed[j]
  BY <1>2, <1>4 DEF PageTypes, BoxTypes
<1>6. Ids' = Ids
  BY <1>4 DEF Ids
<1>7. BoxTypes'
  <2>1. unsaved \subseteq Ids \cap AllIds /\ \A j \in AllIds : (typed[j] # "" => j \in Ids) /\ (j \in unsaved => typed[j] # "")
    BY DEF PageTypes, BoxTypes
  <2>2. unsaved' \subseteq Ids' \cap AllIds
    BY <1>3, <1>4, <1>6, <2>1
  <2>3. ASSUME NEW j \in AllIds PROVE (typed'[j] # "" => j \in Ids') /\ (j \in unsaved' => typed'[j] # "")
    <3>1. CASE j = i
      BY <1>2, <1>3, <1>5, <1>6, <3>1
    <3>2. CASE j # i
      BY <1>4, <1>5, <1>6, <2>1, <3>2
    <3> QED
      BY <3>1, <3>2
  <2>4. previews' \in [AllIds -> Texts]
    BY <1>4 DEF PageTypes, BoxTypes
  <2> QED
    BY <1>5, <2>2, <2>3, <2>4 DEF BoxTypes
<1>8. \A j \in AllIds : j \in unsaved' \/ (j \notin unsaved /\ typed'[j] = typed[j])
  BY <1>4, <1>5
<1> QED
  BY <1>1, <1>7, <1>8, DialogQuiet DEF TypeText, PageTypes, DialogTypes, carding, picking

LEMMA DialogSends ==
    ASSUME PageTypes, NEW r \in KnownReq, asked' = Append(asked, r), BoxTypes',
           dialog' \in {"none", "activate", "leads"}, UNCHANGED chosen, adding' \in BOOLEAN,
           pageActs' \in 0 .. MaxPageActs, pageActs <= pageActs', pageFaults' = pageFaults,
           UNCHANGED <<row, opened, draftings, cardJob, card, typed, gone, strayed>>, gap' \in BOOLEAN,
           r \in StepReq => pageActs' = pageActs + 1,
           ~gap' => ~gap,
           ~gap' => \A i \in AllIds : i \in unsaved' \/ typed[i] = "" \/ r \in Saving(i) \/ (i \notin unsaved /\ r \notin SavesOf(i)),
           r \notin LoadReq, r \in JobReq => r.job = cardJob /\ ~r.done
    PROVE  Sends(r)
<1>1. DialogTypes'
  BY DEF PageTypes, DialogTypes
<1>2. PageTypes'
  BY <1>1, SentTypes
<1> QED
  BY <1>2 DEF Sends

LEMMA BoxesKept == ASSUME PageTypes, UNCHANGED <<row, boxes>> PROVE BoxTypes'
<1>1. Len(row.texts) \in Nat /\ BoxTypes
  BY AskedTypes DEF PageTypes
<1>2. UNCHANGED <<typed, previews, unsaved>>
  BY DEF boxes
<1>3. Len(row'.texts) = Len(row.texts)
  OBVIOUS
<1> QED
  BY <1>1, <1>2, <1>3, BoxKept

(* Requests about something else than a text.                              *)
LEMMA PlainSends ==
    ASSUME PageTypes, NEW r \in KnownReq, asked' = Append(asked, r),
           dialog' \in {"none", "activate", "leads"}, UNCHANGED chosen, adding' \in BOOLEAN,
           pageActs' \in 0 .. MaxPageActs, pageActs <= pageActs', pageFaults' = pageFaults,
           UNCHANGED <<row, opened, draftings, cardJob, card, boxes, gone, gap, strayed>>,
           r.what = "newstep" => pageActs' = pageActs + 1, r.what # "save", r.what # "load",
           r.what = "job" => r.job = cardJob /\ ~r.done
    PROVE  Sends(r)
<1>1. BoxTypes'
  BY BoxesKept
<1>2. r \in PageReq
  BY AskedTypes
<1>3. r \notin LoadReq /\ r \notin SaveReq /\ (r \in JobReq => r.what = "job") /\ (r \in StepReq => r.what = "newstep")
  BY <1>2, ReqKinds
<1>4. \A i \in AllIds : i \in unsaved' \/ typed[i] = "" \/ r \in Saving(i) \/ (i \notin unsaved /\ r \notin SavesOf(i))
  BY <1>3 DEF boxes, SavesOf
<1>5. gap' = gap /\ gap' \in BOOLEAN
  BY DEF PageTypes, DialogTypes
<1>6. UNCHANGED typed
  BY DEF boxes
<1>7. ~gap' => ~gap
  BY <1>5
<1>8. r \in StepReq => pageActs' = pageActs + 1
  BY <1>3
<1>9. r \in JobReq => r.job = cardJob /\ ~r.done
  BY <1>3
<1>10. UNCHANGED <<row, opened, draftings, cardJob, card, typed, gone, strayed>>
  BY <1>6
<1> QED
  BY <1>1, <1>3, <1>4, <1>5, <1>7, <1>8, <1>9, <1>10, DialogSends

LEMMA ActivateSends == ASSUME PageTypes, Activate PROVE Sends(RequestOf("status", "active"))
<1>1. RequestOf("status", "active") \in KnownReq
  BY KnownMade
<1>2. RequestOf("status", "active").what = "status"
  BY AboutMade
<1>3. pageActs' \in 0 .. MaxPageActs /\ pageActs <= pageActs'
  BY ActsKept DEF Activate
<1>4. asked' = Append(asked, RequestOf("status", "active")) /\ adding' \in BOOLEAN /\ dialog' = "none"
  BY DEF Activate, Send, PageTypes, DialogTypes
<1> QED
  BY <1>1, <1>2, <1>3, <1>4, PlainSends DEF Activate, carding

LEMMA PauseSends == ASSUME PageTypes, Pause PROVE Sends(RequestOf("status", "paused"))
<1>1. RequestOf("status", "paused") \in KnownReq
  BY KnownMade
<1>2. RequestOf("status", "paused").what = "status"
  BY AboutMade
<1>3. pageActs' \in 0 .. MaxPageActs /\ pageActs <= pageActs'
  BY ClickCounts DEF Pause
<1>4. asked' = Append(asked, RequestOf("status", "paused")) /\ adding' \in BOOLEAN /\ dialog' = "none"
  BY DEF Pause, Send, picking, PageTypes, DialogTypes
<1> QED
  BY <1>1, <1>2, <1>3, <1>4, PlainSends DEF Pause, carding, picking

LEMMA DeleteSends == ASSUME PageTypes, handleDeleteCampaign PROVE Sends(RequestOf("delete", ""))
<1>1. RequestOf("delete", "") \in KnownReq
  BY KnownMade
<1>2. RequestOf("delete", "").what = "delete"
  BY AboutMade
<1>3. pageActs' \in 0 .. MaxPageActs /\ pageActs <= pageActs'
  BY ClickCounts DEF handleDeleteCampaign
<1>4. asked' = Append(asked, RequestOf("delete", "")) /\ adding' \in BOOLEAN /\ dialog' = "none"
  BY DEF handleDeleteCampaign, Send, picking, PageTypes, DialogTypes
<1> QED
  BY <1>1, <1>2, <1>3, <1>4, PlainSends DEF handleDeleteCampaign, carding, picking

LEMMA RemoveSends == ASSUME PageTypes, NEW l \in Prospect, handleRemoveLeadFromCampaign(l) PROVE Sends(RequestOf("remove", l))
<1>1. RequestOf("remove", l) \in KnownReq
  BY KnownMade
<1>2. RequestOf("remove", l).what = "remove"
  BY AboutMade
<1>3. pageActs' \in 0 .. MaxPageActs /\ pageActs <= pageActs'
  BY ClickCounts DEF handleRemoveLeadFromCampaign
<1>4. asked' = Append(asked, RequestOf("remove", l)) /\ adding' \in BOOLEAN /\ dialog' = "none"
  BY DEF handleRemoveLeadFromCampaign, Send, picking, PageTypes, DialogTypes
<1> QED
  BY <1>1, <1>2, <1>3, <1>4, PlainSends DEF handleRemoveLeadFromCampaign, carding, picking

LEMMA AddTemplateSends == ASSUME PageTypes, handleAddTemplate PROVE Sends(RequestOf("newstep", Added))
<1>1. RequestOf("newstep", Added) \in KnownReq
  BY KnownMade
<1>2. RequestOf("newstep", Added).what = "newstep"
  BY AboutMade
<1>3. pageActs' \in 0 .. MaxPageActs /\ pageActs <= pageActs' /\ pageActs' = pageActs + 1
  BY ClickCounts DEF handleAddTemplate
<1>4. asked' = Append(asked, RequestOf("newstep", Added)) /\ adding' \in BOOLEAN /\ dialog' = "none"
  BY DEF handleAddTemplate, Send, picking, PageTypes, DialogTypes
<1> QED
  BY <1>1, <1>2, <1>3, <1>4, PlainSends DEF handleAddTemplate, carding, picking

LEMMA AddLeadsSends == ASSUME PageTypes, handleAddLeads PROVE Sends(AddLeads(chosen))
<1>1. chosen \in SUBSET Prospect
  BY DEF PageTypes, DialogTypes
<1>2. AddLeads(chosen) \in KnownReq
  BY <1>1, KnownMade
<1>3. AddLeads(chosen).what = "add"
  BY DEF AddLeads
<1>4. pageActs' \in 0 .. MaxPageActs /\ pageActs <= pageActs'
  BY ActsKept DEF handleAddLeads
<1>5. asked' = Append(asked, AddLeads(chosen)) /\ adding' \in BOOLEAN /\ dialog' = "leads"
  BY DEF handleAddLeads, Send, picking, PageTypes, DialogTypes
<1> QED
  BY <1>2, <1>3, <1>4, <1>5, PlainSends DEF handleAddLeads, carding, picking

LEMMA DeleteStepSends == ASSUME PageTypes, NEW i \in AllIds, handleDeleteTemplate(i) PROVE Sends(DeleteStep(i))
<1>1. i \in Nat
  BY TemplatesIn
<1>2. DeleteStep(i) \in KnownReq
  BY <1>1, KnownMade
<1>3. DeleteStep(i).what = "delstep"
  BY <1>1, DropMade
<1>4. pageActs' \in 0 .. MaxPageActs /\ pageActs <= pageActs'
  BY ClickCounts DEF handleDeleteTemplate
<1>5. asked' = Append(asked, DeleteStep(i)) /\ adding' \in BOOLEAN /\ dialog' = "none"
  BY DEF handleDeleteTemplate, Send, picking, PageTypes, DialogTypes
<1> QED
  BY <1>2, <1>3, <1>4, <1>5, PlainSends DEF handleDeleteTemplate, carding, picking

LEMMA FetchSends == ASSUME PageTypes, fetchJob PROVE Sends(AskJob(cardJob))
<1>1. cardJob \in 1 .. Len(draftings) /\ cardJob \in Nat /\ cardJob # 0
  <2>1. Len(draftings) \in Nat
    BY AskedTypes
  <2>2. cardJob \in 0 .. Len(draftings) /\ cardJob # 0
    BY DEF fetchJob, PageTypes, JobTypes
  <2> QED
    BY <2>1, <2>2
<1>2. AskJob(cardJob) \in KnownReq
  BY <1>1, KnownMade
<1>3. AskJob(cardJob).what = "job" /\ AskJob(cardJob).job = cardJob /\ ~AskJob(cardJob).done
  BY DEF AskJob
<1>4. pageActs' \in 0 .. MaxPageActs /\ pageActs <= pageActs'
  BY ActsKept DEF fetchJob
<1>5. asked' = Append(asked, AskJob(cardJob)) /\ adding' \in BOOLEAN /\ dialog' \in {"none", "activate", "leads"}
  BY DEF fetchJob, Send, picking, PageTypes, DialogTypes
<1> QED
  BY <1>2, <1>3, <1>4, <1>5, PlainSends DEF fetchJob, carding, picking

LEMMA PutSends ==
    ASSUME PageTypes, NEW i \in AllIds, NEW text \in Texts \ {""}, NEW from \in {"box", "preview"},
           asked' = Append(asked, Put(i, text, from)), BoxTypes', gap' \in BOOLEAN, ~gap' => ~gap,
           pageActs' = pageActs, UNCHANGED <<row, draftings, opened, typed, previews, picking, carding, gone, strayed, pageFaults>>,
           \A j \in AllIds \ {i} : j \in unsaved' \/ j \notin unsaved,
           ~gap' => i \in unsaved' \/ typed[i] = "" \/ (from = "box" /\ text = typed[i])
    PROVE  Sends(Put(i, text, from))
<1> DEFINE r == Put(i, text, from)
<1>1. i \in Nat
  BY TemplatesIn
<1>2. r \in KnownReq
  BY <1>1, KnownMade
<1>3. r \in SaveReq /\ ~r.done /\ r.id = i /\ r.text = text /\ r.from = from /\ r.what = "save"
  <2>1. text \in Texts
    OBVIOUS
  <2> QED
    BY <1>1, <2>1 DEF Put, SaveReq
<1> HIDE DEF r
<1>4. r \notin LoadReq /\ r \notin JobReq /\ r \notin StepReq
  BY <1>2, <1>3, ReqKinds, AskedTypes
<1>5. ASSUME ~gap', NEW j \in AllIds
      PROVE  j \in unsaved' \/ typed[j] = "" \/ r \in Saving(j) \/ (j \notin unsaved /\ r \notin SavesOf(j))
  <2>1. CASE j = i
    BY <1>3, <1>5, <2>1 DEF Saving, SavesOf
  <2>2. CASE j # i
    BY <1>3, <2>2 DEF SavesOf
  <2> QED
    BY <2>1, <2>2
<1>6. pageActs' \in 0 .. MaxPageActs /\ pageActs <= pageActs'
  BY ActsKept
<1>7. adding' \in BOOLEAN /\ dialog' \in {"none", "activate", "leads"} /\ UNCHANGED chosen
  BY DEF picking, PageTypes, DialogTypes
<1>8. asked' = Append(asked, r) /\ UNCHANGED <<cardJob, card>>
  BY DEF r, carding
<1>9. Sends(r)
  BY <1>2, <1>4, <1>5, <1>6, <1>7, <1>8, DialogSends
<1> QED
  BY <1>9 DEF r

LEMMA SaveSends == ASSUME PageTypes, NEW i \in AllIds, SaveChanges(i) PROVE Sends(Put(i, Box(i), "box"))
<1>1. i \in Templates /\ i \in unsaved /\ typed[i] # ""
  BY DEF SaveChanges, PageTypes, BoxTypes
<1>2. Box(i) = typed[i]
  BY <1>1 DEF Box
<1>3. Box(i) \in Texts \ {""}
  BY <1>1, TemplatesIn
<1>4. UNCHANGED <<row, typed, previews>> /\ unsaved' = unsaved \ {i}
  BY DEF SaveChanges
<1>5. BoxTypes'
  <2>1. Ids' = Ids
    BY <1>4 DEF Ids
  <2> QED
    BY <1>4, <2>1 DEF PageTypes, BoxTypes
<1>6. gap' = gap /\ gap' \in BOOLEAN
  BY DEF SaveChanges, PageTypes, DialogTypes
<1>7. \A j \in AllIds \ {i} : j \in unsaved' \/ j \notin unsaved
  BY <1>4
<1>8. asked' = Append(asked, Put(i, Box(i), "box")) /\ "box" \in {"box", "preview"}
  BY DEF SaveChanges, Send
<1>9. UNCHANGED <<row, draftings, opened, typed, previews, picking, carding, gone, strayed, pageFaults>> /\ pageActs' = pageActs
  BY DEF SaveChanges
<1> QED
  BY <1>2, <1>3, <1>5, <1>6, <1>7, <1>8, <1>9, PutSends

LEMMA ApplySends == ASSUME PageTypes, NEW i \in AllIds, applyPreview(i) PROVE Sends(Put(i, previews[i], "preview"))
<1>1. i \in Templates /\ previews[i] # ""
  BY DEF applyPreview
<1>2. previews[i] \in Texts \ {""}
  BY <1>1 DEF PageTypes, BoxTypes
<1>3. BoxTypes'
  BY BoxesKept DEF applyPreview
<1>4. gap' \in BOOLEAN /\ gap' = (gap \/ (typed[i] # "" /\ i \notin unsaved))
  BY DEF applyPreview, PageTypes, DialogTypes
<1>5. asked' = Append(asked, Put(i, previews[i], "preview")) /\ "preview" \in {"box", "preview"}
  BY DEF applyPreview, Send
<1>6. UNCHANGED <<row, draftings, opened, typed, unsaved, previews, picking, carding, gone, strayed, pageFaults>> /\ pageActs' = pageActs
  BY DEF applyPreview, boxes
<1> QED
  BY <1>2, <1>3, <1>4, <1>5, <1>6, PutSends

-----------------------------------------------------------------------------
(* What a step leaves as it was.                                           *)

LEMMA SetsSame ==
    /\ Reloads' = Reloads
    /\ row' = row => BringsRow' = BringsRow
    /\ cardJob' = cardJob /\ card' = card => OwnPoll' = OwnPoll
    /\ \A i : SavesOf(i)' = SavesOf(i)
    /\ \A i : typed'[i] = typed[i] => Saving(i)' = Saving(i)
BY DEF Reloads, BringsRow, OwnPoll, SavesOf, Saving

LEMMA MovedLast ==
    ASSUME NEW S, NEW s \in Seq(S), NEW t \in Seq(S), NEW u \in Seq(S), NEW n, Moved(u, s, n, t),
           NEW P, NEW Q, n # 0 => s[n] \notin P, LastSent(s, P, Q), \A k \in 1 .. Len(t) : t[k] \notin Q
    PROVE  LastSent(u, P, Q)
BY MovedKeeps

LEMMA CurrentMoved ==
    ASSUME Current, asked \in Seq(PageReq), NEW t \in Seq(PageReq), asked' \in Seq(PageReq), NEW n, Moved(asked', asked, n, t),
           n # 0 => asked[n] \notin Reloads /\ asked[n] \notin LoadReq, UNCHANGED <<row, opened>>,
           \A k \in 1 .. Len(t) : t[k] \notin LoadReq
    PROVE  Current'
<1> DEFINE u == asked'
<1>1. u \in Seq(PageReq) /\ Moved(u, asked, n, t)
  OBVIOUS
<1> HIDE DEF u
<1>2. n # 0 => asked[n] \notin BringsRow
  BY DEF BringsRow
<1>9. n # 0 => asked[n] \notin Reloads
  OBVIOUS
<1>3. OnTheWay(asked, Reloads) => OnTheWay(u, Reloads)
  BY <1>1, <1>9, MovedHolds
<1>4. LastSent(asked, BringsRow, LoadReq) => LastSent(u, BringsRow, LoadReq)
  BY <1>1, <1>2, MovedKeeps
<1>5. ~OnTheWay(t, LoadReq)
  BY DEF OnTheWay
<1>6. ~OnTheWay(asked, LoadReq) => ~OnTheWay(u, LoadReq)
  BY <1>1, <1>5, MovedKeeps
<1>7. Reloads' = Reloads /\ BringsRow' = BringsRow
  BY SetsSame
<1>8. OnTheWay(u, Reloads') \/ LastSent(u, BringsRow', LoadReq) \/ (~OnTheWay(u, LoadReq) /\ opened' = row')
  BY <1>3, <1>4, <1>6, <1>7 DEF Current
<1> QED
  BY <1>8 DEF Current, u

(* The page loads the campaign.                                            *)
LEMMA CurrentLoads ==
    ASSUME asked \in Seq(PageReq), NEW t \in Seq(PageReq), asked' \in Seq(PageReq), NEW n, Moved(asked', asked, n, t),
           LastSent(t, BringsRow', LoadReq)
    PROVE  Current'
<1> DEFINE u == asked'
           P == BringsRow'
<1>1. u \in Seq(PageReq) /\ Moved(u, asked, n, t) /\ LastSent(t, P, LoadReq)
  OBVIOUS
<1> HIDE DEF u, P
<1>2. LastSent(u, P, LoadReq)
  BY <1>1, MovedKeeps
<1> QED
  BY <1>2 DEF Current, u, P

LEMMA LoadBrings == Load \in BringsRow /\ Load \in BringsRow' /\ Load \in LoadReq /\ Load \in PageReq /\ Load \notin SaveReq /\ Load \in OwnPoll
<1>1. Load \in LoadReq /\ ~Load.done
  BY LoadMade
<1>2. Load \in PageReq
  BY <1>1 DEF PageReq
<1>3. Load \notin SaveReq /\ Load \notin JobReq
  BY <1>1, <1>2, ReqKinds
<1>4. Load \in OwnPoll
  BY <1>2, <1>3 DEF OwnPoll
<1> QED
  BY <1>1, <1>2, <1>3, <1>4 DEF BringsRow

LEMMA TextMoved ==
    ASSUME NEW i, TextKept(i), asked \in Seq(PageReq), NEW t \in Seq(PageReq), asked' \in Seq(PageReq), NEW n,
           Moved(asked', asked, n, t), n # 0 => asked[n] \notin Saving(i), typed'[i] = typed[i],
           row'.texts[i] \in {"", row.texts[i]}, \A k \in 1 .. Len(t) : t[k] \notin SavesOf(i)
    PROVE  TextKept(i)'
<1> DEFINE u == asked'
<1>1. u \in Seq(PageReq) /\ Moved(u, asked, n, t)
  OBVIOUS
<1> HIDE DEF u
<1>2. LastSent(asked, Saving(i), SavesOf(i)) => LastSent(u, Saving(i), SavesOf(i))
  <2> DEFINE P == Saving(i)
             Q == SavesOf(i)
  <2>1. n # 0 => asked[n] \notin P
    OBVIOUS
  <2>3. \A k \in 1 .. Len(t) : t[k] \notin Q
    OBVIOUS
  <2> HIDE DEF P, Q
  <2>2. ASSUME LastSent(asked, P, Q) PROVE LastSent(u, P, Q)
    BY <1>1, <2>1, <2>2, <2>3, MovedLast
  <2> QED
    BY <2>2 DEF P, Q
<1>3. ~OnTheWay(t, SavesOf(i))
  BY DEF OnTheWay
<1>4. ~OnTheWay(asked, SavesOf(i)) => ~OnTheWay(u, SavesOf(i))
  BY <1>1, <1>3, MovedKeeps
<1>5. SavesOf(i)' = SavesOf(i) /\ Saving(i)' = Saving(i)
  BY SetsSame
<1>6. \/ LastSent(u, Saving(i)', SavesOf(i)')
      \/ ~OnTheWay(u, SavesOf(i)') /\ row'.texts[i] \in {"", typed'[i]}
  BY <1>2, <1>4, <1>5 DEF TextKept
<1> QED
  BY <1>6 DEF TextKept, u

(* A text that was just sent to be saved.                                  *)
LEMMA TextSent ==
    ASSUME NEW i, asked \in Seq(PageReq), NEW r \in PageReq, r \in Saving(i), typed'[i] = typed[i], asked' = Append(asked, r)
    PROVE  TextKept(i)'
<1> DEFINE t == <<r>>
           u == asked'
<1>1. t \in Seq(PageReq) /\ u = asked \o t
  BY AppendIsConcat
<1>2. LastSent(t, Saving(i), SavesOf(i))
  BY OneSent
<1> HIDE DEF t, u
<1>3. LastSent(u, Saving(i), SavesOf(i))
  BY <1>1, <1>2, AddedLast
<1>4. SavesOf(i)' = SavesOf(i) /\ Saving(i)' = Saving(i)
  BY SetsSame
<1>5. LastSent(u, Saving(i)', SavesOf(i)')
  BY <1>3, <1>4
<1> QED
  BY <1>5 DEF TextKept, u

LEMMA CardMoved ==
    ASSUME CardKept, asked \in Seq(PageReq), NEW t \in Seq(PageReq), asked' \in Seq(PageReq), NEW n, Moved(asked', asked, n, t),
           UNCHANGED <<cardJob, card>>, ~card.polling => draftings'[cardJob] = "ended", \A k \in 1 .. Len(t) : t[k] \in OwnPoll
    PROVE  CardKept'
<1> DEFINE u == asked'
<1>1. u \in Seq(PageReq) /\ Moved(u, asked, n, t)
  OBVIOUS
<1> HIDE DEF u
<1>2. \A m \in 1 .. Len(asked) : asked[m] \in OwnPoll
  BY DEF CardKept
<1>3. \A m \in 1 .. Len(u) : u[m] \in OwnPoll
  BY <1>1, <1>2, MovedAll
<1>4. OwnPoll' = OwnPoll
  BY SetsSame
<1>5. \A m \in 1 .. Len(u) : u[m] \in OwnPoll'
  BY <1>3, <1>4
<1>6. (cardJob = 0 => card.polling)' /\ (~card.polling => card.shown = "ended" /\ draftings[cardJob] = "ended")'
  BY DEF CardKept
<1> QED
  BY <1>5, <1>6 DEF CardKept, u

LEMMA NotMoved == ASSUME asked \in Seq(PageReq), asked' = asked PROVE <<>> \in Seq(PageReq) /\ Moved(asked', asked, 0, <<>>) /\ Len(<<>>) = 0
<1>1. asked \o <<>> = asked
  BY ConcatEmptySeq
<1> QED
  BY <1>1 DEF Moved

LEMMA SentMoved ==
    ASSUME asked \in Seq(PageReq), NEW r \in PageReq, asked' = Append(asked, r)
    PROVE  <<r>> \in Seq(PageReq) /\ Moved(asked', asked, 0, <<r>>) /\ asked' \in Seq(PageReq)
           /\ \A k \in 1 .. Len(<<r>>) : <<r>>[k] = r
<1>1. asked' = asked \o <<r>> /\ <<r>> \in Seq(PageReq)
  BY AppendIsConcat
<1>2. asked' \in Seq(PageReq)
  BY AppendProperties
<1> QED
  BY <1>1, <1>2, OneSent DEF Moved

LEMMA QuietKeeps == ASSUME PageInv, QuietStep PROVE PageInv'
<1>1. PageTypes' /\ PageTypes /\ UNCHANGED <<row, opened, draftings, cardJob, card, asked, gone, gap, strayed>>
  BY DEF QuietStep, PageInv
<1>2. asked \in Seq(PageReq) /\ asked' \in Seq(PageReq)
  BY <1>1, AskedTypes
<1> DEFINE t == <<>>
<1>3. t \in Seq(PageReq) /\ Moved(asked', asked, 0, t) /\ \A k \in 1 .. Len(t) : FALSE
  BY <1>1, <1>2, NotMoved
<1> HIDE DEF t
<1>4. ~gap' /\ ~gone' /\ Exists' => Current'
  <2> SUFFICES ASSUME ~gap', ~gone', Exists' PROVE Current'
    OBVIOUS
  <2>1. Current
    BY <1>1 DEF PageInv, Exists
  <2> QED
    BY <1>1, <1>2, <1>3, <2>1, CurrentMoved
<1>5. ~gap' /\ ~gone' => TextsKept'
  <2> SUFFICES ASSUME ~gap', ~gone', NEW i \in AllIds \ unsaved', typed'[i] # "" PROVE TextKept(i)'
    BY DEF TextsKept
  <2>1. i \notin unsaved /\ typed'[i] = typed[i]
    BY DEF QuietStep
  <2>2. TextKept(i)
    BY <1>1, <2>1 DEF PageInv, TextsKept
  <2> QED
    BY <1>1, <1>2, <1>3, <2>1, <2>2, TextMoved
<1>6. ~strayed' /\ ~gone' => CardKept'
  <2> SUFFICES ASSUME ~strayed', ~gone' PROVE CardKept'
    OBVIOUS
  <2>1. CardKept
    BY <1>1 DEF PageInv
  <2>2. ~card.polling => draftings'[cardJob] = "ended"
    BY <1>1, <2>1 DEF CardKept
  <2> QED
    BY <1>1, <1>2, <1>3, <2>1, <2>2, CardMoved
<1> QED
  BY <1>1, <1>4, <1>5, <1>6 DEF PageInv

LEMMA SendKeeps == ASSUME PageInv, NEW r, Sends(r) PROVE PageInv'
<1>1. /\ PageTypes' /\ PageTypes /\ r \in KnownReq /\ asked' = Append(asked, r)
      /\ UNCHANGED <<row, opened, draftings, cardJob, card, typed, gone, strayed>>
      /\ r \notin LoadReq /\ (r \in JobReq => r.job = cardJob /\ ~r.done)
  BY DEF Sends, PageInv
<1>7. ~gap' => ~gap
  BY DEF Sends
<1>8. ~gap' => \A i \in AllIds : \/ i \in unsaved' \/ typed[i] = "" \/ r \in Saving(i)
                                \/ (i \notin unsaved /\ r \notin SavesOf(i))
  BY DEF Sends
<1>2. asked \in Seq(PageReq) /\ r \in PageReq
  BY <1>1, AskedTypes
<1> DEFINE t == <<r>>
<1>3. t \in Seq(PageReq) /\ Moved(asked', asked, 0, t) /\ asked' \in Seq(PageReq) /\ \A k \in 1 .. Len(t) : t[k] = r
  BY <1>1, <1>2, SentMoved
<1> HIDE DEF t
<1>4. ~gap' /\ ~gone' /\ Exists' => Current'
  <2> SUFFICES ASSUME ~gap', ~gone', Exists' PROVE Current'
    OBVIOUS
  <2>1. Current
    BY <1>1, <1>7 DEF PageInv, Exists
  <2>2. \A k \in 1 .. Len(t) : t[k] \notin LoadReq
    BY <1>1, <1>3
  <2> QED
    BY <1>1, <1>2, <1>3, <2>1, <2>2, CurrentMoved
<1>5. ~gap' /\ ~gone' => TextsKept'
  <2> SUFFICES ASSUME ~gap', ~gone', NEW i \in AllIds \ unsaved', typed'[i] # "" PROVE TextKept(i)'
    BY DEF TextsKept
  <2>1. ~gap /\ ~gone /\ typed'[i] = typed[i] /\ (r \in Saving(i) \/ (i \notin unsaved /\ r \notin SavesOf(i)))
    BY <1>1, <1>7, <1>8
  <2>2. CASE r \in Saving(i)
    BY <1>1, <1>2, <2>1, <2>2, TextSent
  <2>3. CASE i \notin unsaved /\ r \notin SavesOf(i)
    <3>1. TextKept(i)
      BY <2>1, <2>3 DEF PageInv, TextsKept
    <3>2. \A k \in 1 .. Len(t) : t[k] \notin SavesOf(i)
      BY <1>3, <2>3
    <3> QED
      BY <1>1, <1>2, <1>3, <2>1, <3>1, <3>2, TextMoved
  <2> QED
    BY <2>1, <2>2, <2>3
<1>6. ~strayed' /\ ~gone' => CardKept'
  <2> SUFFICES ASSUME ~strayed', ~gone' PROVE CardKept'
    OBVIOUS
  <2>1. CardKept
    BY <1>1 DEF PageInv
  <2>2. ~card.polling => draftings'[cardJob] = "ended"
    BY <1>1, <2>1 DEF CardKept
  <2>3. \A k \in 1 .. Len(t) : t[k] \in OwnPoll
    BY <1>1, <1>2, <1>3 DEF OwnPoll
  <2> QED
    BY <1>1, <1>2, <1>3, <2>1, <2>2, <2>3, CardMoved
<1> QED
  BY <1>1, <1>4, <1>5, <1>6 DEF PageInv

LEMMA DraftingKeeps == ASSUME PageInv, NEW j \in 1 .. Len(draftings), DraftingEnds(j) PROVE PageInv'
<1>1. /\ PageTypes /\ draftings' = [draftings EXCEPT ![j] = "ended"]
      /\ UNCHANGED <<row, opened, boxes, picking, carding, asked, gone, gap, strayed, pageActs, pageFaults>>
  BY DEF DraftingEnds, PageInv
<1>2. UNCHANGED <<typed, unsaved, previews, dialog, chosen, adding, cardJob, card>>
  BY <1>1 DEF boxes, picking, carding
<1>3. draftings \in Seq({"open", "ended"}) /\ Len(draftings) \in Nat /\ asked \in Seq(PageReq) /\ asked \in Seq(KnownReq)
  BY <1>1, AskedTypes
<1>4. /\ draftings' \in Seq({"open", "ended"}) /\ Len(draftings') = Len(draftings)
      /\ \A k \in 1 .. Len(draftings) : draftings[k] = "ended" => draftings'[k] = "ended"
  <2>1. "ended" \in {"open", "ended"}
    OBVIOUS
  <2>2. /\ [draftings EXCEPT ![j] = "ended"] \in Seq({"open", "ended"}) /\ Len([draftings EXCEPT ![j] = "ended"]) = Len(draftings)
        /\ \A k \in 1 .. Len(draftings) : [draftings EXCEPT ![j] = "ended"][k] = IF k = j THEN "ended" ELSE draftings[k]
    BY <1>3, <2>1, ExceptSeq
  <2> QED
    BY <1>1, <2>2
<1>5. KnownReq \subseteq KnownReq'
  <2>1. CampRowTypes /\ JobTypes
    BY <1>1 DEF PageTypes
  <2>2. row'.texts \in Seq(Texts) /\ Len(row.texts) <= Len(row'.texts)
    BY <1>1, AskedTypes
  <2>3. Len(draftings) <= Len(draftings')
    BY <1>3, <1>4
  <2> QED
    BY <1>2, <1>4, <2>1, <2>2, <2>3, KnownGrows
<1>6. PageTypes'
  <2>1. CampRowTypes' /\ DialogTypes'
    BY <1>1, <1>2 DEF PageTypes, CampRowTypes, DialogTypes
  <2>2. JobTypes'
    BY <1>1, <1>2, <1>4 DEF PageTypes, JobTypes
  <2>3. BoxTypes'
    BY <1>1, BoxesKept
  <2>4. asked' \in Seq(KnownReq')
    BY <1>1, <1>3, <1>5
  <2>5. StepsBounded'
    BY <1>1 DEF PageTypes, StepsBounded, NewSteps
  <2> QED
    BY <2>1, <2>2, <2>3, <2>4, <2>5 DEF PageTypes
<1>7. Exists' = Exists /\ Current' = Current /\ TextsKept' = TextsKept
  BY <1>1, <1>2 DEF Exists, Current, TextsKept, TextKept, SavesOf, Saving, Reloads, BringsRow
<1>8. ~strayed' /\ ~gone' => CardKept'
  <2> SUFFICES ASSUME CardKept PROVE CardKept'
    BY <1>1 DEF PageInv
  <2>1. ~card.polling => cardJob \in 1 .. Len(draftings)
    <3>1. cardJob \in 0 .. Len(draftings)
      BY <1>1 DEF PageTypes, JobTypes
    <3>2. ~card.polling => cardJob # 0
      BY DEF CardKept
    <3> QED
      BY <1>3, <3>1, <3>2
  <2>2. ~card.polling => draftings'[cardJob] = "ended"
    BY <1>4, <2>1 DEF CardKept
  <2> QED
    BY <1>1, <1>2, <2>2, SetsSame DEF CardKept
<1> QED
  BY <1>1, <1>6, <1>7, <1>8 DEF PageInv

-----------------------------------------------------------------------------
(* Answers.                                                                *)

LEMMA RestForms ==
    ASSUME asked \in Seq(PageReq), NEW n \in 1 .. Len(asked)
    PROVE  /\ Rest(n) = RemoveAt(asked, n) \o <<>> /\ Rest(n) \in Seq(PageReq)
           /\ \A r \in PageReq : Append(Rest(n), r) = RemoveAt(asked, n) \o <<r>>
<1>1. RemoveAt(asked, n) \in Seq(PageReq)
  BY Removed
<1>2. RemoveAt(asked, n) \o <<>> = RemoveAt(asked, n)
  BY <1>1, ConcatEmptySeq
<1>3. \A r \in PageReq : Append(RemoveAt(asked, n), r) = RemoveAt(asked, n) \o <<r>>
  BY <1>1, AppendIsConcat
<1> QED
  BY <1>1, <1>2, <1>3 DEF Rest

(* The page takes the answer at n and sends t.                             *)
Takes(n, t) ==
  /\ PageTypes /\ PageTypes' /\ n \in 1 .. Len(asked)
  /\ asked \in Seq(PageReq) /\ asked' \in Seq(PageReq) /\ t \in Seq(PageReq) /\ Moved(asked', asked, n, t) /\ n # 0
  /\ UNCHANGED <<row, draftings, typed, unsaved, gone>>
  /\ \A k \in 1 .. Len(t) : t[k] \notin SaveReq

LEMMA PlainAnswers ==
    ASSUME PageTypes, NEW n \in 1 .. Len(asked), NEW t, t = <<>> \/ t = <<Load>>, asked' = RemoveAt(asked, n) \o t,
           UNCHANGED <<row, draftings, cardJob, typed, unsaved, gone, pageActs>>, CampRowTypes', JobTypes', BoxTypes', DialogTypes'
    PROVE  Takes(n, t)
<1>1. asked \in Seq(PageReq) /\ Len(asked) \in Nat
  BY AskedTypes
<1>2. \A k \in 1 .. Len(t) : t[k] = Load
  OBVIOUS
<1>3. KnownReq' = KnownReq
  BY KnownSame
<1>4. t \in Seq(KnownReq')
  <2> DEFINE K == KnownReq
             l == Load
  <2>1. l \in K
    BY KnownMade
  <2> HIDE DEF K, l
  <2>2. <<>> \in Seq(K) /\ <<l>> \in Seq(K)
    BY <2>1
  <2>3. t \in Seq(K)
    BY <2>2 DEF l
  <2> QED
    BY <1>3, <2>3 DEF K
<1>5. Load \notin StepReq /\ Load \notin SaveReq
  BY LoadBrings, ReqKinds
<1>6. \A k \in 1 .. Len(t) : t[k] \notin StepReq /\ t[k] \notin SaveReq
  BY <1>2, <1>5
<1>7. KnownReq \subseteq KnownReq'
  BY <1>3
<1>8. PageTypes' /\ Taken(asked', asked, n, t) /\ asked' \in Seq(PageReq) /\ t \in Seq(PageReq)
  BY <1>4, <1>6, <1>7, TakenTypes
<1>9. n # 0
  BY <1>1
<1> QED
  BY <1>1, <1>6, <1>8, <1>9 DEF Takes, Moved

LEMMA AnswerTexts ==
    ASSUME PageInv, NEW n, NEW t, Takes(n, t), ~gap' => ~gap, ~gap' => \A i \in AllIds : asked[n] \notin Saving(i)
    PROVE  ~gap' /\ ~gone' => TextsKept'
<1> SUFFICES ASSUME ~gap', ~gone', NEW i \in AllIds \ unsaved', typed'[i] # "" PROVE TextKept(i)'
  BY DEF TextsKept
<1>1. ~gap /\ ~gone /\ i \in AllIds \ unsaved /\ typed[i] # "" /\ asked[n] \notin Saving(i) /\ typed'[i] = typed[i] /\ row' = row
  BY DEF Takes
<1>2. TextKept(i)
  BY <1>1 DEF PageInv, TextsKept
<1>3. /\ asked \in Seq(PageReq) /\ asked' \in Seq(PageReq) /\ t \in Seq(PageReq) /\ Moved(asked', asked, n, t)
      /\ \A k \in 1 .. Len(t) : t[k] \notin SavesOf(i)
  BY DEF Takes, SavesOf
<1>4. n # 0 => asked[n] \notin Saving(i)
  BY <1>1
<1>5. row'.texts[i] \in {"", row.texts[i]}
  BY <1>1
<1> QED
  BY <1>1, <1>2, <1>3, <1>4, <1>5, TextMoved

LEMMA AnswerCurrent ==
    ASSUME PageInv, NEW n, NEW t, Takes(n, t), ~gap' => ~gap, opened' = opened,
           ~gap' => \/ LastSent(t, BringsRow', LoadReq)
                    \/ asked[n] \notin Reloads /\ asked[n] \notin LoadReq /\ \A k \in 1 .. Len(t) : t[k] \notin LoadReq
    PROVE  ~gap' /\ ~gone' /\ Exists' => Current'
<1> SUFFICES ASSUME ~gap', ~gone', Exists' PROVE Current'
  OBVIOUS
<1>1. ~gap /\ ~gone /\ Exists /\ row' = row
  BY DEF Takes, Exists
<1>2. Current
  BY <1>1 DEF PageInv
<1>3. asked \in Seq(PageReq) /\ asked' \in Seq(PageReq) /\ t \in Seq(PageReq) /\ Moved(asked', asked, n, t)
  BY DEF Takes
<1>4. CASE LastSent(t, BringsRow', LoadReq)
  BY <1>3, <1>4, CurrentLoads
<1>5. CASE asked[n] \notin Reloads /\ asked[n] \notin LoadReq /\ \A k \in 1 .. Len(t) : t[k] \notin LoadReq
  BY <1>1, <1>2, <1>3, <1>5, CurrentMoved
<1> QED
  BY <1>4, <1>5

LEMMA AnswerCard ==
    ASSUME PageInv, NEW n, NEW t, Takes(n, t), ~strayed' => ~strayed, UNCHANGED <<cardJob, card>>,
           \A k \in 1 .. Len(t) : t[k] \in OwnPoll
    PROVE  ~strayed' /\ ~gone' => CardKept'
<1> SUFFICES ASSUME ~strayed', ~gone' PROVE CardKept'
  OBVIOUS
<1>1. ~strayed /\ ~gone /\ draftings' = draftings
  BY DEF Takes
<1>2. CardKept
  BY <1>1 DEF PageInv
<1>3. asked \in Seq(PageReq) /\ asked' \in Seq(PageReq) /\ t \in Seq(PageReq) /\ Moved(asked', asked, n, t)
  BY DEF Takes
<1>4. ~card.polling => draftings'[cardJob] = "ended"
  BY <1>1, <1>2 DEF CardKept
<1> QED
  BY <1>2, <1>3, <1>4, CardMoved

(* An answer after which the page loads the campaign, or does not have to. *)
LEMMA AnswerKeeps ==
    ASSUME PageInv, NEW n, NEW t, Takes(n, t), UNCHANGED <<opened, cardJob, card>>, ~gap' => ~gap, ~strayed' => ~strayed,
           ~gap' => \A i \in AllIds : asked[n] \notin Saving(i),
           t = <<Load>> \/ (t = <<>> /\ (~gap' => asked[n] \notin Reloads /\ asked[n] \notin LoadReq))
    PROVE  PageInv'
<1>1. t = <<Load>> => LastSent(t, BringsRow', LoadReq)
  BY LoadBrings, OneSent
<1>2. t = <<>> => \A k \in 1 .. Len(t) : FALSE
  BY OneSent
<1>3. \A k \in 1 .. Len(t) : t[k] \in OwnPoll
  BY <1>2, LoadBrings, OneSent
<1>4. ~gap' /\ ~gone' /\ Exists' => Current'
  BY <1>1, <1>2, AnswerCurrent
<1>5. ~gap' /\ ~gone' => TextsKept'
  BY AnswerTexts
<1>6. ~strayed' /\ ~gone' => CardKept'
  BY <1>3, AnswerCard
<1>7. PageTypes'
  BY DEF Takes
<1> QED
  BY <1>4, <1>5, <1>6, <1>7 DEF PageInv

(* What has been answered is saved no more; what was refused, or is only   *)
(* asked for, changes nothing.                                             *)
LEMMA DoneSaves == ASSUME NEW r, r.done PROVE \A i : r \notin SavesOf(i) /\ r \notin Saving(i)
BY DEF SavesOf, Saving

LEMMA NotReloading ==
    ASSUME NEW r \in PageReq
    PROVE  /\ r.what \in {"load", "job"} => r \notin Reloads
           /\ r.what = "add" /\ r.leads \ (r.todo \cup r.failed) = {} => r \notin Reloads
           /\ r.what # "add" /\ ~(r.done /\ r.ok) => r \notin Reloads
           /\ r.what # "load" => r \notin LoadReq
           /\ r.what # "save" => r \notin SaveReq
<1>1. /\ r.what \in {"load", "job"} => r \notin AddReq /\ r \notin ChangeReq
      /\ r.what = "add" => r \notin ChangeReq
      /\ r.what # "add" => r \notin AddReq
      /\ r.what # "load" => r \notin LoadReq
      /\ r.what # "save" => r \notin SaveReq
  BY ReqKinds
<1> QED
  BY <1>1 DEF Reloads

LEMMA ChangedKeeps == ASSUME PageInv, NEW n \in 1 .. Len(asked), Changed(n) PROVE PageInv'
<1> DEFINE r == asked[n]
<1>1. /\ PageTypes /\ asked \in Seq(PageReq) /\ r \in PageReq
  BY AskedTypes DEF PageInv
<1>2. /\ UNCHANGED <<row, draftings, opened, typed, unsaved, picking, carding, gone, gap, strayed, pageActs, pageFaults>>
      /\ asked' = IF r.ok THEN Append(Rest(n), Load) ELSE Rest(n)
  BY DEF Changed
<1>3. r.done /\ r.what \in {"newstep", "delstep", "remove", "save"}
  BY DEF Changed, Arrives
<1>4. UNCHANGED <<dialog, chosen, adding, cardJob, card>>
  BY <1>2 DEF picking, carding
<1>5. BoxTypes'
  <2>1. r.what = "save" => r \in SaveReq
    BY <1>1, ReqKinds
  <2>2. previews' \in [AllIds -> Texts]
    <3>1. previews \in [AllIds -> Texts] /\ "" \in Texts
      BY <1>1 DEF PageTypes, BoxTypes, Texts
    <3> QED
      BY <3>1 DEF Changed
  <2>3. Ids' = Ids
    BY <1>2 DEF Ids
  <2> QED
    BY <1>1, <1>2, <2>2, <2>3 DEF PageTypes, BoxTypes
<1>6. CampRowTypes' /\ JobTypes' /\ DialogTypes'
  BY <1>1, <1>2, <1>4 DEF PageTypes, CampRowTypes, JobTypes, DialogTypes
<1> DEFINE t == IF r.ok THEN <<Load>> ELSE <<>>
<1>7. asked' = RemoveAt(asked, n) \o t /\ (t = <<>> \/ t = <<Load>>) /\ (r.ok => t = <<Load>>) /\ (~r.ok => t = <<>>)
  BY <1>1, <1>2, RestForms, LoadBrings
<1> HIDE DEF t
<1>8. Takes(n, t)
  BY <1>1, <1>2, <1>4, <1>5, <1>6, <1>7, PlainAnswers
<1>9. \A i \in AllIds : r \notin Saving(i)
  BY <1>3, DoneSaves
<1>10. ~r.ok => r \notin Reloads /\ r \notin LoadReq
  BY <1>1, <1>3, NotReloading
<1>11. t = <<Load>> \/ (t = <<>> /\ (~gap' => r \notin Reloads /\ r \notin LoadReq))
  BY <1>7, <1>10
<1>12. UNCHANGED <<opened, cardJob, card>> /\ (~gap' => ~gap) /\ (~strayed' => ~strayed)
  BY <1>2, <1>4
<1> QED
  BY <1>8, <1>9, <1>11, <1>12, AnswerKeeps

LEMMA LostKeeps == ASSUME PageInv, NEW n \in 1 .. Len(asked), RequestLost(n) PROVE PageInv'
<1> DEFINE r == asked[n]
<1>1. /\ PageTypes /\ asked \in Seq(PageReq) /\ r \in PageReq
  BY AskedTypes DEF PageInv
<1>2. /\ UNCHANGED <<row, draftings, opened, typed, unsaved, picking, carding, gone, strayed, pageActs>>
      /\ asked' = Rest(n) /\ r.what # "add" /\ pageFaults < MaxPageFaults /\ pageFaults' = pageFaults + 1
  BY DEF RequestLost, PageFault
<1>3. gap' = (gap \/ CASE r.what = "load" -> TRUE
                       [] r.what = "save" -> r.done \/ r.from = "box"
                       [] r.what = "job" -> FALSE
                       [] OTHER -> r.done)
  BY DEF RequestLost
<1>4. UNCHANGED <<dialog, chosen, adding, cardJob, card>>
  BY <1>2 DEF picking, carding
<1>5. BoxTypes'
  <2>2. previews' \in [AllIds -> Texts]
    <3>1. previews \in [AllIds -> Texts] /\ "" \in Texts
      BY <1>1 DEF PageTypes, BoxTypes, Texts
    <3> QED
      BY <3>1 DEF RequestLost
  <2>3. Ids' = Ids
    BY <1>2 DEF Ids
  <2> QED
    BY <1>1, <1>2, <2>2, <2>3 DEF PageTypes, BoxTypes
<1>6. gap' \in BOOLEAN /\ (~gap' => ~gap)
  <2>1. gap \in BOOLEAN /\ r.done \in BOOLEAN
    BY <1>1, ReqKinds DEF PageTypes, DialogTypes
  <2> QED
    BY <1>3, <2>1
<1>7. CampRowTypes' /\ JobTypes' /\ DialogTypes'
  <2>1. pageFaults' \in 0 .. MaxPageFaults
    <3>1. pageFaults \in 0 .. MaxPageFaults /\ MaxPageFaults \in Nat
      BY <1>1, PageAssumption DEF PageTypes, DialogTypes
    <3> QED
      BY <1>2, <3>1
  <2> QED
    BY <1>1, <1>2, <1>4, <1>6, <2>1 DEF PageTypes, CampRowTypes, JobTypes, DialogTypes
<1>8. asked' = RemoveAt(asked, n) \o <<>>
  BY <1>1, <1>2, RestForms
<1>9. Takes(n, <<>>)
  BY <1>1, <1>2, <1>4, <1>5, <1>7, <1>8, PlainAnswers
<1>10. ASSUME ~gap' PROVE r \notin Reloads /\ r \notin LoadReq /\ \A i \in AllIds : r \notin Saving(i)
  <2>1. r.what # "load" /\ (r.what = "save" => ~r.done /\ r.from # "box") /\ (r.what # "job" => ~r.done)
    BY <1>3, <1>10
  <2>2. r \notin Reloads /\ r \notin LoadReq /\ (r.what # "save" => r \notin SaveReq)
    BY <1>1, <1>2, <2>1, NotReloading
  <2>3. \A i \in AllIds : r \notin Saving(i)
    BY <2>1, <2>2 DEF Saving, SavesOf
  <2> QED
    BY <2>2, <2>3
<1>11. UNCHANGED <<opened, cardJob, card>> /\ (~strayed' => ~strayed)
  BY <1>2, <1>4
<1> QED
  BY <1>6, <1>9, <1>10, <1>11, AnswerKeeps

LEMMA LeadsAddedKeeps == ASSUME PageInv, NEW n \in 1 .. Len(asked), LeadsAdded(n) PROVE PageInv'
<1> DEFINE r == asked[n]
<1>1. /\ PageTypes /\ asked \in Seq(PageReq) /\ r \in PageReq /\ r \in KnownReq
  BY AskedTypes DEF PageInv
<1>2. /\ UNCHANGED <<row, draftings, opened, boxes, carding, gone, strayed, pageActs, pageFaults>>
      /\ r.what = "add" /\ r.done /\ adding' = FALSE
  BY DEF LeadsAdded, Arrives
<1>3. \/ r.failed = {} /\ dialog' = "none" /\ chosen' = {} /\ asked' = Append(Rest(n), Load) /\ gap' = gap
      \/ asked' = Rest(n) /\ gap' = (gap \/ r.failed # r.leads) /\ UNCHANGED <<dialog, chosen>>
  BY DEF LeadsAdded
<1>4. UNCHANGED <<typed, unsaved, previews, cardJob, card>>
  BY <1>2 DEF boxes, carding
<1>5. BoxTypes'
  BY <1>1, <1>2, BoxesKept
<1>6. gap' \in BOOLEAN /\ (~gap' => ~gap)
  BY <1>1, <1>3 DEF PageTypes, DialogTypes
<1>7. CampRowTypes' /\ JobTypes' /\ DialogTypes'
  BY <1>1, <1>2, <1>3, <1>4, <1>6 DEF PageTypes, CampRowTypes, JobTypes, DialogTypes
<1>8. \A i \in AllIds : r \notin Saving(i)
  BY <1>2, DoneSaves
<1>9. UNCHANGED <<opened, cardJob, card>> /\ (~strayed' => ~strayed)
  BY <1>2, <1>4
<1>10. CASE r.failed = {} /\ asked' = Append(Rest(n), Load)
  <2>1. asked' = RemoveAt(asked, n) \o <<Load>>
    BY <1>1, <1>10, RestForms, LoadBrings
  <2>2. Takes(n, <<Load>>)
    BY <1>1, <1>2, <1>4, <1>5, <1>7, <2>1, PlainAnswers
  <2> QED
    BY <1>6, <1>8, <1>9, <2>2, AnswerKeeps
<1>11. CASE asked' = Rest(n) /\ gap' = (gap \/ r.failed # r.leads)
  <2>1. asked' = RemoveAt(asked, n) \o <<>>
    BY <1>1, <1>11, RestForms
  <2>2. Takes(n, <<>>)
    BY <1>1, <1>2, <1>4, <1>5, <1>7, <2>1, PlainAnswers
  <2>3. ~gap' => r.leads \ (r.todo \cup r.failed) = {}
    BY <1>11
  <2>4. ~gap' => r \notin Reloads /\ r \notin LoadReq
    BY <1>1, <1>2, <2>3, NotReloading
  <2> QED
    BY <1>6, <1>8, <1>9, <2>2, <2>4, AnswerKeeps
<1> QED
  BY <1>3, <1>10, <1>11

LEMMA DeletedKeeps == ASSUME PageInv, NEW n \in 1 .. Len(asked), Deleted(n) PROVE PageInv'
<1> DEFINE r == asked[n]
<1>1. /\ PageTypes /\ asked \in Seq(PageReq) /\ r \in PageReq /\ r \in KnownReq
  BY AskedTypes DEF PageInv
<1>2. /\ UNCHANGED <<row, draftings, opened, boxes, picking, carding, gap, strayed, pageActs, pageFaults>>
      /\ r.what = "delete" /\ r.done /\ ~gone /\ gone' = r.ok /\ asked' = IF r.ok THEN <<>> ELSE Rest(n)
  BY DEF Deleted, Arrives
<1>4. UNCHANGED <<typed, unsaved, previews, dialog, chosen, adding, cardJob, card>>
  BY <1>2 DEF boxes, carding, picking
<1>5. BoxTypes'
  BY <1>1, <1>2, BoxesKept
<1>6. gone' \in BOOLEAN
  BY <1>1, <1>2, ReqKinds
<1>7. CampRowTypes' /\ JobTypes' /\ DialogTypes'
  BY <1>1, <1>2, <1>4, <1>6 DEF PageTypes, CampRowTypes, JobTypes, DialogTypes
<1>8. CASE ~r.ok
  <2>1. asked' = RemoveAt(asked, n) \o <<>>
    BY <1>1, <1>2, <1>8, RestForms
  <2>2. gone' = gone
    BY <1>1, <1>2, <1>6, <1>8 DEF PageTypes, DialogTypes
  <2>3. Takes(n, <<>>)
    BY <1>1, <1>2, <1>4, <1>5, <1>7, <2>1, <2>2, PlainAnswers
  <2>4. r \notin Reloads /\ r \notin LoadReq /\ \A i \in AllIds : r \notin Saving(i)
    BY <1>1, <1>2, <1>8, NotReloading, DoneSaves
  <2>5. UNCHANGED <<opened, cardJob, card>> /\ (~strayed' => ~strayed) /\ (~gap' => ~gap)
    BY <1>2, <1>4
  <2> QED
    BY <2>3, <2>4, <2>5, AnswerKeeps
<1>9. CASE r.ok
  <2>1. asked' = <<>> /\ gone'
    BY <1>2, <1>9
  <2>2. asked' \in Seq(KnownReq')
    BY <2>1
  <2>3. NewSteps(asked') = {}
    BY <2>1 DEF NewSteps
  <2>4. Cardinality(NewSteps(asked')) = 0
    BY <2>3, FS_EmptySet
  <2>5. StepsBounded'
    <3>1. asked' \in Seq(PageReq)
      BY <2>1
    <3>2. pageActs \in Nat /\ Cardinality(NewSteps(asked)) \in Nat
      BY <1>1, AskedTypes
    <3>3. Cardinality(NewSteps(asked')) <= Cardinality(NewSteps(asked)) + (pageActs' - pageActs)
      BY <1>2, <2>4, <3>2
    <3> QED
      BY <1>1, <1>2, <3>1, <3>2, <3>3, StepsKept
  <2>6. PageTypes'
    BY <1>5, <1>7, <2>2, <2>5 DEF PageTypes
  <2> QED
    BY <2>1, <2>6 DEF PageInv
<1> QED
  BY <1>8, <1>9

LEMMA LoadedKeeps == ASSUME PageInv, NEW n \in 1 .. Len(asked), CampaignLoaded(n) PROVE PageInv'
<1> DEFINE r == asked[n]
<1>1. /\ PageTypes /\ asked \in Seq(PageReq) /\ r \in PageReq /\ r \in KnownReq /\ r \in LoadReq
  BY AskedTypes, ReqKinds DEF PageInv, CampaignLoaded, Arrives
<1>2. /\ UNCHANGED <<row, draftings, boxes, picking, carding, gone, strayed, pageActs, pageFaults>>
      /\ r.what = "load" /\ r.done /\ asked' = Rest(n) /\ opened' = (IF r.ok THEN r.read ELSE opened)
      /\ gap' = (gap \/ LoadsCross(n))
  BY DEF CampaignLoaded, Arrives
<1>4. UNCHANGED <<typed, unsaved, previews, dialog, chosen, adding, cardJob, card>>
  BY <1>2 DEF boxes, carding, picking
<1>5. BoxTypes'
  BY <1>1, <1>2, BoxesKept
<1>6. gap' \in BOOLEAN /\ (~gap' => ~gap /\ ~LoadsCross(n))
  BY <1>1, <1>2 DEF PageTypes, DialogTypes, LoadsCross
<1>7. CampRowTypes'
  <2>1. r.read \in ShownRows /\ Len(r.read.texts) <= Len(row.texts)
    BY <1>1 DEF KnownReq, LoadReq
  <2> QED
    BY <1>1, <1>2, <2>1 DEF PageTypes, CampRowTypes
<1>8. JobTypes' /\ DialogTypes'
  BY <1>1, <1>2, <1>4, <1>6 DEF PageTypes, JobTypes, DialogTypes
<1>9. asked' = RemoveAt(asked, n) \o <<>>
  BY <1>1, <1>2, RestForms
<1>10. Takes(n, <<>>)
  BY <1>1, <1>2, <1>4, <1>5, <1>7, <1>8, <1>9, PlainAnswers
<1>11. \A i \in AllIds : r \notin Saving(i)
  BY <1>2, DoneSaves
<1>12. ~gap' /\ ~gone' => TextsKept'
  BY <1>6, <1>10, <1>11, AnswerTexts
<1>13. ~strayed' /\ ~gone' => CardKept'
  <2>1. \A k \in 1 .. Len(<<>>) : <<>>[k] \in OwnPoll
    BY OneSent
  <2>2. UNCHANGED <<cardJob, card>> /\ (~strayed' => ~strayed)
    BY <1>2, <1>4
  <2> QED
    BY <1>10, <2>1, <2>2, AnswerCard
<1>14. ~gap' /\ ~gone' /\ Exists' => Current'
  <2> SUFFICES ASSUME ~gap', ~gone', Exists' PROVE Current'
    OBVIOUS
  <2>1. ~gap /\ ~LoadsCross(n) /\ Current
    BY <1>2, <1>6 DEF PageInv, Exists
  <2>2. Reloads' = Reloads /\ BringsRow' = BringsRow /\ row' = row
    BY <1>2, SetsSame
  <2> DEFINE u == asked'
             t == <<>>
  <2>3. u \in Seq(PageReq) /\ t \in Seq(PageReq) /\ \A k \in 1 .. Len(t) : FALSE
    BY <1>10, OneSent DEF Takes
  <2>4. Taken(u, asked, n, t) /\ Moved(u, asked, n, t)
    <3>1. Len(asked) \in Nat
      BY <1>1, AskedTypes
    <3>2. n # 0
      BY <3>1
    <3> QED
      BY <1>10, <3>2 DEF Takes, Moved
  <2> HIDE DEF u, t
  <2>5. r \notin Reloads
    BY <1>1, <1>2, NotReloading
  <2>6. OnTheWay(asked, Reloads) => OnTheWay(u, Reloads)
    BY <1>1, <2>3, <2>4, <2>5, TakenHolds
  <2>7. OnTheWay(asked, LoadReq)
    BY <1>1 DEF OnTheWay
  <2>8. \A m \in 1 .. n - 1 : asked[m] \notin LoadReq
    <3> SUFFICES ASSUME NEW m \in 1 .. n - 1 PROVE asked[m] \notin LoadReq
      OBVIOUS
    <3>1. Len(asked) \in Nat /\ \A k \in 1 .. Len(asked) : asked[k] \in PageReq
      BY <1>1, AskedTypes
    <3>2. asked[m] \in PageReq
      BY <3>1
    <3>3. asked[m].what # "load"
      BY <2>1 DEF LoadsCross
    <3> QED
      BY <3>2, <3>3, ReqKinds
  <2>9. LastSent(asked, BringsRow, LoadReq) => LastSent(u, BringsRow, LoadReq) \/ (r \in BringsRow /\ ~OnTheWay(u, LoadReq))
    <3> DEFINE P == BringsRow
               Q == LoadReq
    <3>1. P \subseteq Q
      BY DEF BringsRow
    <3>2. \A m \in 1 .. n - 1 : asked[m] \notin Q
      BY <2>8
    <3>3. \A k \in 1 .. Len(t) : t[k] \notin Q
      BY <2>3
    <3> HIDE DEF P, Q
    <3>4. LastSent(asked, P, Q) => LastSent(u, P, Q) \/ (asked[n] \in P /\ ~OnTheWay(u, Q))
      BY <1>1, <2>3, <2>4, <3>1, <3>2, <3>3, FirstTaken
    <3> QED
      BY <3>4 DEF P, Q
  <2>10. r \in BringsRow => opened' = row'
    BY <1>2, <2>2 DEF BringsRow
  <2>11. OnTheWay(u, Reloads') \/ LastSent(u, BringsRow', LoadReq) \/ (~OnTheWay(u, LoadReq) /\ opened' = row')
    BY <2>1, <2>2, <2>6, <2>7, <2>9, <2>10 DEF Current
  <2> QED
    BY <2>11 DEF Current, u
<1> QED
  BY <1>10, <1>12, <1>13, <1>14 DEF PageInv, Takes

LEMMA AskKnown ==
    ASSUME NEW j \in 1 .. Len(draftings'), Len(draftings') \in Nat, cardJob' # 0
    PROVE  AskJob(j) \in KnownReq'
<1> DEFINE r == AskJob(j)
<1>1. j \in Nat
  OBVIOUS
<1>2. r \in JobReq /\ ~r.done /\ r.job = j /\ r.read = "" /\ r.what = "job"
  BY <1>1, AskMade DEF AskJob
<1> HIDE DEF r
<1>3. r \in PageReq
  BY <1>2 DEF PageReq
<1>4. r \notin LoadReq /\ r \notin StatusReq /\ r \notin ChangeReq /\ r \notin SaveReq /\ r \notin AddReq
  BY <1>2, <1>3, ReqKinds
<1>5. r \in KnownReq'
  BY <1>2, <1>3, <1>4 DEF KnownReq
<1> QED
  BY <1>5 DEF r

(* The card's polls, when none is under way but those that t has.          *)
LEMMA CardAsks ==
    ASSUME NEW n, NEW t, Takes(n, t), \A m \in 1 .. Len(asked) : m # n => asked[m] \notin JobReq,
           \A k \in 1 .. Len(t) : t[k] \in JobReq => t[k].job = cardJob' /\ ~t[k].done
    PROVE  \A m \in 1 .. Len(asked') : asked'[m] \in OwnPoll'
<1> DEFINE u == asked'
           P == OwnPoll'
<1>1. u \in Seq(PageReq) /\ asked \in Seq(PageReq) /\ t \in Seq(PageReq) /\ Moved(u, asked, n, t)
  BY DEF Takes
<1>2. \A m \in 1 .. Len(asked) : m # n => asked[m] \in P
  BY <1>1 DEF OwnPoll
<1>3. \A k \in 1 .. Len(t) : t[k] \in P
  BY <1>1 DEF OwnPoll
<1> HIDE DEF u, P
<1>4. \A m \in 1 .. Len(u) : u[m] \in P
  BY <1>1, <1>2, <1>3, MovedAll
<1> QED
  BY <1>4 DEF u, P

LEMMA StatusKeeps == ASSUME PageInv, NEW n \in 1 .. Len(asked), updateStatus(n) PROVE PageInv'
<1> DEFINE r == asked[n]
<1>1. /\ PageTypes /\ asked \in Seq(PageReq) /\ r \in PageReq /\ r \in KnownReq /\ r \in StatusReq
  BY AskedTypes, ReqKinds DEF PageInv, updateStatus, Arrives
<1>2. /\ UNCHANGED <<row, draftings, opened, boxes, picking, card, gone, gap, pageActs, pageFaults>>
      /\ r.what = "status" /\ r.done
  BY DEF updateStatus, Arrives
<1>3. \/ /\ r.ok /\ r.job # 0 /\ r.job # cardJob /\ cardJob' = r.job /\ strayed' = (strayed \/ Busy)
         /\ asked' = Rest(n) \o <<Load, AskJob(r.job)>>
      \/ asked' = (IF r.ok THEN Append(Rest(n), Load) ELSE Rest(n)) /\ UNCHANGED <<cardJob, strayed>>
  BY DEF updateStatus
<1>4. UNCHANGED <<typed, unsaved, previews, dialog, chosen, adding>>
  BY <1>2 DEF boxes, picking
<1>5. BoxTypes'
  BY <1>1, <1>2, BoxesKept
<1>6. CampRowTypes'
  BY <1>1, <1>2 DEF PageTypes, CampRowTypes
<1>7. \A i \in AllIds : r \notin Saving(i)
  BY <1>2, DoneSaves
<1>8. CASE asked' = (IF r.ok THEN Append(Rest(n), Load) ELSE Rest(n)) /\ UNCHANGED <<cardJob, strayed>>
  <2>1. JobTypes' /\ DialogTypes'
    BY <1>1, <1>2, <1>4, <1>8 DEF PageTypes, JobTypes, DialogTypes
  <2> DEFINE t == IF r.ok THEN <<Load>> ELSE <<>>
  <2>2. asked' = RemoveAt(asked, n) \o t /\ (t = <<>> \/ t = <<Load>>) /\ (r.ok => t = <<Load>>) /\ (~r.ok => t = <<>>)
    BY <1>1, <1>8, RestForms, LoadBrings
  <2> HIDE DEF t
  <2>3. Takes(n, t)
    BY <1>1, <1>2, <1>4, <1>5, <1>6, <1>8, <2>1, <2>2, PlainAnswers
  <2>4. ~r.ok => r \notin Reloads /\ r \notin LoadReq
    BY <1>1, <1>2, NotReloading
  <2>5. t = <<Load>> \/ (t = <<>> /\ (~gap' => r \notin Reloads /\ r \notin LoadReq))
    BY <2>2, <2>4
  <2>6. UNCHANGED <<opened, cardJob, card>> /\ (~gap' => ~gap) /\ (~strayed' => ~strayed)
    BY <1>2, <1>8
  <2> QED
    BY <1>7, <2>3, <2>5, <2>6, AnswerKeeps
<1>9. CASE /\ r.ok /\ r.job # 0 /\ r.job # cardJob /\ cardJob' = r.job /\ strayed' = (strayed \/ Busy)
           /\ asked' = Rest(n) \o <<Load, AskJob(r.job)>>
  <2> DEFINE a == AskJob(r.job)
             t == <<Load, a>>
  <2>1. Len(draftings) \in Nat /\ r.job \in 1 .. Len(draftings) /\ r.job \in Nat /\ draftings' = draftings
    <3>1. r.job \in 0 .. Len(draftings)
      BY <1>1 DEF KnownReq
    <3>2. Len(draftings) \in Nat
      BY <1>1, AskedTypes
    <3> QED
      BY <1>2, <1>9, <3>1, <3>2
  <2>2. KnownReq \subseteq KnownReq'
    <3>1. CampRowTypes /\ JobTypes /\ row.texts \in Seq(Texts) /\ Len(row.texts) \in Nat /\ draftings \in Seq({"open", "ended"})
      BY <1>1, AskedTypes DEF PageTypes
    <3>2. row'.texts \in Seq(Texts) /\ Len(row.texts) <= Len(row'.texts)
      BY <1>2, <3>1
    <3>3. Len(draftings) <= Len(draftings') /\ cardJob' # 0
      BY <1>9, <2>1
    <3> QED
      BY <2>1, <3>1, <3>2, <3>3, KnownGrows
  <2>3. a \in KnownReq' /\ Load \in KnownReq'
    BY <1>1, <1>9, <2>1, <2>2, AskKnown, KnownMade
  <2>4. a \in JobReq /\ ~a.done /\ a.job = r.job
    BY <2>1, AskMade
  <2>5. a \in PageReq
    BY <2>4 DEF PageReq
  <2> HIDE DEF a
  <2>6. Load \in LoadReq /\ Load \in PageReq /\ Load \in BringsRow' /\ Load \notin SaveReq
    BY LoadBrings
  <2>7. a \notin StepReq /\ a \notin SaveReq /\ a \notin LoadReq /\ Load \notin StepReq /\ Load \notin JobReq
    BY <2>4, <2>5, <2>6, ReqKinds
  <2>8. t \in Seq(KnownReq')
    <3> DEFINE K == KnownReq'
               l == Load
    <3>1. a \in K /\ l \in K
      BY <2>3
    <3> HIDE DEF K, l
    <3>2. <<l, a>> \in Seq(K)
      BY <3>1
    <3> QED
      BY <3>2 DEF K, l
  <2>9. \A k \in 1 .. Len(t) : t[k] = Load \/ t[k] = a
    BY TwoSent
  <2>10. LastSent(t, BringsRow', LoadReq)
    BY <2>6, <2>7, TwoSent
  <2> HIDE DEF t
  <2>11. \A k \in 1 .. Len(t) : t[k] \notin StepReq /\ t[k] \notin SaveReq
    BY <2>6, <2>7, <2>9
  <2>12. asked' = RemoveAt(asked, n) \o t
    BY <1>9 DEF Rest, t, a
  <2>13. strayed' \in BOOLEAN
    BY <1>1, <1>9 DEF PageTypes, DialogTypes, Busy
  <2>14. JobTypes' /\ DialogTypes'
    <3>1. cardJob' \in 0 .. Len(draftings')
      BY <1>9, <2>1
    <3> QED
      BY <1>1, <1>2, <1>4, <2>13, <3>1 DEF PageTypes, JobTypes, DialogTypes
  <2>15. PageTypes' /\ Taken(asked', asked, n, t) /\ asked' \in Seq(PageReq) /\ t \in Seq(PageReq)
    BY <1>1, <1>2, <1>5, <1>6, <2>2, <2>8, <2>11, <2>12, <2>14, TakenTypes
  <2>16. Takes(n, t)
    <3>1. n # 0
      BY <1>1, AskedTypes
    <3> QED
      BY <1>1, <1>2, <1>4, <2>11, <2>15, <3>1 DEF Takes, Moved
  <2>17. ~gap' /\ ~gone' /\ Exists' => Current'
    BY <1>2, <2>10, <2>16, AnswerCurrent
  <2>18. ~gap' /\ ~gone' => TextsKept'
    BY <1>2, <1>7, <2>16, AnswerTexts
  <2>19. ~strayed' /\ ~gone' => CardKept'
    <3> SUFFICES ASSUME ~strayed', ~gone' PROVE CardKept'
      OBVIOUS
    <3>1. ~strayed /\ ~Busy /\ CardKept
      BY <1>2, <1>9, <2>13 DEF PageInv
    <3>2. card.polling
      BY <3>1 DEF Busy, CardKept
    <3>3. \A m \in 1 .. Len(asked) : asked[m] \notin JobReq
      <4> SUFFICES ASSUME NEW m \in 1 .. Len(asked), asked[m] \in JobReq PROVE FALSE
        OBVIOUS
      <4>1. asked[m] \in KnownReq /\ asked[m] \in PageReq
        BY <1>1, AskedTypes
      <4>2. asked[m].what = "job" /\ cardJob # 0
        BY <4>1, ReqKinds DEF KnownReq
      <4> QED
        BY <3>1, <4>2 DEF Busy
    <3>4. \A k \in 1 .. Len(t) : t[k] \in JobReq => t[k].job = cardJob' /\ ~t[k].done
      BY <1>9, <2>4, <2>7, <2>9
    <3>5. \A m \in 1 .. Len(asked') : asked'[m] \in OwnPoll'
      BY <2>16, <3>3, <3>4, CardAsks
    <3>6. card'.polling /\ cardJob' # 0
      BY <1>2, <1>9, <3>2
    <3> QED
      BY <3>5, <3>6 DEF CardKept
  <2> QED
    BY <2>15, <2>17, <2>18, <2>19 DEF PageInv
<1> QED
  BY <1>3, <1>8, <1>9

LEMMA JobToldKeeps == ASSUME PageInv, NEW n \in 1 .. Len(asked), JobTold(n) PROVE PageInv'
<1> DEFINE r == asked[n]
           ended == r.read = "ended"
<1>1. /\ PageTypes /\ asked \in Seq(PageReq) /\ r \in PageReq /\ r \in KnownReq /\ r \in JobReq
  BY AskedTypes, ReqKinds DEF PageInv, JobTold, Arrives
<1>2. /\ UNCHANGED <<row, draftings, opened, boxes, picking, cardJob, gone, gap, pageActs, pageFaults>>
      /\ r.what = "job" /\ r.done
      /\ card' = [shown |-> r.read, polling |-> card.polling /\ ~ended]
      /\ asked' = IF card.polling /\ ended THEN Append(Rest(n), AskJob(cardJob)) ELSE Rest(n)
  BY DEF JobTold, Arrives
<1>3. strayed' = (strayed \/ \E m \in 1 .. Len(asked) : m # n /\ asked[m].what = "job")
  BY DEF JobTold
<1>4. UNCHANGED <<typed, unsaved, previews, dialog, chosen, adding>>
  BY <1>2 DEF boxes, picking
<1>5. BoxTypes'
  BY <1>1, <1>2, BoxesKept
<1>6. CampRowTypes' /\ DialogTypes'
  BY <1>1, <1>2, <1>3, <1>4 DEF PageTypes, CampRowTypes, DialogTypes
<1>7. /\ r.read \in {"", "open", "ended"} /\ cardJob # 0 /\ (ended => draftings[r.job] = "ended")
      /\ card \in [shown : {"", "open", "ended"}, polling : BOOLEAN]
  BY <1>1 DEF PageTypes, JobTypes, KnownReq, JobReq
<1>8. card'.shown = r.read /\ card'.polling = (card.polling /\ ~ended) /\ card' \in [shown : {"", "open", "ended"}, polling : BOOLEAN]
  BY <1>2, <1>7
<1>9. JobTypes'
  BY <1>1, <1>2, <1>8 DEF PageTypes, JobTypes
<1>10. Len(draftings) \in Nat /\ cardJob \in 1 .. Len(draftings) /\ cardJob \in Nat
  <2>1. Len(draftings) \in Nat
    BY <1>1, AskedTypes
  <2>2. cardJob \in 0 .. Len(draftings)
    BY <1>1 DEF PageTypes, JobTypes
  <2>3. cardJob # 0
    BY <1>7
  <2> QED
    BY <2>1, <2>2, <2>3
<1> DEFINE a == AskJob(cardJob)
<1>11. a \in KnownReq /\ a \in JobReq /\ ~a.done /\ a.job = cardJob
  BY <1>1, <1>7, <1>10, AskMade, KnownMade
<1> HIDE DEF a
<1>12. a \in PageReq /\ a \notin StepReq /\ a \notin SaveReq /\ a \notin LoadReq
  BY <1>11, ReqKinds DEF PageReq
<1> DEFINE t == IF card.polling /\ ended THEN <<a>> ELSE <<>>
<1>13. asked' = RemoveAt(asked, n) \o t
  BY <1>1, <1>2, <1>12, RestForms DEF a
<1>14. \A k \in 1 .. Len(t) : t[k] = a
  BY OneSent
<1>15. t \in Seq(KnownReq)
  BY <1>11
<1> HIDE DEF t
<1>16. KnownReq' = KnownReq
  BY <1>2, KnownSame
<1>17. \A k \in 1 .. Len(t) : t[k] \notin StepReq /\ t[k] \notin SaveReq /\ t[k] \notin LoadReq
  BY <1>12, <1>14
<1>18. PageTypes' /\ Taken(asked', asked, n, t) /\ asked' \in Seq(PageReq) /\ t \in Seq(PageReq)
  <2>1. t \in Seq(KnownReq') /\ KnownReq \subseteq KnownReq'
    BY <1>15, <1>16
  <2> QED
    BY <1>1, <1>2, <1>5, <1>6, <1>9, <1>13, <1>17, <2>1, TakenTypes
<1>19. Takes(n, t)
  <2>1. n # 0
    BY <1>1, AskedTypes
  <2> QED
    BY <1>1, <1>2, <1>4, <1>17, <1>18, <2>1 DEF Takes, Moved
<1>20. ~gap' /\ ~gone' /\ Exists' => Current'
  <2>1. r \notin Reloads /\ r \notin LoadReq
    BY <1>1, <1>2, NotReloading
  <2> QED
    BY <1>2, <1>17, <1>19, <2>1, AnswerCurrent
<1>21. ~gap' /\ ~gone' => TextsKept'
  <2>1. \A i \in AllIds : r \notin Saving(i)
    BY <1>2, DoneSaves
  <2> QED
    BY <1>2, <1>19, <2>1, AnswerTexts
<1>22. ~strayed' /\ ~gone' => CardKept'
  <2> SUFFICES ASSUME ~strayed', ~gone' PROVE CardKept'
    OBVIOUS
  <2>1. ~strayed /\ CardKept
    BY <1>2, <1>3 DEF PageInv
  <2>2. \A m \in 1 .. Len(asked) : m # n => asked[m] \notin JobReq
    <3> SUFFICES ASSUME NEW m \in 1 .. Len(asked), m # n PROVE asked[m] \notin JobReq
      OBVIOUS
    <3>1. asked[m] \in PageReq
      BY <1>1, AskedTypes
    <3>2. asked[m].what # "job"
      BY <1>3
    <3> QED
      BY <3>1, <3>2, ReqKinds
  <2>3. \A k \in 1 .. Len(t) : t[k] \in JobReq => t[k].job = cardJob' /\ ~t[k].done
    BY <1>2, <1>11, <1>14
  <2>4. \A m \in 1 .. Len(asked') : asked'[m] \in OwnPoll'
    BY <1>19, <2>2, <2>3, CardAsks
  <2>5. r.job = cardJob /\ (~card.polling => ended)
    BY <1>1, <1>2, <2>1 DEF CardKept, OwnPoll
  <2>6. ~card'.polling => card'.shown = "ended" /\ draftings'[cardJob'] = "ended"
    BY <1>2, <1>7, <1>8, <2>5
  <2> QED
    BY <1>2, <1>7, <2>4, <2>6 DEF CardKept
<1> QED
  BY <1>18, <1>20, <1>21, <1>22 DEF PageInv

-----------------------------------------------------------------------------
(* What the server does.                                                   *)

(* The first of Q is written and is no longer in Q: the last is still on   *)
(* its way, or was it.                                                     *)
LEMMA FirstWritten ==
    ASSUME NEW S, NEW s \in Seq(S), NEW n \in 1 .. Len(s), NEW c \in S, NEW u \in Seq(S), Written(u, s, n, c),
           NEW P, NEW Q, P \subseteq Q, LastSent(s, P, Q), c \notin Q, \A m \in 1 .. n - 1 : s[m] \notin Q
    PROVE  LastSent(u, P, Q) \/ (s[n] \in P /\ ~OnTheWay(u, Q))
<1>1. PICK i \in 1 .. Len(s) : s[i] \in P /\ \A j \in i + 1 .. Len(s) : s[j] \notin Q
  BY DEF LastSent
<1>2. Len(u) = Len(s) /\ u[n] = c /\ (\A j \in 1 .. Len(s) \ {n} : u[j] = s[j]) /\ Len(s) \in Nat
  BY DEF Written
<1>3. CASE i # n
  <2>1. i \in 1 .. Len(u) /\ u[i] \in P
    BY <1>1, <1>2, <1>3
  <2>2. ASSUME NEW j \in i + 1 .. Len(u) PROVE u[j] \notin Q
    <3>1. j \in 1 .. Len(s) /\ j \in i + 1 .. Len(s)
      BY <1>2
    <3> QED
      BY <1>1, <1>2, <3>1
  <2> QED
    BY <2>1, <2>2 DEF LastSent
<1>4. CASE i = n
  <2>1. ASSUME NEW j \in 1 .. Len(u) PROVE u[j] \notin Q
    <3>1. j \in 1 .. n - 1 \/ j = n \/ j \in n + 1 .. Len(s)
      BY <1>2
    <3>2. j \in 1 .. Len(s)
      BY <1>2
    <3> QED
      BY <1>1, <1>2, <1>4, <3>1, <3>2
  <2> QED
    BY <1>1, <1>4, <2>1 DEF OnTheWay
<1> QED
  BY <1>3, <1>4

(* The request at n becomes d.                                             *)
Writes(n, d) ==
  /\ PageTypes /\ PageTypes' /\ n \in 1 .. Len(asked) /\ asked \in Seq(PageReq) /\ asked' \in Seq(PageReq)
  /\ asked[n] \in PageReq /\ d \in PageReq /\ d.what = asked[n].what /\ Written(asked', asked, n, d)
  /\ UNCHANGED <<opened, typed, unsaved, cardJob, card, gone, strayed>>

LEMMA WrittenCurrent ==
    ASSUME PageInv, NEW n, NEW d, Writes(n, d), ~gap' => ~gap, Exists' => Exists,
           ~gap' /\ Exists' => d \in Reloads \/ (row' = row /\ asked[n] \notin Reloads /\ (asked[n] \in BringsRow => d \in BringsRow))
    PROVE  ~gap' /\ ~gone' /\ Exists' => Current'
<1> SUFFICES ASSUME ~gap', ~gone', Exists' PROVE Current'
  OBVIOUS
<1>1. ~gap /\ ~gone /\ Exists
  BY DEF Writes
<1> DEFINE u == asked'
<1>2. /\ u \in Seq(PageReq) /\ asked \in Seq(PageReq) /\ n \in 1 .. Len(asked) /\ d \in PageReq /\ Written(u, asked, n, d)
      /\ d.what = asked[n].what /\ asked[n] \in PageReq /\ opened' = opened
  BY DEF Writes
<1> HIDE DEF u
<1>3. CASE d \in Reloads
  <2>1. OnTheWay(u, Reloads)
    BY <1>2, <1>3, WrittenHolds
  <2>2. Reloads' = Reloads
    BY SetsSame
  <2>3. OnTheWay(u, Reloads')
    BY <2>1, <2>2
  <2> QED
    BY <2>3 DEF Current, u
<1>4. CASE row' = row /\ asked[n] \notin Reloads /\ (asked[n] \in BringsRow => d \in BringsRow)
  <2>1. Current
    BY <1>1 DEF PageInv
  <2>2. d \in LoadReq <=> asked[n] \in LoadReq
    BY <1>2, ReqKinds
  <2>3. OnTheWay(asked, Reloads) => OnTheWay(u, Reloads)
    BY <1>2, <1>4, WrittenHolds
  <2>4. LastSent(asked, BringsRow, LoadReq) => LastSent(u, BringsRow, LoadReq)
    BY <1>2, <1>4, <2>2, WrittenSent
  <2>5. ~OnTheWay(asked, LoadReq) => ~OnTheWay(u, LoadReq)
    <3>1. ~OnTheWay(asked, LoadReq) => d \notin LoadReq
      BY <1>2, <2>2 DEF OnTheWay
    <3> QED
      BY <1>2, <3>1, WrittenHolds
  <2>6. Reloads' = Reloads /\ BringsRow' = BringsRow
    BY <1>4, SetsSame
  <2>7. OnTheWay(u, Reloads') \/ LastSent(u, BringsRow', LoadReq) \/ (~OnTheWay(u, LoadReq) /\ opened' = row')
    BY <1>2, <1>4, <2>1, <2>3, <2>4, <2>5, <2>6 DEF Current
  <2> QED
    BY <2>7 DEF Current, u
<1> QED
  BY <1>3, <1>4

LEMMA TextWritten ==
    ASSUME NEW n, NEW d, Writes(n, d), NEW i \in AllIds, TextKept(i), asked[n] \notin SavesOf(i), d \notin SavesOf(i),
           row'.texts[i] \in {"", row.texts[i]}
    PROVE  TextKept(i)'
<1> DEFINE u == asked'
           P == Saving(i)
           Q == SavesOf(i)
<1>2. /\ u \in Seq(PageReq) /\ asked \in Seq(PageReq) /\ n \in 1 .. Len(asked) /\ d \in PageReq /\ Written(u, asked, n, d)
      /\ typed' = typed
  BY DEF Writes
<1>3. asked[n] \notin P /\ asked[n] \notin Q /\ d \notin Q
  BY DEF Saving
<1> HIDE DEF u, P, Q
<1>4. LastSent(asked, P, Q) => LastSent(u, P, Q)
  BY <1>2, <1>3, WrittenSent
<1>5. ~OnTheWay(asked, Q) => ~OnTheWay(u, Q)
  BY <1>2, <1>3, WrittenHolds
<1>6. SavesOf(i)' = Q /\ Saving(i)' = P
  BY <1>2, SetsSame DEF P, Q
<1>7. \/ LastSent(u, Saving(i)', SavesOf(i)')
      \/ ~OnTheWay(u, SavesOf(i)') /\ row'.texts[i] \in {"", typed'[i]}
  BY <1>2, <1>4, <1>5, <1>6 DEF TextKept, P, Q
<1> QED
  BY <1>7 DEF TextKept, u

(* A text is stored.                                                       *)
LEMMA TextStored ==
    ASSUME NEW n, NEW d, Writes(n, d), NEW i \in AllIds, TextKept(i), asked[n] \in SavesOf(i), d \notin SavesOf(i),
           row'.texts[i] \in {"", asked[n].text}, \A m \in 1 .. n - 1 : asked[m] \notin SavesOf(i)
    PROVE  TextKept(i)'
<1> DEFINE u == asked'
           P == Saving(i)
           Q == SavesOf(i)
<1>1. LastSent(asked, P, Q)
  BY DEF Writes, OnTheWay, TextKept
<1>2. /\ u \in Seq(PageReq) /\ asked \in Seq(PageReq) /\ n \in 1 .. Len(asked) /\ d \in PageReq /\ Written(u, asked, n, d)
      /\ typed' = typed
  BY DEF Writes
<1>3. P \subseteq Q /\ d \notin Q /\ \A m \in 1 .. n - 1 : asked[m] \notin Q
  BY DEF Saving
<1> HIDE DEF u, P, Q
<1>4. LastSent(u, P, Q) \/ (asked[n] \in P /\ ~OnTheWay(u, Q))
  BY <1>1, <1>2, <1>3, FirstWritten
<1>5. SavesOf(i)' = Q /\ Saving(i)' = P
  BY <1>2, SetsSame DEF P, Q
<1>6. asked[n] \in P => row'.texts[i] \in {"", typed'[i]}
  BY <1>2 DEF P, Saving
<1>7. \/ LastSent(u, Saving(i)', SavesOf(i)')
      \/ ~OnTheWay(u, SavesOf(i)') /\ row'.texts[i] \in {"", typed'[i]}
  BY <1>4, <1>5, <1>6
<1> QED
  BY <1>7 DEF TextKept, u

LEMMA WrittenCard ==
    ASSUME PageInv, NEW n, NEW d, Writes(n, d), d \in OwnPoll,
           ~card.polling /\ CardKept => draftings'[cardJob] = "ended"
    PROVE  ~strayed' /\ ~gone' => CardKept'
<1> SUFFICES ASSUME ~strayed', ~gone' PROVE CardKept'
  OBVIOUS
<1> DEFINE u == asked'
           P == OwnPoll
<1>1. /\ u \in Seq(PageReq) /\ asked \in Seq(PageReq) /\ n \in 1 .. Len(asked) /\ d \in PageReq /\ Written(u, asked, n, d)
      /\ UNCHANGED <<cardJob, card, gone, strayed>>
  BY DEF Writes
<1>2. CardKept
  BY <1>1 DEF PageInv
<1>3. d \in P /\ \A m \in 1 .. Len(asked) : asked[m] \in P
  BY <1>2 DEF CardKept
<1> HIDE DEF u, P
<1>4. \A m \in 1 .. Len(u) : u[m] \in P
  BY <1>1, <1>3, WrittenHolds
<1>5. OwnPoll' = P
  BY <1>1, SetsSame DEF P
<1>6. (cardJob = 0 => card.polling)' /\ (~card.polling => card.shown = "ended" /\ draftings[cardJob] = "ended")'
  BY <1>1, <1>2 DEF CardKept
<1>7. \A m \in 1 .. Len(u) : u[m] \in OwnPoll'
  BY <1>4, <1>5
<1> QED
  BY <1>6, <1>7 DEF CardKept, u

LEMMA ReadKeeps == ASSUME PageInv, NEW n \in 1 .. Len(asked), Read(n) PROVE PageInv'
<1> DEFINE r == asked[n]
<1>1. /\ PageTypes /\ asked \in Seq(PageReq) /\ r \in PageReq /\ r \in KnownReq
  BY AskedTypes DEF PageInv
<1>2. UNCHANGED <<row, draftings, opened, boxes, picking, carding, gone, gap, strayed, pageActs, pageFaults>> /\ ~r.done
  BY DEF Read
<1>3. UNCHANGED <<typed, unsaved, previews, dialog, chosen, adding, cardJob, card>>
  BY <1>2 DEF boxes, picking, carding
<1>4. CampRowTypes' /\ JobTypes' /\ DialogTypes' /\ BoxTypes'
  BY <1>1, <1>2, <1>3, BoxesKept DEF PageTypes, CampRowTypes, JobTypes, DialogTypes
<1>5. PICK d :
        /\ asked' = [asked EXCEPT ![n] = d] /\ d \in KnownReq /\ d.what = r.what /\ d.done
        /\ \/ r \in LoadReq /\ d \in LoadReq /\ d.ok = Exists /\ d.read = row
           \/ r \in JobReq /\ d \in JobReq /\ d.job = r.job /\ d.read = draftings[r.job]
  <2>1. CASE r.what = "load" /\ Answer(n, [r EXCEPT !.ok = Exists, !.read = row])
    <3> DEFINE d == [[r EXCEPT !.ok = Exists, !.read = row] EXCEPT !.done = TRUE]
    <3>1. asked' = [asked EXCEPT ![n] = d]
      BY <2>1 DEF Answer
    <3>2. r \in LoadReq
      BY <1>1, <2>1, ReqKinds
    <3>3. row \in ShownRows /\ Exists \in BOOLEAN
      BY <1>1 DEF PageTypes, CampRowTypes, ShownRows, Exists
    <3>4. d \in LoadReq /\ d.what = r.what /\ d.done /\ d.ok = Exists /\ d.read = row
      BY <3>2, <3>3 DEF LoadReq
    <3> HIDE DEF d
    <3>5. Len(d.read.texts) <= Len(row.texts)
      BY <1>1, <3>4, AskedTypes
    <3>6. d \in KnownReq
      BY <3>4, <3>5, KnownKinds
    <3> QED
      BY <3>1, <3>2, <3>4, <3>6
  <2>2. CASE r.what = "job" /\ Answer(n, [r EXCEPT !.read = draftings[r.job]])
    <3> DEFINE d == [[r EXCEPT !.read = draftings[r.job]] EXCEPT !.done = TRUE]
    <3>1. asked' = [asked EXCEPT ![n] = d]
      BY <2>2 DEF Answer
    <3>2. r \in JobReq
      BY <1>1, <2>2, ReqKinds
    <3>3. r.job \in 1 .. Len(draftings) /\ cardJob # 0
      BY <1>1, <3>2 DEF KnownReq
    <3>4. draftings[r.job] \in {"open", "ended"}
      <4>1. draftings \in Seq({"open", "ended"})
        BY <1>1 DEF PageTypes, JobTypes
      <4> QED
        BY <3>3, <4>1
    <3>5. d \in JobReq /\ d.what = r.what /\ d.done /\ d.job = r.job /\ d.read = draftings[r.job]
      BY <3>2, <3>4 DEF JobReq
    <3> HIDE DEF d
    <3>6. d.job \in 1 .. Len(draftings) /\ (d.read = "ended" => draftings[d.job] = "ended") /\ d.read # ""
      BY <3>3, <3>4, <3>5
    <3>7. d \in KnownReq
      BY <3>3, <3>5, <3>6, KnownKinds
    <3> QED
      BY <3>1, <3>2, <3>5, <3>7
  <2> QED
    BY <2>1, <2>2 DEF Read
<1>6. KnownReq' = KnownReq
  BY <1>2, <1>3, KnownSame
<1>7. PageTypes' /\ Written(asked', asked, n, d) /\ asked' \in Seq(PageReq) /\ d \in PageReq
  <2>1. d \in KnownReq' /\ KnownReq \subseteq KnownReq'
    BY <1>5, <1>6
  <2>2. Len(row'.texts) = Len(row.texts)
    BY <1>2
  <2> QED
    BY <1>1, <1>2, <1>4, <1>5, <2>1, <2>2, WrittenTypes
<1>8. Writes(n, d)
  BY <1>1, <1>2, <1>3, <1>5, <1>7 DEF Writes
<1>9. ~gap' /\ ~gone' /\ Exists' => Current'
  <2>1. Exists' = Exists /\ row' = row
    BY <1>2 DEF Exists
  <2>2. r \notin Reloads
    BY <1>1, <1>5, ReqKinds, NotReloading
  <2>3. Exists' => (r \in BringsRow => d \in BringsRow)
    <3>1. r \in BringsRow => r \in LoadReq /\ r \notin JobReq
      BY <1>1, ReqKinds DEF BringsRow
    <3> QED
      BY <1>5, <2>1, <3>1 DEF BringsRow
  <2> QED
    BY <1>2, <1>8, <2>1, <2>2, <2>3, WrittenCurrent
<1>10. ~gap' /\ ~gone' => TextsKept'
  <2> SUFFICES ASSUME ~gap', ~gone', NEW i \in AllIds \ unsaved', typed'[i] # "" PROVE TextKept(i)'
    BY DEF TextsKept
  <2>1. TextKept(i)
    BY <1>2, <1>3 DEF PageInv, TextsKept
  <2>2. r \notin SaveReq /\ d \notin SaveReq
    BY <1>1, <1>5, <1>7, ReqKinds
  <2>3. r \notin SavesOf(i) /\ d \notin SavesOf(i) /\ row'.texts[i] \in {"", row.texts[i]}
    BY <1>2, <2>2 DEF SavesOf
  <2> QED
    BY <1>8, <2>1, <2>3, TextWritten
<1>11. ~strayed' /\ ~gone' => CardKept'
  <2> SUFFICES ASSUME ~strayed', ~gone' PROVE CardKept'
    OBVIOUS
  <2>1. CardKept
    BY <1>2 DEF PageInv
  <2>2. d \in OwnPoll
    <3>1. r \in OwnPoll
      BY <2>1 DEF CardKept
    <3>2. d \in JobReq => r \in JobReq /\ d.job = r.job /\ d.read = draftings[r.job]
      BY <1>5, <1>7, ReqKinds
    <3>3. d \in JobReq => d.job = cardJob /\ d.read = draftings[cardJob]
      BY <3>1, <3>2 DEF OwnPoll
    <3> QED
      BY <1>7, <2>1, <3>3 DEF OwnPoll, CardKept
  <2>3. ~card.polling /\ CardKept => draftings'[cardJob] = "ended"
    BY <1>2 DEF CardKept
  <2> QED
    BY <1>8, <2>2, <2>3, WrittenCard
<1> QED
  BY <1>7, <1>9, <1>10, <1>11 DEF PageInv

(* Adding a lead is done, or is not, and is about no text and no job.      *)
LEMMA AddWritten ==
    ASSUME PageInv, NEW n \in 1 .. Len(asked), NEW d, asked' = [asked EXCEPT ![n] = d], d \in KnownReq, d \in AddReq,
           asked[n] \in AddReq, ~asked[n].done, row'.texts = row.texts, row'.status = row.status, row' \in CampRows,
           UNCHANGED <<draftings, opened, boxes, picking, carding, gone, strayed, pageActs>>, gap' \in BOOLEAN, ~gap' => ~gap,
           pageFaults' \in 0 .. MaxPageFaults,
           ~gap' => d \in Reloads \/ (row' = row /\ asked[n] \notin Reloads)
    PROVE  PageInv'
<1> DEFINE r == asked[n]
<1>1. /\ PageTypes /\ asked \in Seq(PageReq) /\ r \in PageReq /\ r \in KnownReq /\ d \in PageReq
      /\ Len(row.texts) \in Nat
  BY AskedTypes DEF PageInv
<1>2. r.what = "add" /\ d.what = "add"
  BY <1>1, ReqKinds
<1>3. UNCHANGED <<typed, unsaved, previews, dialog, chosen, adding, cardJob, card>>
  BY DEF boxes, picking, carding
<1>4. CampRowTypes'
  BY <1>1 DEF PageTypes, CampRowTypes
<1>5. JobTypes' /\ DialogTypes'
  BY <1>1, <1>3 DEF PageTypes, JobTypes, DialogTypes
<1>6. BoxTypes'
  <2>1. Ids' = Ids
    BY DEF Ids
  <2> QED
    BY <1>1, <1>3, <2>1 DEF PageTypes, BoxTypes
<1>7. KnownReq' = KnownReq
  BY <1>3, KnownSame
<1>8. PageTypes' /\ Written(asked', asked, n, d) /\ asked' \in Seq(PageReq) /\ d \in PageReq
  <2>1. d \in KnownReq' /\ KnownReq \subseteq KnownReq'
    BY <1>7
  <2>2. Len(row'.texts) = Len(row.texts)
    OBVIOUS
  <2> QED
    BY <1>1, <1>2, <1>4, <1>5, <1>6, <2>1, <2>2, WrittenTypes
<1>9. Writes(n, d)
  BY <1>1, <1>2, <1>3, <1>8 DEF Writes
<1>10. ~gap' /\ ~gone' /\ Exists' => Current'
  <2>1. Exists' => Exists
    BY DEF Exists
  <2>2. r \notin BringsRow
    BY <1>1, <1>2, NotReloading DEF BringsRow
  <2> QED
    BY <1>9, <2>1, <2>2, WrittenCurrent
<1>11. ~gap' /\ ~gone' => TextsKept'
  <2> SUFFICES ASSUME ~gap', ~gone', NEW i \in AllIds \ unsaved', typed'[i] # "" PROVE TextKept(i)'
    BY DEF TextsKept
  <2>1. TextKept(i)
    BY <1>3 DEF PageInv, TextsKept
  <2>2. r \notin SaveReq /\ d \notin SaveReq
    BY <1>1, <1>2, NotReloading
  <2>3. r \notin SavesOf(i) /\ d \notin SavesOf(i) /\ row'.texts[i] \in {"", row.texts[i]}
    BY <2>2 DEF SavesOf
  <2> QED
    BY <1>9, <2>1, <2>3, TextWritten
<1>12. ~strayed' /\ ~gone' => CardKept'
  <2>1. d \in OwnPoll
    BY <1>1, <1>2, ReqKinds DEF OwnPoll
  <2>2. ~card.polling /\ CardKept => draftings'[cardJob] = "ended"
    BY DEF CardKept
  <2> QED
    BY <1>9, <2>1, <2>2, WrittenCard
<1> QED
  BY <1>8, <1>10, <1>11, <1>12 DEF PageInv

(* A request to add leads with one lead less to add.                       *)
LEMMA AddLess ==
    ASSUME NEW r \in KnownReq, r \in AddReq, NEW l, l \in r.todo, NEW failed, failed \in {r.failed, r.failed \cup {l}},
           NEW d \in AddReq, d.leads = r.leads, d.todo = r.todo \ {l}, d.failed = failed, d.done <=> r.todo = {l}
    PROVE  d \in KnownReq /\ ~r.done /\ l \in r.leads /\ l \notin r.failed /\ l \notin d.todo
<1>1. r.todo \cup r.failed \subseteq r.leads /\ r.todo \cap r.failed = {} /\ (r.done => r.todo = {})
  BY DEF KnownReq
<1>2. d.todo \cup d.failed \subseteq d.leads /\ d.todo \cap d.failed = {} /\ (d.done => d.todo = {})
  BY <1>1
<1>3. d \in KnownReq
  BY <1>2, KnownKinds
<1> QED
  BY <1>1, <1>3

LEMMA AddedRow ==
    ASSUME CampRowTypes, NEW l \in Prospect
    PROVE  LET w == [row EXCEPT !.leads = @ \cup {l}] IN w \in CampRows /\ w.texts = row.texts /\ w.status = row.status
BY DEF CampRowTypes, CampRows

LEMMA AddMet ==
    ASSUME PageTypes, NEW n \in 1 .. Len(asked), asked[n].what = "add"
    PROVE  asked[n] \in AddReq /\ asked[n] \in KnownReq /\ asked[n] \in PageReq
BY AskedTypes, ReqKinds

LEMMA PerformAddKeeps == ASSUME PageInv, NEW n \in 1 .. Len(asked), NEW l \in Prospect, PerformAdd(n, l) PROVE PageInv'
<1> DEFINE r == asked[n]
           can == row.status \in {"draft", "paused"} /\ l \notin row.leads
           failed == IF can THEN r.failed ELSE r.failed \cup {l}
           d == [r EXCEPT !.todo = @ \ {l}, !.done = (r.todo = {l}), !.failed = failed]
<1>1. PageTypes /\ CampRowTypes /\ row \in CampRows
  BY DEF PageInv, PageTypes, CampRowTypes
<1>2. /\ r.what = "add" /\ l \in r.todo /\ row' = (IF can THEN [row EXCEPT !.leads = @ \cup {l}] ELSE row)
      /\ asked' = [asked EXCEPT ![n] = d]
      /\ UNCHANGED <<draftings, opened, boxes, picking, carding, gone, gap, strayed, pageActs, pageFaults>>
  BY DEF PerformAdd
<1>3. r \in AddReq /\ r \in KnownReq /\ r \in PageReq
  BY <1>1, <1>2, AddMet
<1>4. /\ d \in KnownReq /\ d \in AddReq /\ ~r.done /\ l \in r.leads /\ l \notin r.failed /\ l \notin d.todo
      /\ d.leads = r.leads /\ d.todo = r.todo \ {l} /\ d.failed = failed
  <2>1. failed \in {r.failed, r.failed \cup {l}}
    OBVIOUS
  <2>2. l \in r.todo
    BY <1>2
  <2>3. r.leads \subseteq Prospect /\ r.todo \subseteq Prospect /\ r.failed \subseteq Prospect
    BY <1>3 DEF AddReq
  <2>4. failed \subseteq Prospect /\ (r.todo = {l}) \in BOOLEAN /\ r.todo \ {l} \subseteq Prospect
    BY <2>1, <2>2, <2>3
  <2> HIDE DEF r, failed
  <2>5. /\ d \in AddReq /\ d.leads = r.leads /\ d.todo = r.todo \ {l} /\ d.failed = failed
        /\ (d.done <=> r.todo = {l})
    BY <1>3, <2>4 DEF AddReq
  <2> HIDE DEF d
  <2> QED
    BY <1>3, <2>1, <2>2, <2>5, AddLess
<1> HIDE DEF d
<1>5. row'.texts = row.texts /\ row'.status = row.status /\ row' \in CampRows
  BY <1>1, <1>2, AddedRow
<1>6. d \in PageReq
  BY <1>4 DEF KnownReq
<1>7. d \in Reloads \/ (row' = row /\ r \notin Reloads)
  <2>1. CASE can
    <3>1. l \in d.leads \ (d.todo \cup d.failed)
      BY <1>4, <2>1
    <3> QED
      BY <1>4, <1>6, <3>1 DEF Reloads
  <2>2. CASE ~can
    <3>1. d.todo \cup d.failed = r.todo \cup r.failed
      BY <1>2, <1>4, <2>2
    <3>2. r \notin ChangeReq
      BY <1>2, <1>3, ReqKinds
    <3>3. r \in Reloads => d \in Reloads
      BY <1>4, <1>6, <3>1, <3>2 DEF Reloads
    <3> QED
      BY <1>2, <2>2, <3>3
  <2> QED
    BY <2>1, <2>2
<1>8. gap' \in BOOLEAN /\ (~gap' => ~gap) /\ pageFaults' \in 0 .. MaxPageFaults
  BY <1>1, <1>2 DEF PageTypes, DialogTypes
<1> QED
  BY <1>2, <1>3, <1>4, <1>5, <1>7, <1>8, AddWritten

LEMMA AddLostKeeps == ASSUME PageInv, NEW n \in 1 .. Len(asked), NEW l \in Prospect, AddLost(n, l) PROVE PageInv'
<1> DEFINE r == asked[n]
           failed == r.failed \cup {l}
           d == [r EXCEPT !.todo = @ \ {l}, !.done = (r.todo = {l}), !.failed = failed]
<1>1. PageTypes /\ CampRowTypes /\ row \in CampRows
  BY DEF PageInv, PageTypes, CampRowTypes
<1>2. /\ r.what = "add" /\ l \in r.todo /\ row' \in {row, [row EXCEPT !.leads = @ \cup {l}]} /\ gap' = (gap \/ row' # row)
      /\ asked' = [asked EXCEPT ![n] = d] /\ pageFaults < MaxPageFaults /\ pageFaults' = pageFaults + 1
      /\ UNCHANGED <<draftings, opened, boxes, picking, carding, gone, strayed, pageActs>>
  BY DEF AddLost, PageFault
<1>3. r \in AddReq /\ r \in KnownReq /\ r \in PageReq
  BY <1>1, <1>2, AddMet
<1>4. /\ d \in KnownReq /\ d \in AddReq /\ ~r.done /\ l \in r.leads /\ l \notin r.failed /\ l \notin d.todo
      /\ d.leads = r.leads /\ d.todo = r.todo \ {l} /\ d.failed = failed
  <2>1. failed \in {r.failed, r.failed \cup {l}}
    OBVIOUS
  <2>2. l \in r.todo
    BY <1>2
  <2>3. r.leads \subseteq Prospect /\ r.todo \subseteq Prospect /\ r.failed \subseteq Prospect
    BY <1>3 DEF AddReq
  <2>4. failed \subseteq Prospect /\ (r.todo = {l}) \in BOOLEAN /\ r.todo \ {l} \subseteq Prospect
    BY <2>1, <2>2, <2>3
  <2> HIDE DEF r, failed
  <2>5. /\ d \in AddReq /\ d.leads = r.leads /\ d.todo = r.todo \ {l} /\ d.failed = failed
        /\ (d.done <=> r.todo = {l})
    BY <1>3, <2>4 DEF AddReq
  <2> HIDE DEF d
  <2> QED
    BY <1>3, <2>1, <2>2, <2>5, AddLess
<1> HIDE DEF d
<1>5. row'.texts = row.texts /\ row'.status = row.status /\ row' \in CampRows
  BY <1>1, <1>2, AddedRow
<1>6. d \in PageReq
  BY <1>4 DEF KnownReq
<1>7. ~gap' => d \in Reloads \/ (row' = row /\ r \notin Reloads)
  <2>1. d.todo \cup d.failed = r.todo \cup r.failed
    BY <1>2, <1>4
  <2>2. r \notin ChangeReq
    BY <1>2, <1>3, ReqKinds
  <2>3. r \in Reloads => d \in Reloads
    BY <1>4, <1>6, <2>1, <2>2 DEF Reloads
  <2> QED
    BY <1>2, <2>3
<1>8. gap' \in BOOLEAN /\ (~gap' => ~gap) /\ pageFaults' \in 0 .. MaxPageFaults
  <2>1. gap \in BOOLEAN /\ pageFaults \in 0 .. MaxPageFaults /\ MaxPageFaults \in Nat
    BY <1>1, PageAssumption DEF PageTypes, DialogTypes
  <2> QED
    BY <1>2, <2>1
<1> QED
  BY <1>2, <1>3, <1>4, <1>5, <1>7, <1>8, AddWritten

-----------------------------------------------------------------------------
(* A change of the campaign.                                               *)

LEMMA ExceptAny ==
    ASSUME NEW S, NEW s \in Seq(S), NEW i, NEW e, i \in 1 .. Len(s) => e \in S
    PROVE  /\ [s EXCEPT ![i] = e] \in Seq(S) /\ Len([s EXCEPT ![i] = e]) = Len(s)
           /\ \A k \in 1 .. Len(s) : [s EXCEPT ![i] = e][k] = IF k = i THEN e ELSE s[k]
<1> DEFINE u == [s EXCEPT ![i] = e]
<1>1. CASE i \in 1 .. Len(s)
  BY <1>1, ExceptSeq
<1>2. CASE i \notin 1 .. Len(s)
  <2>1. DOMAIN s = 1 .. Len(s) /\ s = [k \in DOMAIN s |-> s[k]]
    OBVIOUS
  <2>2. u = s
    BY <1>2, <2>1
  <2> QED
    BY <1>2, <2>2
<1> QED
  BY <1>1, <1>2

(* What a change leaves of the texts: another one at most where it saves   *)
(* its own.                                                                *)
LEMMA SavedRow ==
    ASSUME CampRowTypes, NEW r \in SaveReq
    PROVE  LET w == RowAfter(r) IN
           /\ w \in CampRows /\ Len(w.texts) = Len(row.texts) /\ w.status = row.status
           /\ \A i \in Ids : w.texts[i] \in {"", IF i = r.id THEN r.text ELSE row.texts[i]}
<1> DEFINE s == row.texts
           e == IF s[r.id] = "" THEN s[r.id] ELSE r.text
           k == r.id
           u == [s EXCEPT ![k] = e]
           w == RowAfter(r)
<1>1. row \in CampRows /\ s \in Seq(Texts)
  BY DEF CampRowTypes, CampRows
<1>2. r.what = "save" /\ r.text \in Texts
  BY DEF SaveReq
<1>3. w = [row EXCEPT !.texts = u]
  BY <1>1, <1>2 DEF RowAfter, CampRows
<1>4. k \in 1 .. Len(s) => e \in Texts
  <2>1. k \in 1 .. Len(s) => s[k] \in Texts
    BY <1>1
  <2> QED
    BY <1>2, <2>1
<1>5. e = "" \/ e = r.text
  OBVIOUS
<1> HIDE DEF e, s, k
<1>6. u \in Seq(Texts) /\ Len(u) = Len(s) /\ \A m \in 1 .. Len(s) : u[m] = IF m = k THEN e ELSE s[m]
  BY <1>1, <1>4, ExceptAny
<1> HIDE DEF u
<1>7. w \in CampRows /\ w.texts = u /\ w.status = row.status
  BY <1>1, <1>3, <1>6 DEF CampRows
<1> HIDE DEF w
<1>8. Ids = 1 .. Len(s)
  BY DEF Ids, s
<1>9. \A i \in Ids : w.texts[i] \in {"", IF i = r.id THEN r.text ELSE s[i]}
  BY <1>5, <1>6, <1>7, <1>8 DEF k
<1> QED
  BY <1>6, <1>7, <1>9 DEF w, s

LEMMA DroppedRow ==
    ASSUME CampRowTypes, NEW r \in DropReq
    PROVE  LET w == RowAfter(r) IN
           /\ w \in CampRows /\ Len(w.texts) = Len(row.texts) /\ w.status = row.status
           /\ \A i \in Ids : w.texts[i] \in {"", row.texts[i]}
<1> DEFINE s == row.texts
           e == ""
           k == r.id
           u == [s EXCEPT ![k] = e]
           w == RowAfter(r)
<1>1. row \in CampRows /\ s \in Seq(Texts) /\ e \in Texts
  BY DEF CampRowTypes, CampRows, Texts
<1>2. r.what = "delstep"
  BY DEF DropReq
<1>3. w = [row EXCEPT !.texts = u]
  BY <1>1, <1>2 DEF RowAfter, CampRows
<1> HIDE DEF e, s, k
<1>6. u \in Seq(Texts) /\ Len(u) = Len(s) /\ \A m \in 1 .. Len(s) : u[m] = IF m = k THEN e ELSE s[m]
  BY <1>1, ExceptAny
<1> HIDE DEF u
<1>7. w \in CampRows /\ w.texts = u /\ w.status = row.status
  BY <1>1, <1>3, <1>6 DEF CampRows
<1> HIDE DEF w
<1>8. Ids = 1 .. Len(s)
  BY DEF Ids, s
<1>9. \A i \in Ids : w.texts[i] \in {"", s[i]}
  BY <1>6, <1>7, <1>8 DEF e
<1> QED
  BY <1>6, <1>7, <1>9 DEF w, s

LEMMA GrownRow ==
    ASSUME CampRowTypes, NEW r \in StepReq
    PROVE  LET w == RowAfter(r) IN
           /\ w \in CampRows /\ Len(w.texts) = Len(row.texts) + 1 /\ w.status = row.status
           /\ \A i \in Ids : w.texts[i] = row.texts[i]
<1> DEFINE s == row.texts
           u == Append(s, r.x)
           w == RowAfter(r)
<1>1. row \in CampRows /\ s \in Seq(Texts)
  BY DEF CampRowTypes, CampRows
<1>2. r.what = "newstep" /\ r.x \in Texts
  BY PageAssumption DEF StepReq, Texts
<1>3. w = [row EXCEPT !.texts = u]
  BY <1>1, <1>2 DEF RowAfter, CampRows
<1> HIDE DEF s
<1>6. u \in Seq(Texts) /\ Len(u) = Len(s) + 1 /\ \A k \in 1 .. Len(s) : u[k] = s[k]
  BY <1>1, <1>2, AppendProperties
<1> HIDE DEF u
<1>7. w \in CampRows /\ w.texts = u /\ w.status = row.status
  BY <1>1, <1>3, <1>6 DEF CampRows
<1> HIDE DEF w
<1>8. Ids = 1 .. Len(s)
  BY DEF Ids, s
<1> QED
  BY <1>6, <1>7, <1>8 DEF w, s

LEMMA OtherRow ==
    ASSUME CampRowTypes, NEW r \in StatusReq \cup RemoveReq \cup DeleteReq
    PROVE  LET w == RowAfter(r) IN
           /\ w \in CampRows /\ Len(w.texts) = Len(row.texts) /\ \A i \in Ids : w.texts[i] \in {"", row.texts[i]}
<1> DEFINE w == RowAfter(r)
<1>1. row \in CampRows /\ row.texts \in Seq(Texts) /\ "" \in Texts
  BY DEF CampRowTypes, CampRows, Texts
<1>2. CASE r \in StatusReq
  <2>1. w = [row EXCEPT !.status = r.x] /\ r.x \in {"active", "paused"}
    BY <1>2 DEF RowAfter, StatusReq
  <2>2. w \in CampRows /\ w.texts = row.texts
    BY <1>1, <2>1 DEF CampRows
  <2> QED
    BY <2>2
<1>3. CASE r \in RemoveReq
  <2>1. w = [row EXCEPT !.leads = @ \ {r.x}]
    BY <1>3 DEF RowAfter, RemoveReq
  <2>2. w \in CampRows /\ w.texts = row.texts
    BY <1>1, <2>1 DEF CampRows
  <2> QED
    BY <2>2
<1>4. CASE r \in DeleteReq
  <2> DEFINE u == [i \in Ids |-> ""]
  <2>1. w = [status |-> "deleted", leads |-> {}, texts |-> u]
    BY <1>4 DEF RowAfter, DeleteReq
  <2>2. Len(row.texts) \in Nat
    BY <1>1, LenProperties
  <2>3. u \in Seq(Texts) /\ Len(u) = Len(row.texts) /\ \A i \in Ids : u[i] = ""
    <3> DEFINE l == Len(row.texts)
               f == [i \in 1 .. l |-> ""]
    <3>1. f \in [1 .. l -> Texts] /\ l \in Nat /\ \A i \in 1 .. l : f[i] = ""
      BY <1>1, <2>2
    <3>2. u = f /\ Ids = 1 .. l
      BY DEF Ids
    <3> HIDE DEF f, l
    <3>3. f \in Seq(Texts)
      BY <3>1, SeqDef
    <3>4. Len(f) = l
      <4>1. DOMAIN f = 1 .. l /\ DOMAIN f = 1 .. Len(f) /\ Len(f) \in Nat
        BY <3>1, <3>3, LenProperties
      <4> HIDE <3>1, <3>3
      <4>2. l \in Nat
        BY <3>1
      <4> QED
        BY <4>1, <4>2
    <3> QED
      BY <3>1, <3>2, <3>3, <3>4 DEF l
  <2> HIDE DEF u
  <2>4. w.texts = u /\ w.status = "deleted" /\ w.leads = {}
    BY <2>1
  <2>5. w \in CampRows
    <3>1. {} \in SUBSET Prospect /\ u \in Seq(Texts) /\ "deleted" \in {"draft", "active", "paused", "deleted"}
      BY <2>3
    <3> QED
      BY <2>1, <3>1 DEF CampRows
  <2> QED
    BY <2>3, <2>4, <2>5
<1> QED
  BY <1>2, <1>3, <1>4

-----------------------------------------------------------------------------
(* A change is made, or refused: its request as it comes back.             *)
LEMMA ChangeMade ==
    ASSUME NEW r \in ChangeReq
    PROVE  LET d == [r EXCEPT !.done = TRUE] IN
           /\ d \in ChangeReq /\ d.done /\ d.what = r.what /\ d.ok = r.ok
           /\ r \in SaveReq => d.text = r.text
           /\ r \in StatusReq => d.job = r.job
<1> DEFINE d == [r EXCEPT !.done = TRUE]
<1>1. CASE r \in SaveReq
  <2>1. d \in SaveReq /\ d.done /\ d.what = r.what /\ d.ok = r.ok /\ d.text = r.text /\ r.what = "save"
    BY <1>1 DEF SaveReq
  <2> QED
    BY <2>1, ChangeKinds DEF ChangeReq
<1>2. CASE r \in DropReq
  <2>1. d \in DropReq /\ d.done /\ d.what = r.what /\ d.ok = r.ok /\ r.what = "delstep"
    BY <1>2 DEF DropReq
  <2> QED
    BY <2>1, ChangeKinds DEF ChangeReq
<1>3. CASE r \in StepReq
  <2>1. d \in StepReq /\ d.done /\ d.what = r.what /\ d.ok = r.ok /\ r.what = "newstep"
    BY <1>3 DEF StepReq
  <2> QED
    BY <2>1, ChangeKinds DEF ChangeReq
<1>4. CASE r \in StatusReq
  <2>1. d \in StatusReq /\ d.done /\ d.what = r.what /\ d.ok = r.ok /\ d.job = r.job /\ r.what = "status"
    BY <1>4 DEF StatusReq
  <2> QED
    BY <2>1, ChangeKinds DEF ChangeReq
<1>5. CASE r \in RemoveReq
  <2>1. d \in RemoveReq /\ d.done /\ d.what = r.what /\ d.ok = r.ok /\ r.what = "remove"
    BY <1>5 DEF RemoveReq
  <2> QED
    BY <2>1, ChangeKinds DEF ChangeReq
<1>6. CASE r \in DeleteReq
  <2>1. d \in DeleteReq /\ d.done /\ d.what = r.what /\ d.ok = r.ok /\ r.what = "delete"
    BY <1>6 DEF DeleteReq
  <2> QED
    BY <2>1, ChangeKinds DEF ChangeReq
<1> QED
  BY <1>1, <1>2, <1>3, <1>4, <1>5, <1>6 DEF ChangeReq

LEMMA ChangeRefused ==
    ASSUME NEW r \in ChangeReq, r \notin SaveReq, r \notin DropReq
    PROVE  LET d == [[r EXCEPT !.ok = FALSE] EXCEPT !.done = TRUE] IN
           /\ d \in ChangeReq /\ d.done /\ d.what = r.what
           /\ r \in StatusReq => d.job = r.job
<1> DEFINE d == [[r EXCEPT !.ok = FALSE] EXCEPT !.done = TRUE]
<1>3. CASE r \in StepReq
  <2>1. d \in StepReq /\ d.done /\ d.what = r.what /\ r.what = "newstep"
    BY <1>3 DEF StepReq
  <2> QED
    BY <2>1, ChangeKinds DEF ChangeReq
<1>4. CASE r \in StatusReq
  <2>1. d \in StatusReq /\ d.done /\ d.what = r.what /\ d.job = r.job /\ r.what = "status"
    BY <1>4 DEF StatusReq
  <2> QED
    BY <2>1, ChangeKinds DEF ChangeReq
<1>5. CASE r \in RemoveReq
  <2>1. d \in RemoveReq /\ d.done /\ d.what = r.what /\ r.what = "remove"
    BY <1>5 DEF RemoveReq
  <2> QED
    BY <2>1, ChangeKinds DEF ChangeReq
<1>6. CASE r \in DeleteReq
  <2>1. d \in DeleteReq /\ d.done /\ d.what = r.what /\ r.what = "delete"
    BY <1>6 DEF DeleteReq
  <2> QED
    BY <2>1, ChangeKinds DEF ChangeReq
<1> QED
  BY <1>3, <1>4, <1>5, <1>6 DEF ChangeReq

LEMMA ChangeStarts ==
    ASSUME NEW r \in StatusReq, NEW k \in Nat
    PROVE  LET d == [[r EXCEPT !.job = k] EXCEPT !.done = TRUE] IN
           d \in StatusReq /\ d \in ChangeReq /\ d.done /\ d.what = r.what /\ d.ok = r.ok /\ d.job = k
BY DEF StatusReq, ChangeReq

(* The campaign may have one template more, and a job more.                *)
LEMMA RowChanged ==
    ASSUME CampRowTypes, row' \in CampRows, opened' = opened,
           Len(row'.texts) = Len(row.texts) \/ Len(row'.texts) = Len(row.texts) + 1
    PROVE  row'.texts \in Seq(Texts) /\ Len(row'.texts) \in Nat /\ Len(row.texts) <= Len(row'.texts) /\ CampRowTypes'
<1>1. row'.texts \in Seq(Texts) /\ row.texts \in Seq(Texts)
  BY DEF CampRowTypes, CampRows
<1> DEFINE a == Len(row.texts)
           b == Len(row'.texts)
           o == Len(opened.texts)
<1>2. a \in Nat /\ b \in Nat
  BY <1>1, LenProperties
<1>3. opened.texts \in Seq(Texts)
  <2>1. CASE opened \in CampRows
    BY <2>1 DEF CampRows
  <2>2. CASE opened = NotLoaded
    <3>1. NotLoaded.texts \in Seq(Texts)
      BY DEF NotLoaded
    <3> QED
      BY <2>2, <3>1
  <2> QED
    BY <2>1, <2>2 DEF CampRowTypes, ShownRows
<1>4. o \in Nat
  BY <1>3, LenProperties
<1>5. o <= a /\ (b = a \/ b = a + 1)
  BY DEF CampRowTypes
<1> HIDE DEF a, b, o
<1>6. a <= b /\ o <= b
  BY <1>2, <1>4, <1>5
<1>7. Len(opened'.texts) <= Len(row'.texts)
  BY <1>6 DEF o, b
<1>8. opened' \in ShownRows' /\ row' \in CampRows'
  BY DEF CampRowTypes, ShownRows, CampRows, NotLoaded
<1> QED
  BY <1>1, <1>2, <1>6, <1>7, <1>8 DEF CampRowTypes, a, b

LEMMA JobsChanged ==
    ASSUME JobTypes, UNCHANGED <<cardJob, card>>, draftings' \in Seq({"open", "ended"}), Len(draftings) <= Len(draftings')
    PROVE  JobTypes' /\ (cardJob # 0 => cardJob \in 1 .. Len(draftings))
<1> DEFINE a == Len(draftings)
           b == Len(draftings')
<1>1. a \in Nat /\ b \in Nat
  BY LenProperties DEF JobTypes
<1>2. cardJob \in 0 .. a /\ a <= b
  BY DEF JobTypes
<1> HIDE DEF a, b
<1>3. cardJob \in 0 .. b /\ (cardJob # 0 => cardJob \in 1 .. a)
  BY <1>1, <1>2
<1>4. cardJob' \in 0 .. Len(draftings')
  BY <1>3 DEF b
<1> QED
  BY <1>3, <1>4 DEF JobTypes, a

(* What a change does, if another text of the same template does not cross *)
(* it.                                                                     *)
LEMMA ChangeWritten ==
    ASSUME PageInv, NEW n \in 1 .. Len(asked), NEW d, asked' = [asked EXCEPT ![n] = d],
           asked[n] \in ChangeReq, ~asked[n].done, d \in ChangeReq, d.done, d.what = asked[n].what,
           d \in SaveReq => d.text # "", d \in StatusReq => d.job \in 0 .. Len(draftings'),
           row' \in CampRows,
           Len(row'.texts) = Len(row.texts) \/ (Len(row'.texts) = Len(row.texts) + 1 /\ asked[n] \in StepReq),
           \A i \in Ids : row'.texts[i] \in {"", IF asked[n] \in SaveReq /\ i = asked[n].id THEN asked[n].text ELSE row.texts[i]},
           draftings' \in Seq({"open", "ended"}), Len(draftings) <= Len(draftings'),
           \A j \in 1 .. Len(draftings) : draftings'[j] = draftings[j],
           pageFaults' \in 0 .. MaxPageFaults, gap' \in BOOLEAN, ~gap' => ~gap /\ ~SavesCross(n),
           Exists' => Exists, Exists' => d.ok, UNCHANGED <<opened, boxes, picking, carding, gone, strayed, pageActs>>
    PROVE  PageInv'
<1> DEFINE r == asked[n]
<1>1. /\ PageTypes /\ CampRowTypes /\ JobTypes /\ BoxTypes /\ DialogTypes /\ asked \in Seq(PageReq) /\ r \in PageReq /\ r \in KnownReq
      /\ Len(row.texts) \in Nat /\ Len(draftings) \in Nat /\ draftings \in Seq({"open", "ended"})
  BY AskedTypes DEF PageInv, PageTypes
<1>2. UNCHANGED <<typed, unsaved, previews, dialog, chosen, adding, cardJob, card>>
  BY DEF boxes, picking, carding
<1>3. Len(row'.texts) = Len(row.texts) \/ Len(row'.texts) = Len(row.texts) + 1
  OBVIOUS
<1>4. /\ row'.texts \in Seq(Texts) /\ Len(row'.texts) \in Nat /\ Len(row.texts) <= Len(row'.texts) /\ CampRowTypes'
  BY <1>1, <1>3, RowChanged
<1>5. JobTypes' /\ (cardJob # 0 => cardJob \in 1 .. Len(draftings))
  BY <1>1, <1>2, JobsChanged
<1>6. BoxTypes'
  BY <1>1, <1>2, <1>4, BoxKept
<1>7. DialogTypes'
  BY <1>1, <1>2 DEF DialogTypes
<1>8. KnownReq \subseteq KnownReq'
  <2>1. \A j \in 1 .. Len(draftings) : draftings[j] = "ended" => draftings'[j] = "ended"
    OBVIOUS
  <2> QED
    BY <1>1, <1>2, <1>4, <2>1, KnownGrows
<1>9. d \in KnownReq'
  <2>1. d \in PageReq
    BY DEF PageReq
  <2>2. d \notin LoadReq /\ d \notin JobReq /\ d \notin AddReq
    BY ChangeKinds
  <2>3. d \in StatusReq => d.job \in 0 .. Len(draftings)'
    OBVIOUS
  <2> QED
    BY <2>1, <2>2, <2>3 DEF KnownReq, PageReq, LoadReq, JobReq, ChangeReq, SaveReq, DropReq, StepReq, StatusReq,
                            RemoveReq, DeleteReq, AddReq, ShownRows, CampRows, NotLoaded
<1>10. PageTypes' /\ Written(asked', asked, n, d) /\ asked' \in Seq(PageReq) /\ d \in PageReq
  <2>1. \/ Len(row'.texts) = Len(row.texts)
        \/ Len(row'.texts) = Len(row.texts) + 1 /\ r \in StepReq /\ ~r.done /\ d.done
    OBVIOUS
  <2> QED
    BY <1>1, <1>4, <1>5, <1>6, <1>7, <1>8, <1>9, <2>1, WrittenTypes
<1>11. Writes(n, d)
  BY <1>1, <1>2, <1>10 DEF Writes
<1>12. ~gap' /\ ~gone' /\ Exists' => Current'
  <2>1. Exists' => d \in Reloads
    BY <1>10 DEF Reloads
  <2> QED
    BY <1>11, <2>1, WrittenCurrent
<1>13. ~gap' /\ ~gone' => TextsKept'
  <2> SUFFICES ASSUME ~gap', ~gone', NEW i \in AllIds \ unsaved', typed'[i] # "" PROVE TextKept(i)'
    BY DEF TextsKept
  <2>1. TextKept(i)
    BY <1>2 DEF PageInv, TextsKept
  <2>2. i \in Ids /\ d \notin SavesOf(i)
    BY <1>1, <1>2 DEF BoxTypes, SavesOf
  <2>3. CASE r \in SavesOf(i)
    <3>1. r \in SaveReq /\ i = r.id /\ r.what = "save"
      BY <1>1, <2>3, ReqKinds DEF SavesOf
    <3>2. row'.texts[i] \in {"", r.text}
      BY <2>2, <3>1
    <3>3. ASSUME NEW m \in 1 .. n - 1, asked[m] \in SavesOf(i) PROVE FALSE
      <4>1. asked[m] \in SaveReq /\ ~asked[m].done /\ asked[m].id = r.id
        BY <3>1, <3>3 DEF SavesOf
      <4>2. asked[m].what = "save"
        BY <4>1 DEF SaveReq
      <4> QED
        BY <3>1, <4>1, <4>2 DEF SavesCross
    <3> QED
      BY <1>11, <2>1, <2>2, <2>3, <3>2, <3>3, TextStored
  <2>4. CASE r \notin SavesOf(i)
    <3>1. r \in SaveReq => r.id # i
      BY <2>4 DEF SavesOf
    <3>2. row'.texts[i] \in {"", row.texts[i]}
      BY <2>2, <3>1
    <3> QED
      BY <1>11, <2>1, <2>2, <2>4, <3>2, TextWritten
  <2> QED
    BY <2>3, <2>4
<1>14. ~strayed' /\ ~gone' => CardKept'
  <2>1. d \in OwnPoll
    BY <1>10, ChangeKinds DEF OwnPoll
  <2>2. ~card.polling /\ CardKept => draftings'[cardJob] = "ended"
    <3>1. ~card.polling /\ CardKept => draftings[cardJob] = "ended" /\ cardJob # 0
      BY DEF CardKept
    <3> QED
      BY <1>5, <3>1
  <2> QED
    BY <1>11, <2>1, <2>2, WrittenCard
<1> QED
  BY <1>10, <1>12, <1>13, <1>14 DEF PageInv

LEMMA PerformKeeps == ASSUME PageInv, NEW n \in 1 .. Len(asked), Perform(n) PROVE PageInv'
<1> DEFINE r == asked[n]
<1>1. /\ PageTypes /\ CampRowTypes /\ row \in CampRows /\ r \in PageReq /\ r \in KnownReq /\ draftings \in Seq({"open", "ended"})
      /\ Len(draftings) \in Nat /\ pageFaults \in 0 .. MaxPageFaults /\ gap \in BOOLEAN
  BY AskedTypes DEF PageInv, PageTypes, CampRowTypes, DialogTypes
<1>2. ~r.done /\ r.what \in {"save", "newstep", "delstep", "remove", "status", "delete"}
  BY DEF Perform
<1>3. r \in ChangeReq /\ r.ok /\ (r \in SaveReq => r.text # "") /\ (r \in StatusReq => r.job \in 0 .. Len(draftings))
  <2>1. r \in ChangeReq
    BY <1>1, <1>2, ReqKinds
  <2> QED
    BY <1>1, <1>2, <2>1 DEF KnownReq
<1>4. UNCHANGED <<opened, boxes, picking, carding, gone, strayed, pageActs>>
  BY DEF Perform
<1>5. CASE Exists \/ r.what \in {"save", "delstep"}
  <2>1. row' = RowAfter(r) /\ gap' = (gap \/ SavesCross(n))
    BY <1>5 DEF Perform
  <2>2. gap' \in BOOLEAN /\ (~gap' => ~gap /\ ~SavesCross(n))
    BY <2>1
  <2>3. /\ row' \in CampRows
        /\ Len(row'.texts) = Len(row.texts) \/ (Len(row'.texts) = Len(row.texts) + 1 /\ r \in StepReq)
        /\ \A i \in Ids : row'.texts[i] \in {"", IF r \in SaveReq /\ i = r.id THEN r.text ELSE row.texts[i]}
        /\ r.what \in {"save", "delstep"} => row'.status = row.status
    <3>1. CASE r \in SaveReq
      BY <1>1, <2>1, <3>1, SavedRow
    <3>2. CASE r \in DropReq
      <4>1. r \notin SaveReq
        BY <1>1, <3>2, ReqKinds
      <4> QED
        BY <1>1, <2>1, <3>2, <4>1, DroppedRow
    <3>3. CASE r \in StepReq
      <4>1. r \notin SaveReq /\ r.what \notin {"save", "delstep"}
        BY <1>1, <3>3, ReqKinds
      <4> QED
        BY <1>1, <2>1, <3>3, <4>1, GrownRow
    <3>4. CASE r \in StatusReq \cup RemoveReq \cup DeleteReq
      <4>1. r \notin SaveReq /\ r.what \notin {"save", "delstep"}
        BY <1>1, <3>4, ReqKinds
      <4> QED
        BY <1>1, <2>1, <3>4, <4>1, OtherRow
    <3> QED
      BY <1>3, <3>1, <3>2, <3>3, <3>4 DEF ChangeReq
  <2>4. Exists' => Exists
    BY <1>5, <2>3 DEF Exists
  <2>5. CASE r.what = "status" /\ r.x = "active" /\ row.status # "active"
    <3> DEFINE k == Len(draftings) + 1
               d == [[r EXCEPT !.job = k] EXCEPT !.done = TRUE]
    <3>1. asked' = [asked EXCEPT ![n] = d] /\ \E x \in {"open", "ended"} : draftings' = Append(draftings, x)
      BY <1>5, <2>5 DEF Perform, Answer
    <3>2. pageFaults' \in 0 .. MaxPageFaults
      <4>1. pageFaults' = pageFaults \/ (pageFaults < MaxPageFaults /\ pageFaults' = pageFaults + 1)
        BY <1>5, <2>5 DEF Perform, PageFault
      <4>2. MaxPageFaults \in Nat
        BY PageAssumption
      <4> QED
        BY <1>1, <4>1, <4>2
    <3>3. /\ draftings' \in Seq({"open", "ended"}) /\ Len(draftings') = k /\ Len(draftings) <= Len(draftings')
          /\ \A j \in 1 .. Len(draftings) : draftings'[j] = draftings[j]
      BY <1>1, <3>1, AppendProperties
    <3>4. r \in StatusReq /\ k \in Nat
      BY <1>1, <2>5, ReqKinds
    <3> HIDE DEF k
    <3>5. d \in StatusReq /\ d \in ChangeReq /\ d.done /\ d.what = r.what /\ d.ok = r.ok /\ d.job = k
      BY <3>4, ChangeStarts
    <3> HIDE DEF d
    <3>6. d \notin SaveReq
      BY <2>5, <3>5, ChangeKinds
    <3>7. d.job \in 0 .. Len(draftings')
      BY <3>3, <3>4, <3>5
    <3> QED
      BY <1>2, <1>3, <1>4, <2>2, <2>3, <2>4, <3>1, <3>2, <3>3, <3>5, <3>6, <3>7, ChangeWritten
  <2>6. CASE ~(r.what = "status" /\ r.x = "active" /\ row.status # "active")
    <3> DEFINE d == [r EXCEPT !.done = TRUE]
    <3>1. asked' = [asked EXCEPT ![n] = d] /\ draftings' = draftings /\ pageFaults' = pageFaults
      BY <1>5, <2>6 DEF Perform, Answer
    <3>2. /\ d \in ChangeReq /\ d.done /\ d.what = r.what /\ d.ok = r.ok
          /\ r \in SaveReq => d.text = r.text
          /\ r \in StatusReq => d.job = r.job
      BY <1>3, ChangeMade
    <3> HIDE DEF d
    <3>3. (d \in SaveReq => d.text # "") /\ (d \in StatusReq => d.job \in 0 .. Len(draftings'))
      <4>1. (d \in SaveReq => r \in SaveReq) /\ (d \in StatusReq => r \in StatusReq)
        BY <1>3, <3>2, ChangeKinds
      <4> QED
        BY <1>3, <3>1, <3>2, <4>1
    <3>4. Len(draftings) <= Len(draftings') /\ draftings' \in Seq({"open", "ended"}) /\ pageFaults' \in 0 .. MaxPageFaults
      BY <1>1, <3>1
    <3> QED
      BY <1>2, <1>3, <1>4, <2>2, <2>3, <2>4, <3>1, <3>2, <3>3, <3>4, ChangeWritten
  <2> QED
    BY <2>5, <2>6
<1>6. CASE ~Exists /\ r.what \notin {"save", "delstep"}
  <2> DEFINE d == [[r EXCEPT !.ok = FALSE] EXCEPT !.done = TRUE]
  <2>1. asked' = [asked EXCEPT ![n] = d] /\ UNCHANGED <<row, draftings, gap, pageFaults>>
    BY <1>6 DEF Perform, Answer
  <2>2. r \notin SaveReq /\ r \notin DropReq
    BY <1>1, <1>6, ReqKinds
  <2>3. d \in ChangeReq /\ d.done /\ d.what = r.what /\ (r \in StatusReq => d.job = r.job)
    BY <1>3, <2>2, ChangeRefused
  <2> HIDE DEF d
  <2>4. d \notin SaveReq /\ (d \in StatusReq => d.job \in 0 .. Len(draftings'))
    <3>1. (d \in SaveReq => r \in SaveReq) /\ (d \in StatusReq => r \in StatusReq)
      BY <1>3, <2>3, ChangeKinds
    <3> QED
      BY <1>3, <2>1, <2>2, <2>3, <3>1
  <2>5. ~Exists'
    BY <1>6, <2>1 DEF Exists
  <2>6. Len(draftings) <= Len(draftings') /\ draftings' \in Seq({"open", "ended"}) /\ pageFaults' \in 0 .. MaxPageFaults
        /\ row' \in CampRows /\ gap' \in BOOLEAN
    BY <1>1, <2>1
  <2>7. (~gap' => ~gap /\ ~SavesCross(n)) /\ \A i \in Ids : row'.texts[i] = row.texts[i]
    <3>1. ~SavesCross(n)
      BY <1>6 DEF SavesCross
    <3> QED
      BY <2>1, <3>1
  <2>8. \A i \in Ids : row'.texts[i] \in {"", IF r \in SaveReq /\ i = r.id THEN r.text ELSE row.texts[i]}
    BY <2>2, <2>7
  <2> QED
    BY <1>2, <1>3, <1>4, <2>1, <2>3, <2>4, <2>5, <2>6, <2>7, <2>8, ChangeWritten
<1> QED
  BY <1>5, <1>6

-----------------------------------------------------------------------------
LEMMA PageInvInit == CampaignPageInit => PageInv
<1> SUFFICES ASSUME CampaignPageInit PROVE PageInv
  OBVIOUS
<1>1. /\ row \in Opened /\ draftings = <<>> /\ opened = NotLoaded /\ typed = Nothing /\ unsaved = {} /\ previews = Nothing
      /\ dialog = "none" /\ chosen = {} /\ adding = FALSE /\ cardJob = 0 /\ card = [shown |-> "", polling |-> TRUE]
      /\ asked = <<Load>> /\ gone = FALSE /\ gap = FALSE /\ strayed = FALSE /\ pageActs = 0 /\ pageFaults = 0
  BY DEF CampaignPageInit
<1>2. row \in CampRows /\ Len(row.texts) \in Nat /\ Len(row.texts) <= MaxSteps
  <2>1. /\ row \in [status : {"draft", "active", "paused"}, leads : SUBSET Prospect, texts : Seq(STRING)]
        /\ Len(row.texts) <= MaxSteps
    BY <1>1, PageAssumption
  <2>2. row.texts \in Seq(STRING)
    BY <2>1
  <2> DEFINE s == row.texts
             S == STRING
             T == Texts
  <2>3. S \subseteq T
    BY DEF Texts
  <2> HIDE DEF s, S, T
  <2>4. s \in Seq(S)
    BY <2>2 DEF s, S
  <2>5. s \in Seq(T) /\ Len(s) \in Nat
    BY <2>3, <2>4
  <2>6. row.texts \in Seq(Texts) /\ Len(row.texts) \in Nat
    BY <2>5 DEF s, T
  <2> QED
    BY <2>1, <2>6 DEF CampRows
<1>3. CampRowTypes
  <2>1. Len(NotLoaded.texts) = 0
    BY DEF NotLoaded
  <2>2. opened \in ShownRows /\ Len(opened.texts) = 0
    BY <1>1, <2>1 DEF ShownRows
  <2> QED
    BY <1>2, <2>2 DEF CampRowTypes
<1>4. JobTypes
  <2>1. <<>> \in Seq({"open", "ended"}) /\ Len(<<>>) = 0
    OBVIOUS
  <2>2. draftings \in Seq({"open", "ended"}) /\ Len(draftings) = 0
    BY <1>1, <2>1
  <2>3. card \in [shown : {"", "open", "ended"}, polling : BOOLEAN]
    BY <1>1
  <2>4. cardJob \in 0 .. Len(draftings)
    <3>1. cardJob = 0
      BY <1>1
    <3> QED
      BY <2>2, <3>1
  <2> QED
    BY <2>2, <2>3, <2>4 DEF JobTypes
<1>5. BoxTypes
  <2>1. "" \in Texts
    BY DEF Texts
  <2>2. Nothing \in [AllIds -> Texts] /\ \A i \in AllIds : Nothing[i] = ""
    BY <2>1 DEF Nothing
  <2> QED
    BY <1>1, <2>2 DEF BoxTypes
<1>6. DialogTypes
  <2>1. MaxPageActs \in Nat /\ MaxPageFaults \in Nat
    BY PageAssumption
  <2>2. pageActs \in 0 .. MaxPageActs /\ pageFaults \in 0 .. MaxPageFaults
    <3>1. pageActs = 0 /\ pageFaults = 0
      BY <1>1
    <3> QED
      BY <2>1, <3>1
  <2> QED
    BY <1>1, <2>2 DEF DialogTypes
<1>7. Load \in KnownReq /\ Load \in LoadReq /\ Load \in PageReq /\ Load \in BringsRow
  <2>1. Len(Load.read.texts) <= Len(row.texts)
    BY <1>2, LoadMade
  <2> QED
    BY <2>1, LoadMade, LoadBrings, KnownKinds
<1>8. asked \in Seq(KnownReq) /\ Len(asked) = 1 /\ asked[1] = Load
  <2> DEFINE S == KnownReq
             c == Load
  <2>1. c \in S
    BY <1>7
  <2> HIDE DEF S, c
  <2>2. <<c>> \in Seq(S) /\ Len(<<c>>) = 1 /\ <<c>>[1] = c
    BY <2>1
  <2> QED
    BY <1>1, <2>2 DEF S, c
<1>9. StepsBounded
  <2>1. Load \notin StepReq /\ Load \notin SaveReq
    BY <1>7, ReqKinds
  <2>2. NewSteps(asked) = {}
    BY <1>8, <2>1 DEF NewSteps
  <2>3. Cardinality(NewSteps(asked)) = 0
    BY <2>2, FS_EmptySet
  <2>4. MaxSteps \in Nat
    BY PageAssumption
  <2>5. Len(row.texts) + Cardinality(NewSteps(asked)) <= MaxSteps + pageActs
    <3>1. pageActs = 0
      BY <1>1
    <3> QED
      BY <1>2, <2>3, <2>4, <3>1
  <2> QED
    BY <2>5 DEF StepsBounded
<1>10. Current
  <2>1. LastSent(asked, BringsRow, LoadReq)
    BY <1>7, <1>8 DEF LastSent
  <2> QED
    BY <2>1 DEF Current
<1>11. TextsKept
  BY <1>1 DEF TextsKept, Nothing
<1>12. CardKept
  <2>1. Load \in OwnPoll
    BY LoadBrings
  <2>2. \A n \in 1 .. Len(asked) : asked[n] \in OwnPoll
    BY <1>8, <2>1
  <2>3. card.polling
    BY <1>1
  <2> QED
    BY <2>2, <2>3 DEF CardKept
<1> QED
  BY <1>3, <1>4, <1>5, <1>6, <1>8, <1>9, <1>10, <1>11, <1>12 DEF PageInv, PageTypes

LEMMA PageInvStep == PageInv /\ [CampaignPageNext]_cpageVars => PageInv'
<1> SUFFICES ASSUME PageInv, [CampaignPageNext]_cpageVars PROVE PageInv'
  OBVIOUS
<1>0. PageTypes
  BY DEF PageInv
<1>1. ASSUME AskActivate \/ CloseDialog \/ OpenLeads PROVE PageInv'
  BY <1>0, <1>1, AskActivateQuiet, CloseDialogQuiet, OpenLeadsQuiet, QuietKeeps
<1>2. ASSUME Activate \/ Pause \/ handleDeleteCampaign \/ handleAddLeads \/ handleAddTemplate \/ fetchJob PROVE PageInv'
  BY <1>0, <1>2, ActivateSends, PauseSends, DeleteSends, AddLeadsSends, AddTemplateSends, FetchSends, SendKeeps
<1>3. ASSUME NEW l \in Prospect, handleRemoveLeadFromCampaign(l) \/ PickLead(l) PROVE PageInv'
  BY <1>0, <1>3, RemoveSends, SendKeeps, PickLeadQuiet, QuietKeeps
<1>4. ASSUME NEW leads \in SUBSET Prospect, handleSelectAllFiltered(leads) PROVE PageInv'
  BY <1>0, <1>4, SelectAllQuiet, QuietKeeps
<1>5. ASSUME NEW i \in AllIds, SaveChanges(i) \/ applyPreview(i) \/ handleDeleteTemplate(i) PROVE PageInv'
  BY <1>0, <1>5, SaveSends, ApplySends, DeleteStepSends, SendKeeps
<1>6. ASSUME NEW i \in AllIds, simulateTemplateRewrite(i) \/ cancelPreview(i) PROVE PageInv'
  BY <1>0, <1>6, RewriteQuiet, CancelQuiet, QuietKeeps
<1>7. ASSUME NEW i \in AllIds, NEW text \in Typing, TypeText(i, text) PROVE PageInv'
  BY <1>0, <1>7, TypeTextQuiet, QuietKeeps
<1>8. ASSUME NEW j \in 1 .. Len(draftings), DraftingEnds(j) PROVE PageInv'
  BY <1>8, DraftingKeeps
<1>9. ASSUME NEW n \in 1 .. Len(asked), Perform(n) \/ Read(n) \/ RequestLost(n) PROVE PageInv'
  BY <1>9, PerformKeeps, ReadKeeps, LostKeeps
<1>10. ASSUME NEW n \in 1 .. Len(asked), CampaignLoaded(n) \/ Changed(n) \/ Deleted(n) PROVE PageInv'
  BY <1>10, LoadedKeeps, ChangedKeeps, DeletedKeeps
<1>11. ASSUME NEW n \in 1 .. Len(asked), updateStatus(n) \/ LeadsAdded(n) \/ JobTold(n) PROVE PageInv'
  BY <1>11, StatusKeeps, LeadsAddedKeeps, JobToldKeeps
<1>12. ASSUME NEW n \in 1 .. Len(asked), NEW l \in Prospect, PerformAdd(n, l) \/ AddLost(n, l) PROVE PageInv'
  BY <1>12, PerformAddKeeps, AddLostKeeps
<1>13. CASE UNCHANGED cpageVars
  <2>1. UNCHANGED <<row, draftings, opened, boxes, typed, unsaved, previews, dialog, chosen, adding, cardJob, card, asked,
                    gone, gap, strayed, pageActs, pageFaults>>
    BY <1>13 DEF cpageVars, boxes, picking, carding
  <2>2. BoxTypes'
    BY <1>0, <2>1, BoxesKept
  <2>3. DialogTypes' /\ pageActs <= pageActs'
    <3>1. pageActs \in Nat
      BY <1>0, AskedTypes
    <3> QED
      BY <1>0, <2>1, <3>1 DEF PageTypes, DialogTypes
  <2>4. PageTypes'
    BY <1>0, <2>1, <2>2, <2>3, QuietTypes
  <2> QED
    BY <2>1, <2>4, QuietKeeps DEF QuietStep
<1> QED
  BY <1>1, <1>2, <1>3, <1>4, <1>5, <1>6, <1>7, <1>8, <1>9, <1>10, <1>11, <1>12, <1>13 DEF CampaignPageNext

LEMMA PageInvAlways == CampaignPageSpec => []PageInv
<1>1. CampaignPageInit => PageInv
  BY PageInvInit
<1>2. PageInv /\ [CampaignPageNext]_cpageVars => PageInv'
  BY PageInvStep
<1> QED
  BY <1>1, <1>2, PTL DEF CampaignPageSpec

(* What the page holds, and what it waits for, is what it may be: an       *)
(* answer never shows more templates than the campaign has, and the card   *)
(* never asks for a job that was not started.                              *)
THEOREM CampaignPageTypes == CampaignPageSpec => []CampaignPageTypeOK
<1>1. PageInv => CampaignPageTypeOK
  <2> SUFFICES ASSUME PageInv PROVE CampaignPageTypeOK
    OBVIOUS
  <2>1. CampRowTypes /\ JobTypes /\ BoxTypes /\ DialogTypes
    BY DEF PageInv, PageTypes
  <2>2. opened.leads \subseteq Prospect
    <3>1. CASE opened \in CampRows
      BY <3>1 DEF CampRows
    <3>2. CASE opened = NotLoaded
      <4>1. NotLoaded.leads = {}
        BY DEF NotLoaded
      <4> QED
        BY <3>2, <4>1
    <3> QED
      BY <2>1, <3>1, <3>2 DEF CampRowTypes, ShownRows
  <2>3. row.status \in {"draft", "active", "paused", "deleted"} /\ row.leads \subseteq Prospect
    BY <2>1 DEF CampRowTypes, CampRows
  <2>4. unsaved \subseteq Ids /\ \A i \in unsaved : typed[i] # ""
    BY <2>1 DEF BoxTypes
  <2> QED
    BY <2>1, <2>2, <2>3, <2>4 DEF CampRowTypes, JobTypes, DialogTypes, CampaignPageTypeOK
<1> QED
  BY <1>1, PageInvAlways, PTL

(* When the page has all its answers it shows what the database holds, and *)
(* its card a job that has ended if it asks no more.                       *)
THEOREM PageSettled == CampaignPageSpec => []PageSettles
<1>1. PageInv => PageSettles
  <2> SUFFICES ASSUME PageInv, AtRest PROVE PageSettles
    BY DEF PageSettles
  <2>1. PageTypes /\ asked = <<>> /\ ~gone
    BY DEF PageInv, AtRest
  <2>2. \A P : ~OnTheWay(asked, P)
    BY <2>1 DEF OnTheWay
  <2>3. \A P, Q : ~LastSent(asked, P, Q)
    BY <2>1 DEF LastSent
  <2>4. ASSUME ~gap, Exists
        PROVE  /\ opened.status = row.status /\ opened.leads = row.leads
               /\ Templates = {i \in Ids : row.texts[i] # ""}
               /\ \A i \in Templates \ unsaved : Box(i) = row.texts[i]
    <3>1. opened = row
      BY <2>1, <2>2, <2>3, <2>4 DEF PageInv, Current
    <3>2. Templates = {i \in Ids : row.texts[i] # ""}
      BY <3>1 DEF Templates, Ids
    <3>3. ASSUME NEW i \in Templates \ unsaved PROVE Box(i) = row.texts[i]
      <4>1. CASE typed[i] = ""
        BY <3>1, <4>1 DEF Box
      <4>2. CASE typed[i] # ""
        <5>1. i \in AllIds /\ row.texts[i] # ""
          BY <2>1, <3>2, <3>3, TemplatesIn
        <5>2. TextKept(i)
          BY <2>1, <2>4, <4>2, <5>1 DEF PageInv, TextsKept
        <5>3. row.texts[i] = typed[i]
          BY <2>2, <2>3, <5>1, <5>2 DEF TextKept
        <5> QED
          BY <4>2, <5>3 DEF Box
      <4> QED
        BY <4>1, <4>2
    <3> QED
      BY <3>1, <3>2, <3>3
  <2>5. ASSUME ~strayed, ~card.polling PROVE card.shown = "ended" /\ draftings[cardJob] = "ended"
    BY <2>1, <2>5 DEF PageInv, CardKept
  <2> QED
    BY <2>4, <2>5 DEF PageSettles
<1> QED
  BY <1>1, PageInvAlways, PTL
=============================================================================
