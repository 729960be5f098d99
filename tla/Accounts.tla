------------------------------ MODULE Accounts ------------------------------
(***************************************************************************)
(* The account of one user: the access it holds (org and group memberships *)
(* and the grants of the organisations it created), its sessions and API   *)
(* tokens, the password-reset links mailed to it, and the snapshot with    *)
(* which a deactivation keeps the access it removes.                       *)
(*                                                                         *)
(* Requests run at READ COMMITTED: a statement sees what had committed     *)
(* when it began, and what a transaction wrote appears when it commits.    *)
(* The transactions of one statement, and those that read nothing before   *)
(* they write, are an action; a deactivation reads the three kinds of      *)
(* access one after the other, and a login inserts its session after the   *)
(* statement that verified it.                                             *)
(***************************************************************************)
EXTENDS Naturals, FiniteSets

CONSTANTS
  Orgs, Groups,
  GroupOrg,      (* GroupOrg[g]: the organisation of group g               *)
  Mapped,        (* the groups an identity provider manages                *)
  Credentials,   (* Credentials[c]: what c is, "session" or "token"        *)
  Links,         (* password-reset links                                   *)
  Procs,
  MaxRequests,   (* bound: requests in all                                 *)
  MaxStops,      (* bound: transactions that are rolled back               *)
  None

ASSUME AccountAssumption ==
  /\ GroupOrg \in [Groups -> Orgs]
  /\ Mapped \subseteq Groups
  /\ Credentials \in [DOMAIN Credentials -> {"session", "token"}]
  /\ MaxRequests \in Nat /\ MaxStops \in Nat
  /\ None \notin Procs

(* The rows of memberships, group_memberships and permission_grants.       *)
Access(kind) == IF kind = "group" THEN {<<kind, g>> : g \in Groups}
                                  ELSE {<<kind, o>> : o \in Orgs}
Member(o) == <<"member", o>>
InGroup(g) == <<"group", g>>
Owner(o) == <<"owner", o>>
Rows == UNION {Access(kind) : kind \in {"group", "member", "owner"}}

ASSUME NoneIsNoSnapshot == \A rows \in SUBSET Rows : rows # None

RowsOf(o) == {Member(o), Owner(o)} \union {InGroup(g) : g \in {x \in Groups : GroupOrg[x] = o}}

VARIABLES
  orgs, groups,  (* those that exist                                       *)
  active,        (* users.is_active                                        *)
  access,        (* the rows the user has                                  *)
  snapshot,      (* the rows in user_deactivation_snapshots, or None       *)
  credential,    (* "none", "live" or "revoked"                            *)
  link,          (* "none", "live" or "consumed"                           *)
  lock,          (* the transaction that has the row of the user locked    *)
  pc, job,       (* a request: where it is and what it has read            *)
  owed,          (* history: the rows administrators have left the user    *)
  disturbed,     (* history: rows changed during or after a deactivation   *)
  ended,         (* history: credentials a revocation has found            *)
  older,         (* history: the links issued before a link was asked for  *)
  resets,        (* history: the passwords set through a link              *)
  requests, stops

account == <<orgs, groups, active, access, snapshot>>
history == <<owed, disturbed>>
logins == <<credential, ended>>
links == <<link, older, resets>>
vars == <<orgs, groups, active, access, snapshot, credential, link, lock, pc, job, owed,
          disturbed, ended, older, resets, requests, stops>>

Idle == [rows |-> {}, found |-> {}, revoke |-> {}, link |-> None]
Live(kinds) == {c \in DOMAIN Credentials : credential[c] = "live" /\ Credentials[c] \in kinds}
LiveLinks == {l \in Links : link[l] = "live"}
Unlocked == lock = None

(* group_memberships_org_user_fk: the groups of a user are those of        *)
(* organisations the user is a member of.                                  *)
ForeignKey(rows) == \A g \in Groups : InGroup(g) \in rows => Member(GroupOrg[g]) \in rows

TypeOK ==
  /\ orgs \subseteq Orgs /\ groups \subseteq Groups
  /\ active \in BOOLEAN
  /\ access \subseteq Rows /\ ForeignKey(access)
  /\ \A g \in Groups : InGroup(g) \in access => g \in groups
  /\ \A o \in Orgs : {Member(o), Owner(o)} \intersect access # {} => o \in orgs
  /\ snapshot = None \/ snapshot \subseteq Rows
  /\ credential \in [DOMAIN Credentials -> {"none", "live", "revoked"}]
  /\ link \in [Links -> {"none", "live", "consumed"}]
  /\ lock \in Procs \union {None}
  /\ job \in [Procs -> [rows : SUBSET Rows, found : SUBSET DOMAIN Credentials,
                        revoke : SUBSET DOMAIN Credentials, link : Links \union {None}]]

-----------------------------------------------------------------------------
Init ==
  /\ orgs \in SUBSET Orgs
  /\ groups = {g \in Groups : GroupOrg[g] \in orgs}
  /\ active = TRUE /\ snapshot = None
  /\ access \in {rows \in SUBSET UNION {RowsOf(o) : o \in orgs} : ForeignKey(rows)}
  /\ credential = [c \in DOMAIN Credentials |-> "none"]
  /\ link = [l \in Links |-> "none"]
  /\ lock = None
  /\ pc = [p \in Procs |-> "idle"] /\ job = [p \in Procs |-> Idle]
  /\ owed = access /\ disturbed = {} /\ ended = {}
  /\ older = [l \in Links |-> {}] /\ resets = [l \in Links |-> 0]
  /\ requests = 0 /\ stops = 0

Goto(p, place, with) == pc' = [pc EXCEPT ![p] = place] /\ job' = [job EXCEPT ![p] = with]
Finish(p) == Goto(p, "idle", Idle)
Request == requests < MaxRequests /\ requests' = requests + 1 /\ UNCHANGED stops
Receive(p, place, with) == pc[p] = "idle" /\ Request /\ Goto(p, place, with)
Count == UNCHANGED <<requests, stops>>

(* A deactivation that reads access is under way.                          *)
Deactivating == \E p \in Procs : pc[p] \in {"group", "member", "owner", "remove"}

-----------------------------------------------------------------------------
(* Administration: a request that takes rows away and adds others.         *)
Administer(taken, added) ==
  /\ access' = (access \ taken) \union added
  /\ owed' = (owed \ taken) \union added
  /\ disturbed' = IF active /\ ~Deactivating THEN disturbed
                  ELSE disturbed \union taken \union (added \ access)

Administered == Request /\ UNCHANGED <<active, snapshot, logins, links, lock, pc, job>>

(* createOrganizationWithOwner: the principal was resolved before.  The    *)
(* groups an organisation will have are there at once.                     *)
CreateOrganization(o) ==
  /\ o \notin orgs
  /\ orgs' = orgs \union {o}
  /\ groups' = groups \union {g \in Groups : GroupOrg[g] = o}
  /\ Administer({}, {Member(o), Owner(o)})
  /\ Administered

AddOrgMember(o) ==
  /\ o \in orgs
  /\ Administer({}, {Member(o)})
  /\ Administered /\ UNCHANGED <<orgs, groups>>

RemoveOrgMember(o) ==
  /\ o \in orgs
  /\ Administer(RowsOf(o), {})
  /\ Administered /\ UNCHANGED <<orgs, groups>>

(* addGroupMember: the membership it checks is also a foreign key.         *)
AddGroupMember(g) ==
  /\ g \in groups /\ Member(GroupOrg[g]) \in access
  /\ Administer({}, {InGroup(g)})
  /\ Administered /\ UNCHANGED <<orgs, groups>>

RemoveGroupMember(g) ==
  /\ g \in groups
  /\ Administer({InGroup(g)}, {})
  /\ Administered /\ UNCHANGED <<orgs, groups>>

(* The rows of a deleted group are deleted with it, and a restoration      *)
(* skips it: this disturbs nothing.                                        *)
DeleteGroup(g) ==
  /\ g \in groups
  /\ groups' = groups \ {g}
  /\ access' = access \ {InGroup(g)} /\ owed' = owed \ {InGroup(g)}
  /\ UNCHANGED <<disturbed, orgs>> /\ Administered

-----------------------------------------------------------------------------
(* setUserActive(false).  Its first statement locks the row of the user,   *)
(* the next ones revoke the sessions and tokens they find.                 *)
Revoked == Live({"session", "token"})

Deactivate(p) ==
  /\ Unlocked
  /\ Receive(p, "group", [Idle EXCEPT !.revoke = Revoked,
                                      !.found = {c \in DOMAIN Credentials : credential[c] # "none"}])
  /\ lock' = p
  /\ UNCHANGED <<account, logins, links, history>>

(* snapshotAccessForDeactivation: a statement for each kind of row.        *)
NextRead == [group |-> "member", member |-> "owner", owner |-> "remove"]
ReadAccess(p) ==
  /\ pc[p] \in DOMAIN NextRead
  /\ Goto(p, NextRead[pc[p]],
          [job[p] EXCEPT !.rows = @ \union (access \intersect Access(pc[p]))])
  /\ Count /\ UNCHANGED <<account, logins, links, lock, history>>

(* Mutant: a second deactivation overwrites the snapshot of the first.     *)
OverwrittenSnapshot(p) == job[p].rows
(* The insert does nothing when there is a snapshot.                       *)
InsertedSnapshot(p) == IF snapshot = None THEN job[p].rows ELSE snapshot

Revoke(p) ==
  /\ credential' = [c \in DOMAIN Credentials |->
                      IF c \in job[p].revoke THEN "revoked" ELSE credential[c]]
  /\ lock' = None /\ Finish(p) /\ Count

(* The deletes, which find what is there by then, and the commit.          *)
RemoveAccess(p) ==
  /\ pc[p] = "remove"
  /\ active' = FALSE
  /\ snapshot' = InsertedSnapshot(p)
  /\ access' = {}
  /\ Revoke(p)
  /\ ended' = ended \union job[p].found
  /\ UNCHANGED <<orgs, groups, links, history>>

(* restoreAccessFromSnapshot: what no longer exists is skipped.            *)
Restored ==
  IF snapshot = None THEN {}
  ELSE {r \in snapshot : r[1] = "group" => r[2] \in groups}

(* setUserActive(true).  A transaction the foreign key refuses is rolled   *)
(* back and leaves the user inactive.                                      *)
Reactivate ==
  /\ Unlocked
  /\ ForeignKey(access \union Restored)
  /\ active' = TRUE /\ snapshot' = None
  /\ access' = access \union Restored
  /\ Request /\ UNCHANGED <<orgs, groups, logins, links, lock, pc, job, history>>

-----------------------------------------------------------------------------
(* authenticateUserPassword, or a principal resolved from a session, finds *)
(* the user active; createSession or createApiToken inserts later.         *)
Verify(p) ==
  /\ active
  /\ Receive(p, "verified", Idle)
  /\ UNCHANGED <<account, logins, links, lock, history>>

Insert(p, c) ==
  /\ pc[p] = "verified" /\ credential[c] = "none"
  /\ credential' = [credential EXCEPT ![c] = "live"]
  /\ Finish(p) /\ Count
  /\ UNCHANGED <<account, ended, links, lock, history>>

(* revokeSession and revokeToken.                                          *)
RevokeOne(c) ==
  /\ credential[c] = "live" /\ Request
  /\ credential' = [credential EXCEPT ![c] = "revoked"]
  /\ UNCHANGED <<account, ended, links, lock, pc, job, history>>

(* syncOidcUser reads that the user is active and then waits for its row;  *)
(* the groups of the claims replace those of the last login, and the       *)
(* session is inserted after it.  A group it would create is taken to be   *)
(* there already.                                                          *)
Claim(p) ==
  /\ active /\ Mapped # {}
  /\ Receive(p, "claim", Idle)
  /\ UNCHANGED <<account, logins, links, lock, history>>

(* Mutant: the memberships the foreign key needs are not inserted.         *)
ClaimedGroups(claimed) == {InGroup(g) : g \in claimed}
Claimed(claimed) ==
  {InGroup(g) : g \in claimed} \union {Member(GroupOrg[g]) : g \in claimed}

Sync(p, claimed) ==
  /\ pc[p] = "claim" /\ Unlocked
  /\ claimed \subseteq groups
  /\ Administer({InGroup(g) : g \in Mapped}, Claimed(claimed))
  /\ IF claimed = {} THEN Finish(p) ELSE Goto(p, "verified", Idle)
  /\ Count
  /\ UNCHANGED <<orgs, groups, active, snapshot, logins, links, lock>>

-----------------------------------------------------------------------------
(* createAuthEmailToken: the update finds the links that are live, the     *)
(* insert follows and both appear at the commit.                           *)
Ask(p, l) ==
  /\ link[l] = "none" /\ active /\ \A q \in Procs : job[q].link # l
  /\ Receive(p, "issue", [Idle EXCEPT !.link = l])
  /\ older' = [older EXCEPT ![l] = {k \in Links : link[k] # "none"}]
  /\ UNCHANGED <<account, logins, link, resets, lock, history>>

(* Mutant: the links of earlier requests stay valid.                       *)
NoneInvalidated(l) == {}
Invalidated(l) == older[l]

(* The update waits for the rows a reset has locked.                       *)
Issue(p) ==
  /\ pc[p] = "issue"
  /\ \A q \in Procs : pc[q] = "reset" => job[q].link \notin Invalidated(job[p].link)
  /\ link' = [l \in Links |-> IF l = job[p].link THEN "live"
                              ELSE IF l \in Invalidated(job[p].link) THEN "consumed" ELSE link[l]]
  /\ Finish(p) /\ Count
  /\ UNCHANGED <<account, logins, older, resets, lock, history>>

(* resetPasswordWithToken: a live link, the row of the user, then the      *)
(* sessions there are.                                                     *)
Reset(p, l) ==
  /\ link[l] = "live" /\ Unlocked
  /\ Receive(p, "reset", [Idle EXCEPT !.link = l, !.revoke = Live({"session"}),
                            !.found = {c \in DOMAIN Credentials :
                                         credential[c] # "none" /\ Credentials[c] = "session"}])
  /\ lock' = p
  /\ UNCHANGED <<account, logins, links, history>>

Confirm(p) ==
  /\ pc[p] = "reset"
  /\ link' = [link EXCEPT ![job[p].link] = "consumed"]
  /\ resets' = [resets EXCEPT ![job[p].link] = @ + 1]
  /\ Revoke(p)
  /\ ended' = ended \union job[p].found
  /\ UNCHANGED <<account, older, history>>

(* A transaction rolls back: a crash, a lost connection, or the victim of  *)
(* a deadlock (RemoveOrgMember and a deactivation delete memberships and   *)
(* grants in different orders).  A crash may also lose a login.            *)
Stop(p) ==
  /\ pc[p] # "idle" /\ stops < MaxStops
  /\ stops' = stops + 1
  /\ Finish(p)
  /\ lock' = IF lock = p THEN None ELSE lock
  /\ UNCHANGED <<account, logins, links, history, requests>>

-----------------------------------------------------------------------------
Next ==
  \/ \E o \in Orgs : CreateOrganization(o) \/ AddOrgMember(o) \/ RemoveOrgMember(o)
  \/ \E g \in Groups : AddGroupMember(g) \/ RemoveGroupMember(g) \/ DeleteGroup(g)
  \/ Reactivate
  \/ \E c \in DOMAIN Credentials : RevokeOne(c)
  \/ \E p \in Procs :
       \/ Deactivate(p) \/ ReadAccess(p) \/ RemoveAccess(p)
       \/ Verify(p) \/ \E c \in DOMAIN Credentials : Insert(p, c)
       \/ Claim(p) \/ \E claimed \in SUBSET Mapped : Sync(p, claimed)
       \/ \E l \in Links : Ask(p, l) \/ Reset(p, l)
       \/ Issue(p) \/ Confirm(p) \/ Stop(p)

Spec == Init /\ [][Next]_vars

-----------------------------------------------------------------------------
(* An account that is active has the access its administrators left it,    *)
(* however often it was deactivated, rolled back and reactivated and       *)
(* whatever groups were deleted meanwhile.  Rows that were changed while   *)
(* the account was inactive, or while a deactivation was reading them, are *)
(* excepted: a removal is undone by the snapshot, an addition is lost to   *)
(* a second deactivation.                                                  *)
AccessIsKept == active => \A r \in Rows \ disturbed : r \in access <=> r \in owed

(* An account is inactive exactly when there is a snapshot, and the        *)
(* foreign key does not refuse to restore it, unless the membership of the *)
(* organisation was removed while the snapshot was read.                   *)
SnapshotIsRestorable ==
  /\ active <=> snapshot = None
  /\ snapshot # None =>
       \A g \in Groups : InGroup(g) \in Restored =>
         Member(GroupOrg[g]) \in (snapshot \union access \union disturbed)

AccessSurvivesDeactivation == AccessIsKept /\ SnapshotIsRestorable

(* A deactivation ends every session and API token, and a password reset   *)
(* every session, that was there when it looked: only a login or a token   *)
(* that was being created at that time outlives it.  Of two live reset     *)
(* links neither was issued before the other was asked for, and a link     *)
(* sets one password.                                                      *)
EarlierCredentialsEnd ==
  /\ \A c \in ended : credential[c] # "live"
  /\ \A l \in LiveLinks : older[l] \intersect LiveLinks = {}
  /\ \A l \in Links : resets[l] <= 1
=============================================================================
