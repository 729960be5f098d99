--------------------------- MODULE AccountsProofs ---------------------------
(***************************************************************************)
(* The account of a user for any organisations, groups, credentials, links *)
(* and requests.                                                           *)
(*                                                                         *)
(* A row that no administrator has touched since a deactivation began to   *)
(* read is in what it has read exactly when the user has it, and then in   *)
(* the snapshot exactly when the user is owed it: a restoration gives it   *)
(* back.  A credential that a revocation has found is live only while that *)
(* revocation is going to end it, and a link that is issued was never live *)
(* before.                                                                 *)
(***************************************************************************)
EXTENDS Accounts, TLAPS

Kinds == {"group", "member", "owner"}
Reading == {"group", "member", "owner", "remove"}
Holders == Reading \union {"reset"}
Places == Holders \union {"idle", "verified", "claim", "issue"}

Jobs == [rows : SUBSET Rows, found : SUBSET DOMAIN Credentials,
         revoke : SUBSET DOMAIN Credentials, link : Links \union {None}]

(* What a restoration does not skip.                                       *)
Kept(r) == r[1] = "group" => r[2] \in groups

(* The rows are of groups and organisations that exist.                    *)
Exist(rows) ==
  /\ \A g \in Groups : InGroup(g) \in rows => g \in groups
  /\ \A o \in Orgs : Member(o) \in rows \/ Owner(o) \in rows => o \in orgs

(* The rows are of groups that existed once.                               *)
Placed(rows) ==
  /\ \A g \in Groups : InGroup(g) \in rows => GroupOrg[g] \in orgs
  /\ \A o \in Orgs : Member(o) \in rows \/ Owner(o) \in rows => o \in orgs

ProcInv ==
  /\ pc \in [Procs -> Places] /\ job \in [Procs -> Jobs]
  /\ lock \in Procs \union {None}
  /\ \A p \in Procs : pc[p] \in Holders <=> lock = p

RowTypes ==
  /\ orgs \subseteq Orgs /\ groups \subseteq Groups /\ active \in BOOLEAN
  /\ access \subseteq Rows /\ ForeignKey(access)
  /\ snapshot = None \/ snapshot \subseteq Rows
  /\ owed \subseteq Rows /\ disturbed \subseteq Rows

PlaceInv ==
  /\ \A g \in groups : GroupOrg[g] \in orgs
  /\ Exist(access) /\ Exist(owed)
  /\ snapshot # None => Placed(snapshot)
  /\ \A p \in Procs : Placed(job[p].rows)

(* The kinds of access that a deactivation has read.                       *)
Done(place) ==
  IF place = "group" THEN {} ELSE IF place = "member" THEN {"group"}
  ELSE IF place = "owner" THEN {"group", "member"} ELSE Kinds

(* What a deactivation has read is there, unless it was disturbed.         *)
ReadOK(p) ==
  pc[p] \in Reading =>
    /\ \A r \in job[p].rows : r[1] \in Done(pc[p])
    /\ \A r \in Rows \ disturbed :
         r[1] \in Done(pc[p]) /\ Kept(r) => (r \in job[p].rows <=> r \in access)
    /\ \A g \in Groups : InGroup(g) \in job[p].rows =>
         Member(GroupOrg[g]) \in disturbed \union
           (IF pc[p] = "member" THEN access ELSE job[p].rows)

(* What an inactive user is owed is in the snapshot.                       *)
OwedInv ==
  /\ active <=> snapshot = None
  /\ active => \A r \in Rows \ disturbed : r \in access <=> r \in owed
  /\ ~ active => /\ access \subseteq disturbed
                 /\ \A r \in Rows \ disturbed : r \in owed <=> r \in snapshot /\ Kept(r)
                 /\ \A g \in Groups : InGroup(g) \in snapshot =>
                      Member(GroupOrg[g]) \in snapshot \union disturbed

AccessInv == RowTypes /\ PlaceInv /\ (\A p \in Procs : ReadOK(p)) /\ OwedInv

CredentialInv ==
  /\ credential \in [DOMAIN Credentials -> {"none", "live", "revoked"}]
  /\ ended \subseteq DOMAIN Credentials
  /\ \A c \in ended : credential[c] = "revoked"
  /\ \A p \in Procs : pc[p] \in Holders => \A c \in job[p].found :
       credential[c] # "none" /\ (credential[c] = "live" => c \in job[p].revoke)

LinkInv ==
  /\ link \in [Links -> {"none", "live", "consumed"}]
  /\ older \in [Links -> SUBSET Links] /\ resets \in [Links -> Nat]
  /\ \A l \in Links :
       /\ \A k \in older[l] : link[k] # "none"
       /\ link[l] = "live" => \A k \in older[l] : link[k] = "consumed"
       /\ resets[l] = 0 \/ (resets[l] = 1 /\ link[l] = "consumed")
  /\ \A p \in Procs :
       /\ pc[p] = "issue" => job[p].link \in Links /\ link[job[p].link] = "none"
       /\ pc[p] = "reset" => job[p].link \in Links /\ link[job[p].link] = "live"
  /\ \A p, q \in Procs :
       pc[p] = "issue" /\ pc[q] = "issue" /\ job[p].link = job[q].link => p = q

IInv == ProcInv /\ AccessInv /\ CredentialInv /\ LinkInv

-----------------------------------------------------------------------------
(* Rows and requests.                                                      *)

LEMMA RowFacts ==
  /\ \A o \in Orgs : /\ Member(o) \in Rows /\ Owner(o) \in Rows
                     /\ Member(o)[1] = "member" /\ Owner(o)[1] = "owner"
  /\ \A g \in Groups : InGroup(g) \in Rows /\ InGroup(g)[1] = "group" /\ InGroup(g)[2] = g
  /\ \A r \in Rows : \/ \E g \in Groups : r = InGroup(g)
                     \/ \E o \in Orgs : r = Member(o) \/ r = Owner(o)
  /\ \A o, u \in Orgs : /\ Member(o) = Member(u) => o = u
                        /\ Owner(o) = Owner(u) => o = u
                        /\ Member(o) # Owner(u)
  /\ \A g, h \in Groups : InGroup(g) = InGroup(h) => g = h
  /\ \A g \in Groups, o \in Orgs : InGroup(g) # Member(o) /\ InGroup(g) # Owner(o)
<1>1. \A r \in Rows : \/ \E g \in Groups : r = InGroup(g)
                      \/ \E o \in Orgs : r = Member(o) \/ r = Owner(o)
  BY DEF Rows, Access, InGroup, Member, Owner
<1>2. \A g \in Groups : InGroup(g) \in Rows
  <2>1. Access("group") \subseteq Rows
    BY DEF Rows
  <2> QED BY <2>1 DEF Access, InGroup
<1>3. \A o \in Orgs : Member(o) \in Rows /\ Owner(o) \in Rows
  <2>1. Access("member") \subseteq Rows /\ Access("owner") \subseteq Rows
    BY DEF Rows
  <2> QED BY <2>1 DEF Access, Member, Owner
<1> QED BY <1>1, <1>2, <1>3 DEF InGroup, Member, Owner

LEMMA AccessKinds ==
  \A kind \in Kinds : \A r \in Rows : r \in Access(kind) <=> r[1] = kind
<1> SUFFICES ASSUME NEW kind \in Kinds, NEW r \in Rows PROVE r \in Access(kind) <=> r[1] = kind
  OBVIOUS
<1>1. CASE \E g \in Groups : r = InGroup(g)
  BY <1>1 DEF Access, InGroup, Kinds
<1>2. CASE \E o \in Orgs : r = Member(o) \/ r = Owner(o)
  BY <1>2 DEF Access, Member, Owner, Kinds
<1> QED BY <1>1, <1>2, RowFacts

LEMMA KeptFacts ==
  /\ \A g \in Groups : Kept(InGroup(g)) <=> g \in groups
  /\ \A o \in Orgs : Kept(Member(o)) /\ Kept(Owner(o))
BY RowFacts DEF Kept

LEMMA RestoredFacts ==
  \A r : r \in Restored <=> snapshot # None /\ r \in snapshot /\ Kept(r)
BY DEF Restored, Kept

LEMMA IdleJob == Idle \in Jobs /\ Idle.rows = {} /\ Idle.link = None
BY DEF Idle, Jobs

LEMMA GotoFacts ==
  ASSUME ProcInv, NEW p \in Procs, NEW place \in Places, NEW with \in Jobs,
         Goto(p, place, with)
  PROVE  /\ pc' \in [Procs -> Places] /\ job' \in [Procs -> Jobs]
         /\ pc'[p] = place /\ job'[p] = with
         /\ \A q \in Procs : q # p => pc'[q] = pc[q] /\ job'[q] = job[q]
BY DEF ProcInv, Goto

-----------------------------------------------------------------------------
(* What a step leaves alone.                                               *)

LEMMA AccessKept ==
  ASSUME IInv, UNCHANGED <<orgs, groups, active, access, snapshot, owed, disturbed>>,
         \A q \in Procs : \/ pc'[q] = pc[q] /\ job'[q].rows = job[q].rows
                          \/ pc'[q] \notin Reading \ {"group"} /\ job'[q].rows = {}
  PROVE  AccessInv'
<1>1. RowTypes' /\ OwedInv'
  BY DEF IInv, AccessInv, RowTypes, OwedInv, ForeignKey, Kept
<1>2. PlaceInv'
  <2>1. \A q \in Procs : Placed(job[q].rows)'
    BY DEF IInv, AccessInv, PlaceInv, Placed
  <2> QED BY <2>1 DEF IInv, AccessInv, PlaceInv, Placed, Exist
<1>3. ASSUME NEW q \in Procs PROVE ReadOK(q)'
  <2>1. CASE pc'[q] = pc[q] /\ job'[q].rows = job[q].rows
    BY <2>1 DEF IInv, AccessInv, ReadOK, Kept
  <2>2. CASE pc'[q] \notin Reading \ {"group"} /\ job'[q].rows = {}
    BY <2>2 DEF ReadOK, Done
  <2> QED BY <2>1, <2>2
<1> QED BY <1>1, <1>2, <1>3 DEF AccessInv

LEMMA CredentialKept ==
  ASSUME IInv, UNCHANGED <<credential, ended>>,
         \A q \in Procs : pc'[q] \in Holders =>
           pc[q] \in Holders /\ job'[q].found = job[q].found /\ job'[q].revoke = job[q].revoke
  PROVE  CredentialInv'
BY DEF IInv, CredentialInv

LEMMA LinkKept ==
  ASSUME IInv, UNCHANGED <<link, older, resets>>,
         \A q \in Procs : pc'[q] \in {"issue", "reset"} =>
           pc'[q] = pc[q] /\ job'[q].link = job[q].link
  PROVE  LinkInv'
<1>1. \A q \in Procs :
        /\ pc'[q] = "issue" => job'[q].link \in Links /\ link'[job'[q].link] = "none"
        /\ pc'[q] = "reset" => job'[q].link \in Links /\ link'[job'[q].link] = "live"
  BY DEF IInv, LinkInv
<1>2. \A p, q \in Procs :
        pc'[p] = "issue" /\ pc'[q] = "issue" /\ job'[p].link = job'[q].link => p = q
  BY DEF IInv, LinkInv
<1> QED BY <1>1, <1>2 DEF IInv, LinkInv

-----------------------------------------------------------------------------
(* Administration.                                                         *)

(* The rows of added are of groups and organisations that will be there,   *)
(* and a group is new only with its organisation.                          *)
LEMMA AdministerAccess ==
  ASSUME IInv, NEW taken \in SUBSET Rows, NEW added \in SUBSET Rows,
         Administer(taken, added), UNCHANGED <<active, snapshot>>,
         orgs \subseteq orgs', orgs' \subseteq Orgs,
         groups \subseteq groups', groups' \subseteq Groups,
         \A g \in groups' \ groups : GroupOrg[g] \in orgs' \ orgs,
         ForeignKey((access \ taken) \union added),
         \A g \in Groups : InGroup(g) \in added => g \in groups',
         \A o \in Orgs : Member(o) \in added \/ Owner(o) \in added => o \in orgs',
         \A q \in Procs : \/ pc'[q] = pc[q] /\ job'[q].rows = job[q].rows
                          \/ pc'[q] \notin Reading /\ job'[q].rows = {}
  PROVE  AccessInv'
<1>1. /\ access' = (access \ taken) \union added /\ owed' = (owed \ taken) \union added
      /\ disturbed' = IF active /\ ~Deactivating THEN disturbed
                      ELSE disturbed \union taken \union (added \ access)
  BY DEF Administer
<1>2. RowTypes'
  <2>1. ForeignKey(access)'
    BY <1>1 DEF ForeignKey
  <2>2. disturbed' \subseteq Rows
    BY <1>1 DEF IInv, AccessInv, RowTypes
  <2> QED BY <1>1, <2>1, <2>2 DEF IInv, AccessInv, RowTypes
<1>3. PlaceInv'
  <2>1. \A g \in groups' : GroupOrg[g] \in orgs'
    BY DEF IInv, AccessInv, PlaceInv
  <2>2. Exist(access)' /\ Exist(owed)'
    BY <1>1 DEF IInv, AccessInv, PlaceInv, Exist
  <2>3. snapshot # None => Placed(snapshot)'
    BY DEF IInv, AccessInv, PlaceInv, Placed
  <2>4. \A q \in Procs : Placed(job[q].rows)'
    BY DEF IInv, AccessInv, PlaceInv, Placed
  <2> QED BY <2>1, <2>2, <2>3, <2>4 DEF PlaceInv
(* Of the rows that are left undisturbed none changes under a reader.      *)
<1>4. ASSUME ~active \/ Deactivating, NEW r \in Rows \ disturbed'
      PROVE  /\ r \in Rows \ disturbed /\ (r \in access' <=> r \in access)
             /\ r \in owed' <=> r \in owed
  <2>1. r \notin disturbed /\ r \notin taken /\ (r \in added => r \in access)
    BY <1>1, <1>4
  <2>2. r \in added => r \in owed
    BY <2>1 DEF IInv, AccessInv, OwedInv
  <2> QED BY <1>1, <2>1, <2>2
(* A group that is new has no rows yet.                                    *)
<1>5. ASSUME NEW r \in Rows, Kept(r)', ~ Kept(r)
      PROVE  /\ r \notin access /\ r \notin owed /\ (snapshot # None => r \notin snapshot)
             /\ \A q \in Procs : r \notin job[q].rows
  <2>1. PICK g \in Groups : r = InGroup(g)
    BY <1>5, RowFacts, KeptFacts
  <2>2. g \in groups' \ groups
    BY <1>5, <2>1, RowFacts DEF Kept
  <2>3. GroupOrg[g] \notin orgs
    BY <2>2
  <2> QED BY <2>1, <2>2, <2>3 DEF IInv, AccessInv, PlaceInv, Placed, Exist
<1>6. \A r \in Rows : Kept(r) => Kept(r)'
  BY DEF Kept
<1>7. ASSUME NEW q \in Procs PROVE ReadOK(q)'
  <2>1. SUFFICES ASSUME pc'[q] \in Reading PROVE ReadOK(q)'
    BY DEF ReadOK
  <2>2. pc'[q] = pc[q] /\ job'[q].rows = job[q].rows /\ pc[q] \in Reading
    BY <2>1
  <2>3. Deactivating /\ disturbed' = disturbed \union taken \union (added \ access)
    BY <1>1, <2>2 DEF Deactivating, Reading
  <2>4. ASSUME NEW r \in Rows \ disturbed', r[1] \in Done(pc[q]), Kept(r)'
        PROVE  r \in job[q].rows <=> r \in access'
    <3>1. r \in Rows \ disturbed /\ (r \in access' <=> r \in access)
      BY <1>4, <2>3
    <3>2. CASE Kept(r)
      BY <2>2, <2>4, <3>1, <3>2 DEF IInv, AccessInv, ReadOK
    <3>3. CASE ~ Kept(r)
      BY <1>5, <2>4, <3>1, <3>3
    <3> QED BY <3>2, <3>3
  <2>5. ASSUME NEW g \in Groups, InGroup(g) \in job[q].rows
        PROVE  Member(GroupOrg[g]) \in disturbed' \union
                 (IF pc[q] = "member" THEN access' ELSE job[q].rows)
    <3>1. Member(GroupOrg[g]) \in disturbed \union
            (IF pc[q] = "member" THEN access ELSE job[q].rows)
      BY <2>2, <2>5 DEF IInv, AccessInv, ReadOK
    <3> QED BY <1>1, <2>3, <3>1
  <2>6. \A r \in job[q].rows : r[1] \in Done(pc[q])
    BY <2>2 DEF IInv, AccessInv, ReadOK
  <2> QED BY <2>2, <2>4, <2>5, <2>6 DEF ReadOK
<1>8. OwedInv'
  <2>1. CASE active
    <3>1. \A r \in Rows \ disturbed' : r \in access' <=> r \in owed'
      <4>1. CASE Deactivating
        BY <1>4, <2>1, <4>1 DEF IInv, AccessInv, OwedInv
      <4>2. CASE ~ Deactivating
        BY <1>1, <2>1, <4>2 DEF IInv, AccessInv, OwedInv
      <4> QED BY <4>1, <4>2
    <3> QED BY <2>1, <3>1 DEF IInv, AccessInv, OwedInv
  <2>2. CASE ~ active
    <3>1. disturbed' = disturbed \union taken \union (added \ access) /\ snapshot # None
      BY <1>1, <2>2 DEF IInv, AccessInv, OwedInv
    <3>2. access' \subseteq disturbed'
      BY <1>1, <2>2, <3>1 DEF IInv, AccessInv, OwedInv
    <3>3. \A r \in Rows \ disturbed' : r \in owed' <=> r \in snapshot /\ Kept(r)'
      BY <1>4, <1>5, <1>6, <2>2, <3>1 DEF IInv, AccessInv, OwedInv
    <3>4. \A g \in Groups : InGroup(g) \in snapshot =>
            Member(GroupOrg[g]) \in snapshot \union disturbed'
      BY <2>2, <3>1 DEF IInv, AccessInv, OwedInv
    <3> QED BY <2>2, <3>1, <3>2, <3>3, <3>4 DEF OwedInv, IInv, AccessInv
  <2> QED BY <2>1, <2>2 DEF IInv, AccessInv, RowTypes
<1> QED BY <1>2, <1>3, <1>7, <1>8 DEF AccessInv

(* A request of administration does nothing but this.                      *)
LEMMA AdministeredIInv ==
  ASSUME IInv, Administered, AccessInv' PROVE IInv'
<1>1. UNCHANGED <<credential, ended, link, older, resets, lock, pc, job>>
  BY DEF Administered, logins, links
<1>2. ProcInv'
  BY <1>1 DEF IInv, ProcInv
<1>3. CredentialInv' /\ LinkInv'
  BY <1>1, CredentialKept, LinkKept
<1> QED BY <1>2, <1>3 DEF IInv

LEMMA AdministrationIInv ==
  ASSUME IInv,
         \/ \E o \in Orgs : CreateOrganization(o) \/ AddOrgMember(o) \/ RemoveOrgMember(o)
         \/ \E g \in Groups : AddGroupMember(g) \/ RemoveGroupMember(g) \/ DeleteGroup(g)
  PROVE  IInv'
<1>1. /\ orgs \subseteq Orgs /\ groups \subseteq Groups /\ ForeignKey(access)
      /\ \A g \in Groups : GroupOrg[g] \in Orgs
      /\ \A g \in groups : GroupOrg[g] \in orgs
      /\ \A o \in Orgs : Member(o) \in access => o \in orgs
  BY AccountAssumption DEF IInv, AccessInv, RowTypes, PlaceInv, Exist
<1>2. ASSUME Administered
      PROVE  \A q \in Procs : pc'[q] = pc[q] /\ job'[q].rows = job[q].rows
  BY <1>2 DEF Administered
<1>3. Administered => UNCHANGED <<active, snapshot>>
  BY DEF Administered
<1>4. ASSUME NEW o \in Orgs, CreateOrganization(o) PROVE IInv'
  <2>1. /\ o \notin orgs /\ orgs' = orgs \union {o}
        /\ groups' = groups \union {g \in Groups : GroupOrg[g] = o}
        /\ Administer({}, {Member(o), Owner(o)}) /\ Administered
    BY <1>4 DEF CreateOrganization
  <2>2. ForeignKey((access \ {}) \union {Member(o), Owner(o)})
    BY <1>1, RowFacts DEF ForeignKey
  <2>3. AccessInv'
    BY <1>1, <1>2, <1>3, <2>1, <2>2, RowFacts, AdministerAccess
  <2> QED BY <2>1, <2>3, AdministeredIInv
<1>5. ASSUME NEW o \in Orgs, AddOrgMember(o) PROVE IInv'
  <2>1. /\ o \in orgs /\ Administer({}, {Member(o)}) /\ Administered
        /\ orgs' = orgs /\ groups' = groups
    BY <1>5 DEF AddOrgMember
  <2>2. ForeignKey((access \ {}) \union {Member(o)})
    BY <1>1, RowFacts DEF ForeignKey
  <2>3. AccessInv'
    BY <1>1, <1>2, <1>3, <2>1, <2>2, RowFacts, AdministerAccess
  <2> QED BY <2>1, <2>3, AdministeredIInv
<1>6. ASSUME NEW o \in Orgs, RemoveOrgMember(o) PROVE IInv'
  <2>1. /\ Administer(RowsOf(o), {}) /\ Administered /\ orgs' = orgs /\ groups' = groups
    BY <1>6 DEF RemoveOrgMember
  <2>2. /\ RowsOf(o) \in SUBSET Rows
        /\ \A g \in Groups : InGroup(g) \in RowsOf(o) <=> GroupOrg[g] = o
        /\ \A u \in Orgs : Member(u) \in RowsOf(o) <=> u = o
    BY RowFacts DEF RowsOf
  <2>3. ForeignKey((access \ RowsOf(o)) \union {})
    BY <1>1, <2>2 DEF ForeignKey
  <2>4. AccessInv'
    BY <1>1, <1>2, <1>3, <2>1, <2>2, <2>3, AdministerAccess
  <2> QED BY <2>1, <2>4, AdministeredIInv
<1>7. ASSUME NEW g \in Groups, AddGroupMember(g) PROVE IInv'
  <2>1. /\ g \in groups /\ Member(GroupOrg[g]) \in access
        /\ Administer({}, {InGroup(g)}) /\ Administered /\ orgs' = orgs /\ groups' = groups
    BY <1>7 DEF AddGroupMember
  <2>2. ForeignKey((access \ {}) \union {InGroup(g)})
    BY <1>1, <2>1, RowFacts DEF ForeignKey
  <2>3. AccessInv'
    BY <1>1, <1>2, <1>3, <2>1, <2>2, RowFacts, AdministerAccess
  <2> QED BY <2>1, <2>3, AdministeredIInv
<1>8. ASSUME NEW g \in Groups, RemoveGroupMember(g) PROVE IInv'
  <2>1. /\ Administer({InGroup(g)}, {}) /\ Administered /\ orgs' = orgs /\ groups' = groups
    BY <1>8 DEF RemoveGroupMember
  <2>2. ForeignKey((access \ {InGroup(g)}) \union {})
    BY <1>1, RowFacts DEF ForeignKey
  <2>3. AccessInv'
    BY <1>1, <1>2, <1>3, <2>1, <2>2, RowFacts, AdministerAccess
  <2> QED BY <2>1, <2>3, AdministeredIInv
(* What a deleted group leaves in a snapshot is never restored.            *)
<1>9. ASSUME NEW g \in Groups, DeleteGroup(g) PROVE IInv'
  <2>1. /\ groups' = groups \ {g} /\ access' = access \ {InGroup(g)}
        /\ owed' = owed \ {InGroup(g)} /\ UNCHANGED <<disturbed, orgs>> /\ Administered
        /\ UNCHANGED <<active, snapshot, pc, job>>
    BY <1>9 DEF DeleteGroup, Administered
  <2>2. RowTypes'
    <3>1. ForeignKey(access)'
      BY <1>1, <2>1, RowFacts DEF ForeignKey
    <3>2. groups' \subseteq Groups /\ access' \subseteq Rows /\ owed' \subseteq Rows
      BY <2>1 DEF IInv, AccessInv, RowTypes
    <3> QED BY <2>1, <3>1, <3>2 DEF IInv, AccessInv, RowTypes
  <2>3. PlaceInv'
    <3>1. Exist(access)' /\ Exist(owed)'
      BY <2>1, RowFacts DEF IInv, AccessInv, PlaceInv, Exist
    <3> QED BY <2>1, <3>1 DEF IInv, AccessInv, PlaceInv, Placed
  <2>4. \A r \in Rows : /\ Kept(r)' <=> Kept(r) /\ r # InGroup(g)
                        /\ r # InGroup(g) => /\ r \in access' <=> r \in access
                                             /\ r \in owed' <=> r \in owed
    <3>1. \A r \in Rows : Kept(r)' <=> Kept(r) /\ r # InGroup(g)
      <4>1. ASSUME NEW h \in Groups PROVE Kept(InGroup(h))' <=> h \in groups'
        BY RowFacts DEF Kept
      <4>2. ASSUME NEW o \in Orgs PROVE Kept(Member(o))' /\ Kept(Owner(o))'
        BY RowFacts DEF Kept
      <4> QED BY <2>1, <4>1, <4>2, RowFacts, KeptFacts
    <3> QED BY <2>1, <3>1
  <2>5. \A q \in Procs : ReadOK(q)'
    <3>1. ASSUME NEW q \in Procs, pc[q] \in Reading PROVE ReadOK(q)'
      <4>1. \A r \in Rows \ disturbed :
              r[1] \in Done(pc[q]) /\ Kept(r)' => (r \in job[q].rows <=> r \in access')
        BY <2>4, <3>1 DEF IInv, AccessInv, ReadOK
      <4>2. \A h \in Groups : InGroup(h) \in job[q].rows =>
              Member(GroupOrg[h]) \in disturbed \union
                (IF pc[q] = "member" THEN access' ELSE job[q].rows)
        BY <1>1, <2>1, <3>1, RowFacts DEF IInv, AccessInv, ReadOK
      <4>3. \A r \in job[q].rows : r[1] \in Done(pc[q])
        BY <3>1 DEF IInv, AccessInv, ReadOK
      <4> QED BY <2>1, <4>1, <4>2, <4>3 DEF ReadOK
    <3> QED BY <2>1, <3>1 DEF ReadOK
  <2>6. OwedInv'
    <3>1. InGroup(g) \notin owed' /\ InGroup(g) \notin access'
      BY <2>1
    <3> QED BY <2>1, <2>4, <3>1 DEF IInv, AccessInv, OwedInv
  <2>7. AccessInv'
    BY <2>2, <2>3, <2>5, <2>6 DEF AccessInv
  <2> QED BY <2>1, <2>7, AdministeredIInv
<1> QED BY <1>4, <1>5, <1>6, <1>7, <1>8, <1>9

-----------------------------------------------------------------------------
(* Deactivation and reactivation.                                          *)

LEMMA DeactivateIInv ==
  ASSUME IInv, NEW p \in Procs, Deactivate(p) PROVE IInv'
<1>1. PICK j : j = [Idle EXCEPT !.revoke = Revoked,
                                !.found = {c \in DOMAIN Credentials : credential[c] # "none"}]
  OBVIOUS
<1>2. /\ lock = None /\ lock' = p /\ pc[p] = "idle" /\ Goto(p, "group", j)
      /\ UNCHANGED <<orgs, groups, active, access, snapshot, owed, disturbed>>
      /\ UNCHANGED <<credential, ended, link, older, resets>>
  BY <1>1 DEF Deactivate, Unlocked, Receive, account, logins, links, history
<1>3. /\ j \in Jobs /\ j.rows = {} /\ j.revoke = Live({"session", "token"})
      /\ j.found = {c \in DOMAIN Credentials : credential[c] # "none"}
  BY <1>1 DEF Idle, Jobs, Live, Revoked
<1>4. /\ pc' \in [Procs -> Places] /\ job' \in [Procs -> Jobs]
      /\ pc'[p] = "group" /\ job'[p] = j
      /\ \A q \in Procs : q # p => pc'[q] = pc[q] /\ job'[q] = job[q]
  BY <1>2, <1>3, GotoFacts DEF IInv, Places, Holders, Reading
<1>5. ProcInv'
  BY <1>2, <1>4, AccountAssumption DEF IInv, ProcInv, Holders, Reading
<1>6. AccessInv'
  BY <1>2, <1>3, <1>4, AccessKept
<1>7. CredentialInv'
  <2>1. ASSUME NEW c \in j.found
        PROVE  credential[c] # "none" /\ (credential[c] = "live" => c \in j.revoke)
    BY <1>3, <2>1, AccountAssumption DEF Live
  <2> QED BY <1>2, <1>4, <2>1 DEF IInv, CredentialInv
<1>8. LinkInv'
  BY <1>2, <1>4, LinkKept
<1> QED BY <1>5, <1>6, <1>7, <1>8 DEF IInv

(* The statement reads what is there: the rows of one more kind.           *)
LEMMA ReadAccessIInv ==
  ASSUME IInv, NEW p \in Procs, ReadAccess(p) PROVE IInv'
<1>1. PICK kind : kind = pc[p]
  OBVIOUS
<1>2. PICK place : place = NextRead[kind]
  OBVIOUS
<1>3. PICK j : j = [job[p] EXCEPT !.rows = job[p].rows \union (access \intersect Access(kind))]
  OBVIOUS
<1>4. /\ Goto(p, place, j) /\ kind \in DOMAIN NextRead
      /\ UNCHANGED <<orgs, groups, active, access, snapshot, owed, disturbed>>
      /\ UNCHANGED <<credential, ended, link, older, resets, lock>>
  BY <1>1, <1>2, <1>3 DEF ReadAccess, account, logins, links, history
<1>5. /\ kind \in Kinds /\ place \in Reading \ {"group"}
      /\ Done(place) = Done(kind) \union {kind}
      /\ place = "member" => kind = "group"
      /\ place = "owner" => kind = "member"
  BY <1>2, <1>4 DEF NextRead, Kinds, Reading, Done
<1>6. /\ RowTypes /\ PlaceInv /\ ReadOK(p) /\ job[p] \in Jobs /\ pc[p] \in Reading
  BY <1>1, <1>5 DEF IInv, AccessInv, ProcInv, Kinds, Reading
<1>7. /\ j \in Jobs /\ j.rows = job[p].rows \union (access \intersect Access(kind))
      /\ j.found = job[p].found /\ j.revoke = job[p].revoke
  BY <1>3, <1>6 DEF RowTypes, Jobs
<1>8. /\ pc' \in [Procs -> Places] /\ job' \in [Procs -> Jobs]
      /\ pc'[p] = place /\ job'[p] = j
      /\ \A q \in Procs : q # p => pc'[q] = pc[q] /\ job'[q] = job[q]
  BY <1>4, <1>5, <1>7, GotoFacts DEF IInv, Places, Holders
<1>9. ProcInv'
  <2>1. \A q \in Procs : pc'[q] \in Holders <=> pc[q] \in Holders
    BY <1>5, <1>6, <1>8 DEF Holders
  <2> QED BY <1>4, <1>8, <2>1 DEF IInv, ProcInv
<1>10. PlaceInv'
  <2>1. Placed(job[p].rows) /\ Exist(access) /\ \A g \in groups : GroupOrg[g] \in orgs
    BY <1>6 DEF PlaceInv
  <2>2. Placed(j.rows)
    BY <1>7, <2>1 DEF Placed, Exist
  <2>3. \A q \in Procs : Placed(job[q].rows)'
    BY <1>4, <1>6, <1>8, <2>2 DEF PlaceInv, Placed
  <2> QED BY <1>4, <1>6, <2>3 DEF PlaceInv, Placed, Exist
<1>11. \A r \in Rows : r \in j.rows <=> r \in job[p].rows \/ (r \in access /\ r[1] = kind)
  BY <1>5, <1>7, AccessKinds
<1>12. ReadOK(p)'
  <2>1. \A r \in job[p].rows : r \in Rows /\ r[1] \in Done(kind)
    BY <1>1, <1>6 DEF ReadOK, Jobs
  <2>2. \A r \in j.rows : r[1] \in Done(place)
    BY <1>5, <1>7, <1>11, <2>1, <1>6 DEF RowTypes
  <2>3. ASSUME NEW r \in Rows \ disturbed, r[1] \in Done(place), Kept(r)
        PROVE  r \in j.rows <=> r \in access
    BY <1>1, <1>5, <1>6, <1>11, <2>3 DEF ReadOK
  <2>4. ASSUME NEW g \in Groups, InGroup(g) \in j.rows
        PROVE  Member(GroupOrg[g]) \in disturbed \union (IF place = "member" THEN access ELSE j.rows)
    <3>1. /\ Member(GroupOrg[g]) \in Rows /\ Member(GroupOrg[g])[1] = "member"
          /\ InGroup(g) \in Rows /\ InGroup(g)[1] = "group"
      BY RowFacts, AccountAssumption
    <3>2. CASE kind = "group"
      <4>1. place = "member" /\ InGroup(g) \in access
        BY <1>2, <1>1, <1>11, <2>1, <2>4, <3>1, <3>2 DEF NextRead, Done
      <4> QED BY <1>6, <4>1 DEF RowTypes, ForeignKey
    <3>3. CASE kind # "group"
      <4>1. place # "member" /\ InGroup(g) \in job[p].rows
        BY <1>5, <1>11, <2>4, <3>1, <3>3 DEF Kinds
      <4>2. Member(GroupOrg[g]) \in disturbed \union
              (IF kind = "member" THEN access ELSE job[p].rows)
        BY <1>1, <1>6, <4>1 DEF ReadOK
      <4> QED BY <1>11, <3>1, <4>1, <4>2
    <3> QED BY <3>2, <3>3
  <2>5. \A r \in Rows : Kept(r)' <=> Kept(r)
    BY <1>4 DEF Kept
  <2> QED BY <1>4, <1>8, <2>2, <2>3, <2>4, <2>5 DEF ReadOK
<1>13. \A q \in Procs : q # p => ReadOK(q)'
  BY <1>4, <1>8 DEF IInv, AccessInv, ReadOK, Kept
<1>14. RowTypes' /\ OwedInv'
  BY <1>4 DEF IInv, AccessInv, RowTypes, OwedInv, ForeignKey, Kept
<1>15. AccessInv'
  BY <1>10, <1>12, <1>13, <1>14 DEF AccessInv
<1>16. CredentialInv'
  BY <1>4, <1>6, <1>7, <1>8, CredentialKept DEF Holders
<1>17. LinkInv'
  BY <1>4, <1>5, <1>8, LinkKept DEF Reading
<1> QED BY <1>9, <1>15, <1>16, <1>17 DEF IInv

(* Whoever holds the row of the user holds it alone.                       *)
LEMMA ReleaseLock ==
  ASSUME IInv, NEW p \in Procs, pc[p] \in Holders, lock' = None, Goto(p, "idle", Idle)
  PROVE  /\ ProcInv' /\ pc'[p] = "idle" /\ job'[p] = Idle
         /\ \A q \in Procs : q # p => /\ pc'[q] = pc[q] /\ job'[q] = job[q]
                                      /\ pc[q] \notin Holders
<1>1. /\ pc' \in [Procs -> Places] /\ job' \in [Procs -> Jobs]
      /\ pc'[p] = "idle" /\ job'[p] = Idle
      /\ \A q \in Procs : q # p => pc'[q] = pc[q] /\ job'[q] = job[q]
  BY IdleJob, GotoFacts DEF IInv, Places
<1>2. \A q \in Procs : q # p => pc[q] \notin Holders
  BY DEF IInv, ProcInv
<1>3. "idle" \notin Holders
  BY DEF Holders, Reading
<1> QED BY <1>1, <1>2, <1>3, AccountAssumption DEF ProcInv

(* What a revocation has found is live no more.                            *)
LEMMA RevokeCredentials ==
  ASSUME IInv, NEW p \in Procs, pc[p] \in Holders, Revoke(p), ended' = ended \union job[p].found
  PROVE  CredentialInv'
<1>1. /\ credential' = [c \in DOMAIN Credentials |->
                          IF c \in job[p].revoke THEN "revoked" ELSE credential[c]]
      /\ lock' = None /\ Goto(p, "idle", Idle)
  BY DEF Revoke, Finish
<1>2. \A q \in Procs : pc'[q] \notin Holders
  BY <1>1, ReleaseLock DEF Holders, Reading
<1>3. job[p].found \subseteq DOMAIN Credentials
  BY DEF IInv, ProcInv, Jobs
<1>4. \A c \in ended \union job[p].found : credential'[c] = "revoked"
  BY <1>1, <1>3 DEF IInv, CredentialInv
<1> QED BY <1>1, <1>2, <1>3, <1>4 DEF IInv, CredentialInv

LEMMA RemoveAccessIInv ==
  ASSUME IInv, NEW p \in Procs, RemoveAccess(p) PROVE IInv'
<1>1. /\ pc[p] = "remove" /\ active' = FALSE /\ access' = {} /\ Revoke(p)
      /\ snapshot' = IF snapshot = None THEN job[p].rows ELSE snapshot
      /\ ended' = ended \union job[p].found
      /\ UNCHANGED <<orgs, groups, owed, disturbed, link, older, resets>>
  BY DEF RemoveAccess, InsertedSnapshot, links, history
<1>2. lock' = None /\ Goto(p, "idle", Idle)
  BY <1>1 DEF Revoke, Finish
<1>3. /\ ProcInv' /\ pc'[p] = "idle" /\ job'[p] = Idle
      /\ \A q \in Procs : q # p => /\ pc'[q] = pc[q] /\ job'[q] = job[q]
                                   /\ pc[q] \notin Holders
  BY <1>1, <1>2, ReleaseLock DEF Holders, Reading
<1>4. CredentialInv'
  BY <1>1, RevokeCredentials DEF Holders, Reading
<1>5. LinkInv'
  BY <1>1, <1>3, LinkKept
<1>6. job[p].rows \in SUBSET Rows /\ Placed(job[p].rows) /\ ReadOK(p)
  BY DEF IInv, ProcInv, AccessInv, PlaceInv, Jobs
<1>7. snapshot' # None /\ snapshot' \subseteq Rows
  BY <1>1, <1>6, NoneIsNoSnapshot DEF IInv, AccessInv, RowTypes
<1>8. RowTypes'
  BY <1>1, <1>7 DEF IInv, AccessInv, RowTypes, ForeignKey
<1>9. PlaceInv'
  <2>1. Placed(snapshot)'
    BY <1>1, <1>6 DEF IInv, AccessInv, PlaceInv, Placed
  <2>2. \A q \in Procs : Placed(job[q].rows)'
    BY <1>1, <1>3, IdleJob DEF IInv, AccessInv, PlaceInv, Placed
  <2> QED BY <1>1, <2>1, <2>2 DEF IInv, AccessInv, PlaceInv, Exist
<1>10. \A q \in Procs : ReadOK(q)'
  BY <1>3 DEF ReadOK, Holders, Reading
<1>11. OwedInv'
  <2>1. \A r \in Rows : /\ Kept(r)' <=> Kept(r)
                        /\ r \in owed => Kept(r)
    <3>1. \A r \in Rows : Kept(r)' <=> Kept(r)
      BY <1>1 DEF Kept
    <3>2. \A r \in Rows : r \in owed => Kept(r)
      BY RowFacts, KeptFacts DEF IInv, AccessInv, PlaceInv, Exist
    <3> QED BY <3>1, <3>2
  <2>2. CASE snapshot = None
    <3>1. active /\ snapshot' = job[p].rows
      BY <1>1, <2>2 DEF IInv, AccessInv, OwedInv
    <3>2. ASSUME NEW r \in Rows \ disturbed
          PROVE  r \in owed <=> r \in job[p].rows /\ Kept(r)
      <4>1. r[1] \in Done("remove")
        BY RowFacts DEF Done, Kinds
      <4>2. r \in access <=> r \in owed
        BY <3>1 DEF IInv, AccessInv, OwedInv
      <4>3. Kept(r) => (r \in job[p].rows <=> r \in access)
        BY <1>1, <1>6, <4>1 DEF ReadOK, Reading
      <4> QED BY <2>1, <4>2, <4>3
    <3>3. \A g \in Groups : InGroup(g) \in job[p].rows =>
            Member(GroupOrg[g]) \in job[p].rows \union disturbed
      BY <1>1, <1>6 DEF ReadOK, Reading
    <3> QED BY <1>1, <1>7, <2>1, <3>1, <3>2, <3>3 DEF OwedInv
  <2>3. CASE snapshot # None
    <3>1. ~ active /\ snapshot' = snapshot
      BY <1>1, <2>3 DEF IInv, AccessInv, RowTypes, OwedInv
    <3> QED BY <1>1, <1>7, <2>1, <3>1 DEF IInv, AccessInv, OwedInv
  <2> QED BY <2>2, <2>3
<1>12. AccessInv'
  BY <1>8, <1>9, <1>10, <1>11 DEF AccessInv
<1> QED BY <1>3, <1>4, <1>5, <1>12 DEF IInv

(* The snapshot gives back what the user is owed.                          *)
LEMMA ReactivateIInv ==
  ASSUME IInv, Reactivate PROVE IInv'
<1>1. /\ lock = None /\ ForeignKey(access \union Restored)
      /\ active' = TRUE /\ snapshot' = None /\ access' = access \union Restored
      /\ UNCHANGED <<orgs, groups, owed, disturbed>>
      /\ UNCHANGED <<credential, ended, link, older, resets, lock, pc, job>>
  BY DEF Reactivate, Unlocked, logins, links, history
<1>2. \A q \in Procs : pc[q] \notin Reading
  BY <1>1, AccountAssumption DEF IInv, ProcInv, Holders
<1>3. Restored \subseteq Rows
  BY RestoredFacts DEF IInv, AccessInv, RowTypes
<1>4. RowTypes'
  <2>1. ForeignKey(access)'
    BY <1>1 DEF ForeignKey
  <2> QED BY <1>1, <1>3, <2>1 DEF IInv, AccessInv, RowTypes
<1>5. PlaceInv'
  <2>1. Exist(Restored)
    BY RestoredFacts, KeptFacts DEF IInv, AccessInv, PlaceInv, Placed, Exist
  <2>2. Exist(access)'
    BY <1>1, <2>1 DEF IInv, AccessInv, PlaceInv, Exist
  <2>3. Exist(owed)' /\ \A q \in Procs : Placed(job[q].rows)'
    BY <1>1 DEF IInv, AccessInv, PlaceInv, Exist, Placed
  <2> QED BY <1>1, <2>2, <2>3 DEF IInv, AccessInv, PlaceInv
<1>6. OwedInv'
  <2>1. ASSUME NEW r \in Rows \ disturbed PROVE r \in access' <=> r \in owed
    <3>1. CASE active
      <4>1. r \notin Restored
        BY <3>1, RestoredFacts DEF IInv, AccessInv, OwedInv
      <4> QED BY <1>1, <3>1, <4>1 DEF IInv, AccessInv, OwedInv
    <3>2. CASE ~ active
      <4>1. r \notin access /\ (r \in owed <=> r \in snapshot /\ Kept(r)) /\ snapshot # None
        BY <3>2 DEF IInv, AccessInv, OwedInv
      <4> QED BY <1>1, <4>1, RestoredFacts
    <3> QED BY <3>1, <3>2
  <2> QED BY <1>1, <2>1 DEF OwedInv
<1>7. AccessInv'
  BY <1>1, <1>2, <1>4, <1>5, <1>6 DEF AccessInv, ReadOK
<1>8. ProcInv' /\ CredentialInv' /\ LinkInv'
  BY <1>1, CredentialKept, LinkKept DEF IInv, ProcInv
<1> QED BY <1>7, <1>8 DEF IInv

-----------------------------------------------------------------------------
(* Logins.                                                                 *)

(* A request that holds nothing goes where nothing is promised of it.      *)
LEMMA MoveProc ==
  ASSUME IInv, NEW p \in Procs, pc[p] \notin Holders, UNCHANGED lock,
         NEW place \in {"idle", "verified", "claim", "issue"}, NEW j \in Jobs, Goto(p, place, j)
  PROVE  /\ ProcInv' /\ pc'[p] = place /\ job'[p] = j
         /\ \A q \in Procs : q # p => pc'[q] = pc[q] /\ job'[q] = job[q]
         /\ \A q \in Procs : pc'[q] \in Holders => pc'[q] = pc[q] /\ job'[q] = job[q]
<1>1. /\ pc' \in [Procs -> Places] /\ job' \in [Procs -> Jobs]
      /\ pc'[p] = place /\ job'[p] = j
      /\ \A q \in Procs : q # p => pc'[q] = pc[q] /\ job'[q] = job[q]
  BY GotoFacts DEF IInv, Places
<1>2. place \notin Holders
  BY DEF Holders, Reading
<1>3. ProcInv'
  BY <1>1, <1>2 DEF IInv, ProcInv
<1> QED BY <1>1, <1>2, <1>3

LEMMA MoveIInv ==
  ASSUME IInv, NEW p \in Procs, pc[p] \notin Holders, UNCHANGED lock,
         NEW place \in {"idle", "verified", "claim"}, Goto(p, place, Idle),
         UNCHANGED <<orgs, groups, active, access, snapshot, owed, disturbed>>
  PROVE  /\ ProcInv' /\ AccessInv'
         /\ (UNCHANGED <<credential, ended>> => CredentialInv')
         /\ (UNCHANGED <<link, older, resets>> => LinkInv')
<1>1. /\ ProcInv' /\ pc'[p] = place /\ job'[p] = Idle
      /\ \A q \in Procs : q # p => pc'[q] = pc[q] /\ job'[q] = job[q]
      /\ \A q \in Procs : pc'[q] \in Holders => pc'[q] = pc[q] /\ job'[q] = job[q]
  BY MoveProc, IdleJob
<1>2. AccessInv'
  BY <1>1, IdleJob, AccessKept DEF Reading
<1>3. UNCHANGED <<credential, ended>> => CredentialInv'
  BY <1>1, CredentialKept
<1>4. UNCHANGED <<link, older, resets>> => LinkInv'
  BY <1>1, LinkKept
<1> QED BY <1>1, <1>2, <1>3, <1>4

LEMMA LoginIInv ==
  ASSUME IInv, NEW p \in Procs,
         Verify(p) \/ Claim(p) \/ \E c \in DOMAIN Credentials : Insert(p, c)
  PROVE  IInv'
<1>1. CASE Verify(p) \/ Claim(p)
  <2>1. PICK place \in {"verified", "claim"} :
          /\ pc[p] = "idle" /\ Goto(p, place, Idle)
          /\ UNCHANGED <<orgs, groups, active, access, snapshot, owed, disturbed>>
          /\ UNCHANGED <<credential, ended>> /\ UNCHANGED <<link, older, resets>>
          /\ UNCHANGED lock
    BY <1>1 DEF Verify, Claim, Receive, account, logins, links, history
  <2> QED BY <2>1, MoveIInv DEF IInv, Holders, Reading
<1>2. ASSUME NEW c \in DOMAIN Credentials, Insert(p, c) PROVE IInv'
  <2>1. /\ pc[p] = "verified" /\ Goto(p, "idle", Idle) /\ credential[c] = "none"
        /\ credential' = [credential EXCEPT ![c] = "live"] /\ ended' = ended
        /\ UNCHANGED <<orgs, groups, active, access, snapshot, owed, disturbed>>
        /\ UNCHANGED <<link, older, resets>> /\ UNCHANGED lock
    BY <1>2 DEF Insert, Finish, account, links, history
  <2>2. ProcInv' /\ AccessInv' /\ LinkInv'
    BY <2>1, MoveIInv DEF Holders, Reading
  <2>3. \A q \in Procs : pc'[q] \in Holders => pc'[q] = pc[q] /\ job'[q] = job[q]
    BY <2>1, MoveProc, IdleJob DEF Holders, Reading
  <2>4. CredentialInv'
    BY <2>1, <2>3 DEF IInv, CredentialInv
  <2> QED BY <2>2, <2>4 DEF IInv
<1> QED BY <1>1, <1>2

LEMMA RevokeOneIInv ==
  ASSUME IInv, NEW c \in DOMAIN Credentials, RevokeOne(c) PROVE IInv'
<1>1. /\ credential' = [credential EXCEPT ![c] = "revoked"] /\ ended' = ended
      /\ UNCHANGED <<orgs, groups, active, access, snapshot, owed, disturbed>>
      /\ UNCHANGED <<link, older, resets>> /\ UNCHANGED <<lock, pc, job>>
  BY DEF RevokeOne, account, links, history
<1>2. ProcInv'
  BY <1>1 DEF IInv, ProcInv
<1>3. AccessInv' /\ LinkInv'
  BY <1>1, AccessKept, LinkKept
<1>4. CredentialInv'
  BY <1>1 DEF IInv, CredentialInv
<1> QED BY <1>2, <1>3, <1>4 DEF IInv

LEMMA SyncIInv ==
  ASSUME IInv, NEW p \in Procs, NEW claimed \in SUBSET Mapped, Sync(p, claimed) PROVE IInv'
<1>1. PICK place \in {"idle", "verified"} : Goto(p, place, Idle)
  BY DEF Sync, Finish
<1>2. PICK taken, added : /\ taken = {InGroup(g) : g \in Mapped}
                          /\ added = Claimed(claimed)
  OBVIOUS
<1>3. /\ pc[p] = "claim" /\ claimed \subseteq groups /\ Administer(taken, added)
      /\ UNCHANGED <<orgs, groups, active, snapshot>> /\ UNCHANGED lock
      /\ UNCHANGED <<credential, ended>> /\ UNCHANGED <<link, older, resets>>
  BY <1>2 DEF Sync, logins, links
<1>4. /\ ProcInv' /\ pc'[p] = place /\ job'[p] = Idle
      /\ \A q \in Procs : q # p => pc'[q] = pc[q] /\ job'[q] = job[q]
      /\ \A q \in Procs : pc'[q] \in Holders => pc'[q] = pc[q] /\ job'[q] = job[q]
  BY <1>1, <1>3, MoveProc, IdleJob DEF Holders, Reading
<1>5. CredentialInv' /\ LinkInv'
  BY <1>3, <1>4, CredentialKept, LinkKept
<1>6. /\ \A g \in Groups : InGroup(g) \in added <=> g \in claimed
      /\ \A o \in Orgs : Member(o) \in added <=> \E g \in claimed : GroupOrg[g] = o
      /\ \A o \in Orgs : Owner(o) \notin added
      /\ \A g \in Groups : InGroup(g) \in taken <=> g \in Mapped
      /\ \A o \in Orgs : Member(o) \notin taken
      /\ taken \in SUBSET Rows /\ added \in SUBSET Rows
  <2>1. \A g \in Mapped : g \in Groups /\ GroupOrg[g] \in Orgs
    BY AccountAssumption
  <2>2. taken \in SUBSET Rows /\ added \in SUBSET Rows
    BY <1>2, <2>1, RowFacts DEF Claimed
  <2>3. \A g \in Groups : InGroup(g) \in taken <=> g \in Mapped
    BY <1>2, <2>1, RowFacts
  <2>4. \A g \in Groups : InGroup(g) \in added <=> g \in claimed
    BY <1>2, <2>1, RowFacts DEF Claimed
  <2>5. \A o \in Orgs : Member(o) \in added <=> \E g \in claimed : GroupOrg[g] = o
    BY <1>2, <2>1, RowFacts DEF Claimed
  <2>6. \A o \in Orgs : Member(o) \notin taken /\ Owner(o) \notin added
    BY <1>2, <2>1, RowFacts DEF Claimed
  <2> QED BY <2>2, <2>3, <2>4, <2>5, <2>6
<1>7. ForeignKey((access \ taken) \union added)
  BY <1>6, AccountAssumption DEF IInv, AccessInv, RowTypes, ForeignKey
<1>8. /\ \A g \in Groups : InGroup(g) \in added => g \in groups'
      /\ \A o \in Orgs : Member(o) \in added \/ Owner(o) \in added => o \in orgs'
  BY <1>3, <1>6 DEF IInv, AccessInv, PlaceInv
<1>9. \A q \in Procs : \/ pc'[q] = pc[q] /\ job'[q].rows = job[q].rows
                       \/ pc'[q] \notin Reading /\ job'[q].rows = {}
  BY <1>4, IdleJob DEF Reading
<1>10. orgs \subseteq Orgs /\ groups \subseteq Groups
  BY DEF IInv, AccessInv, RowTypes
<1>11. AccessInv'
  BY <1>3, <1>6, <1>7, <1>8, <1>9, <1>10, AdministerAccess
<1> QED BY <1>4, <1>5, <1>11 DEF IInv

-----------------------------------------------------------------------------
(* Links.                                                                  *)

LEMMA AskIInv ==
  ASSUME IInv, NEW p \in Procs, NEW l \in Links, Ask(p, l) PROVE IInv'
<1>1. PICK j : j = [Idle EXCEPT !.link = l]
  OBVIOUS
<1>2. /\ link[l] = "none" /\ \A q \in Procs : job[q].link # l
      /\ pc[p] = "idle" /\ Goto(p, "issue", j)
      /\ older' = [older EXCEPT ![l] = {k \in Links : link[k] # "none"}]
      /\ UNCHANGED <<orgs, groups, active, access, snapshot, owed, disturbed>>
      /\ UNCHANGED <<credential, ended>> /\ UNCHANGED <<link, resets>> /\ UNCHANGED lock
  BY <1>1 DEF Ask, Receive, account, logins, history
<1>3. j \in Jobs /\ j.rows = {} /\ j.link = l
  BY <1>1 DEF Idle, Jobs
<1>4. /\ ProcInv' /\ pc'[p] = "issue" /\ job'[p] = j
      /\ \A q \in Procs : q # p => pc'[q] = pc[q] /\ job'[q] = job[q]
      /\ \A q \in Procs : pc'[q] \in Holders => pc'[q] = pc[q] /\ job'[q] = job[q]
  BY <1>2, <1>3, MoveProc DEF Holders, Reading
<1>5. AccessInv' /\ CredentialInv'
  BY <1>2, <1>3, <1>4, AccessKept, CredentialKept DEF Reading
<1>6. LinkInv'
  <2>1. \A k \in Links : /\ \A m \in older'[k] : link[m] # "none"
                         /\ link[k] = "live" => older'[k] = older[k]
    BY <1>2 DEF IInv, LinkInv
  <2>2. older' \in [Links -> SUBSET Links]
    BY <1>2 DEF IInv, LinkInv
  <2>3. \A k \in Links : link[k] = "live" => \A m \in older'[k] : link[m] = "consumed"
    BY <2>1 DEF IInv, LinkInv
  <2>4. \A q \in Procs :
          /\ pc'[q] = "issue" => job'[q].link \in Links /\ link[job'[q].link] = "none"
          /\ pc'[q] = "reset" => job'[q].link \in Links /\ link[job'[q].link] = "live"
    BY <1>2, <1>3, <1>4 DEF IInv, LinkInv
  <2>5. \A q, t \in Procs :
          pc'[q] = "issue" /\ pc'[t] = "issue" /\ job'[q].link = job'[t].link => q = t
    BY <1>2, <1>3, <1>4 DEF IInv, LinkInv
  <2> QED BY <1>2, <2>1, <2>2, <2>3, <2>4, <2>5 DEF IInv, LinkInv
<1> QED BY <1>4, <1>5, <1>6 DEF IInv

(* The link is new, and those that were there before it are consumed.      *)
LEMMA IssueIInv ==
  ASSUME IInv, NEW p \in Procs, Issue(p) PROVE IInv'
<1>1. PICK l : l = job[p].link
  OBVIOUS
<1>2. /\ pc[p] = "issue" /\ Goto(p, "idle", Idle)
      /\ \A q \in Procs : pc[q] = "reset" => job[q].link \notin older[l]
      /\ link' = [k \in Links |-> IF k = l THEN "live"
                                  ELSE IF k \in older[l] THEN "consumed" ELSE link[k]]
      /\ UNCHANGED <<orgs, groups, active, access, snapshot, owed, disturbed>>
      /\ UNCHANGED <<credential, ended>> /\ UNCHANGED <<older, resets>> /\ UNCHANGED lock
  BY <1>1 DEF Issue, Invalidated, Finish, account, logins, history
<1>3. l \in Links /\ link[l] = "none"
  BY <1>1, <1>2 DEF IInv, LinkInv
<1>4. ProcInv' /\ AccessInv' /\ CredentialInv'
  BY <1>2, MoveIInv DEF Holders, Reading
<1>5. /\ pc'[p] = "idle"
      /\ \A q \in Procs : q # p => pc'[q] = pc[q] /\ job'[q] = job[q]
  BY <1>2, MoveProc, IdleJob DEF Holders, Reading
<1>6. LinkInv'
  <2>1. link' \in [Links -> {"none", "live", "consumed"}]
    BY <1>2 DEF IInv, LinkInv
  <2>2. /\ link'[l] = "live" /\ l \notin older[l]
        /\ \A k \in older[l] : link'[k] = "consumed"
        /\ \A k \in Links : k # l /\ k \notin older[l] => link'[k] = link[k]
    BY <1>2, <1>3 DEF IInv, LinkInv
  <2>3. ASSUME NEW k \in Links
        PROVE  /\ \A m \in older[k] : link'[m] # "none"
               /\ link'[k] = "live" => \A m \in older[k] : link'[m] = "consumed"
               /\ resets[k] = 0 \/ (resets[k] = 1 /\ link'[k] = "consumed")
    <3>1. \A m \in older[k] : m \in Links /\ m # l /\ link[m] # "none"
      BY <1>3 DEF IInv, LinkInv
    <3>2. \A m \in older[k] : link'[m] = "consumed" \/ link'[m] = link[m]
      BY <2>2, <3>1
    <3>3. k # l /\ link'[k] = "live" => link[k] = "live"
      BY <2>2
    <3>4. \A m \in older[k] : link'[m] # "none"
      BY <3>1, <3>2
    <3>5. link'[k] = "live" => \A m \in older[k] : link'[m] = "consumed"
      BY <2>2, <3>2, <3>3 DEF IInv, LinkInv
    <3>6. resets[k] = 0 \/ (resets[k] = 1 /\ link'[k] = "consumed")
      BY <1>3, <2>2 DEF IInv, LinkInv
    <3> QED BY <3>4, <3>5, <3>6
  <2>4. \A q \in Procs :
          /\ pc'[q] = "issue" => job'[q].link \in Links /\ link'[job'[q].link] = "none"
          /\ pc'[q] = "reset" => job'[q].link \in Links /\ link'[job'[q].link] = "live"
    <3>1. ASSUME NEW q \in Procs, pc'[q] = "issue"
          PROVE  job'[q].link \in Links /\ link'[job'[q].link] = "none"
      <4>1. /\ q # p /\ pc[q] = "issue" /\ job'[q] = job[q] /\ job[q].link # l
            /\ job[q].link \in Links /\ link[job[q].link] = "none"
        BY <1>1, <1>2, <1>5, <3>1 DEF IInv, LinkInv
      <4>2. job[q].link \notin older[l]
        BY <1>3, <4>1 DEF IInv, LinkInv
      <4> QED BY <2>2, <4>1, <4>2
    <3>2. ASSUME NEW q \in Procs, pc'[q] = "reset"
          PROVE  job'[q].link \in Links /\ link'[job'[q].link] = "live"
      <4>1. /\ q # p /\ pc[q] = "reset" /\ job'[q] = job[q]
            /\ job[q].link \in Links /\ link[job[q].link] = "live"
        BY <1>5, <3>2 DEF IInv, LinkInv
      <4> QED BY <1>2, <2>2, <4>1
    <3> QED BY <3>1, <3>2
  <2>5. \A q, t \in Procs :
          pc'[q] = "issue" /\ pc'[t] = "issue" /\ job'[q].link = job'[t].link => q = t
    BY <1>5 DEF IInv, LinkInv
  <2> QED BY <1>2, <2>1, <2>3, <2>4, <2>5 DEF IInv, LinkInv
<1> QED BY <1>4, <1>6 DEF IInv

LEMMA ResetIInv ==
  ASSUME IInv, NEW p \in Procs, NEW l \in Links, Reset(p, l) PROVE IInv'
<1>1. PICK j : j = [Idle EXCEPT !.link = l, !.revoke = Live({"session"}),
                      !.found = {c \in DOMAIN Credentials :
                                   credential[c] # "none" /\ Credentials[c] = "session"}]
  OBVIOUS
<1>2. /\ link[l] = "live" /\ lock = None /\ lock' = p /\ pc[p] = "idle" /\ Goto(p, "reset", j)
      /\ UNCHANGED <<orgs, groups, active, access, snapshot, owed, disturbed>>
      /\ UNCHANGED <<credential, ended, link, older, resets>>
  BY <1>1 DEF Reset, Unlocked, Receive, account, logins, links, history
<1>3. /\ j \in Jobs /\ j.rows = {} /\ j.link = l /\ j.revoke = Live({"session"})
      /\ j.found = {c \in DOMAIN Credentials :
                      credential[c] # "none" /\ Credentials[c] = "session"}
  BY <1>1 DEF Idle, Jobs, Live
<1>4. /\ pc' \in [Procs -> Places] /\ job' \in [Procs -> Jobs]
      /\ pc'[p] = "reset" /\ job'[p] = j
      /\ \A q \in Procs : q # p => pc'[q] = pc[q] /\ job'[q] = job[q]
  BY <1>2, <1>3, GotoFacts DEF IInv, Places, Holders, Reading
<1>5. ProcInv'
  BY <1>2, <1>4, AccountAssumption DEF IInv, ProcInv, Holders, Reading
<1>6. AccessInv'
  BY <1>2, <1>3, <1>4, AccessKept DEF Reading
<1>7. CredentialInv'
  <2>1. ASSUME NEW c \in j.found
        PROVE  credential[c] # "none" /\ (credential[c] = "live" => c \in j.revoke)
    BY <1>3, <2>1 DEF Live
  <2> QED BY <1>2, <1>4, <2>1 DEF IInv, CredentialInv
<1>8. LinkInv'
  <2>1. \A q \in Procs :
          /\ pc'[q] = "issue" => job'[q].link \in Links /\ link[job'[q].link] = "none"
          /\ pc'[q] = "reset" => job'[q].link \in Links /\ link[job'[q].link] = "live"
    BY <1>2, <1>3, <1>4 DEF IInv, LinkInv
  <2>2. \A q, t \in Procs :
          pc'[q] = "issue" /\ pc'[t] = "issue" /\ job'[q].link = job'[t].link => q = t
    BY <1>4 DEF IInv, LinkInv
  <2> QED BY <1>2, <2>1, <2>2 DEF IInv, LinkInv
<1> QED BY <1>5, <1>6, <1>7, <1>8 DEF IInv

LEMMA ConfirmIInv ==
  ASSUME IInv, NEW p \in Procs, Confirm(p) PROVE IInv'
<1>1. PICK l : l = job[p].link
  OBVIOUS
<1>2. /\ pc[p] = "reset" /\ Revoke(p) /\ ended' = ended \union job[p].found
      /\ link' = [link EXCEPT ![l] = "consumed"] /\ resets' = [resets EXCEPT ![l] = @ + 1]
      /\ UNCHANGED <<orgs, groups, active, access, snapshot, owed, disturbed>> /\ older' = older
  BY <1>1 DEF Confirm, account, history
<1>3. lock' = None /\ Goto(p, "idle", Idle)
  BY <1>2 DEF Revoke, Finish
<1>4. /\ ProcInv' /\ pc'[p] = "idle" /\ job'[p] = Idle
      /\ \A q \in Procs : q # p => /\ pc'[q] = pc[q] /\ job'[q] = job[q]
                                   /\ pc[q] \notin Holders
  BY <1>2, <1>3, ReleaseLock DEF Holders, Reading
<1>5. CredentialInv'
  BY <1>2, RevokeCredentials DEF Holders, Reading
<1>6. AccessInv'
  BY <1>2, <1>4, IdleJob, AccessKept DEF Reading
<1>7. LinkInv'
  <2>1. l \in Links /\ link[l] = "live" /\ resets[l] = 0
    BY <1>1, <1>2 DEF IInv, LinkInv
  <2>2. /\ link'[l] = "consumed" /\ resets'[l] = 1
        /\ \A k \in Links : k # l => link'[k] = link[k] /\ resets'[k] = resets[k]
        /\ link' \in [Links -> {"none", "live", "consumed"}] /\ resets' \in [Links -> Nat]
    BY <1>2, <2>1 DEF IInv, LinkInv
  <2>3. ASSUME NEW k \in Links
        PROVE  /\ \A m \in older[k] : link'[m] # "none"
               /\ link'[k] = "live" => \A m \in older[k] : link'[m] = "consumed"
               /\ resets'[k] = 0 \/ (resets'[k] = 1 /\ link'[k] = "consumed")
    BY <2>1, <2>2 DEF IInv, LinkInv
  <2>4. \A q \in Procs :
          /\ pc'[q] = "issue" => job'[q].link \in Links /\ link'[job'[q].link] = "none"
          /\ pc'[q] # "reset"
    <3>1. ASSUME NEW q \in Procs, pc'[q] = "issue"
          PROVE  job'[q].link \in Links /\ link'[job'[q].link] = "none"
      <4>1. /\ pc[q] = "issue" /\ job'[q] = job[q]
            /\ job[q].link \in Links /\ link[job[q].link] = "none"
        BY <1>4, <3>1 DEF IInv, LinkInv
      <4> QED BY <2>1, <2>2, <4>1
    <3> QED BY <1>4, <3>1 DEF Holders
  <2>5. \A q, t \in Procs :
          pc'[q] = "issue" /\ pc'[t] = "issue" /\ job'[q].link = job'[t].link => q = t
    BY <1>4 DEF IInv, LinkInv
  <2> QED BY <1>2, <2>2, <2>3, <2>4, <2>5 DEF IInv, LinkInv
<1> QED BY <1>4, <1>5, <1>6, <1>7 DEF IInv

LEMMA StopIInv ==
  ASSUME IInv, NEW p \in Procs, Stop(p) PROVE IInv'
<1>1. /\ Goto(p, "idle", Idle) /\ lock' = IF lock = p THEN None ELSE lock
      /\ UNCHANGED <<orgs, groups, active, access, snapshot, owed, disturbed>>
      /\ UNCHANGED <<credential, ended>> /\ UNCHANGED <<link, older, resets>>
  BY DEF Stop, Finish, account, logins, links, history
<1>2. CASE pc[p] \in Holders
  <2>1. lock' = None
    BY <1>1, <1>2 DEF IInv, ProcInv
  <2>2. /\ ProcInv' /\ pc'[p] = "idle" /\ job'[p] = Idle
        /\ \A q \in Procs : q # p => pc'[q] = pc[q] /\ job'[q] = job[q]
    BY <1>1, <1>2, <2>1, ReleaseLock
  <2>3. AccessInv'
    BY <1>1, <2>2, IdleJob, AccessKept DEF Reading
  <2>4. CredentialInv' /\ LinkInv'
    BY <1>1, <2>2, CredentialKept, LinkKept DEF Holders, Reading
  <2> QED BY <2>2, <2>3, <2>4 DEF IInv
<1>3. CASE pc[p] \notin Holders
  <2>1. UNCHANGED lock
    BY <1>1, <1>3, AccountAssumption DEF IInv, ProcInv
  <2> QED BY <1>1, <1>3, <2>1, MoveIInv DEF IInv
<1> QED BY <1>2, <1>3

-----------------------------------------------------------------------------

LEMMA InitIInv == Init => IInv
<1> SUFFICES ASSUME Init PROVE IInv
  OBVIOUS
<1>1. /\ \A p \in Procs : pc[p] = "idle" /\ job[p] = Idle
      /\ pc \in [Procs -> Places] /\ job \in [Procs -> Jobs] /\ lock = None
  BY IdleJob DEF Init, Places
<1>2. ProcInv
  BY <1>1, AccountAssumption DEF ProcInv, Holders, Reading
<1>3. AccessInv
  <2>1. /\ orgs \subseteq Orgs /\ groups = {g \in Groups : GroupOrg[g] \in orgs}
        /\ access \subseteq UNION {RowsOf(o) : o \in orgs} /\ ForeignKey(access)
        /\ active = TRUE /\ snapshot = None /\ owed = access /\ disturbed = {}
    BY DEF Init
  <2>2. \A o \in orgs : \A r \in RowsOf(o) :
          \/ r = Member(o) \/ r = Owner(o) \/ \E g \in Groups : GroupOrg[g] = o /\ r = InGroup(g)
    BY DEF RowsOf
  <2>3. access \subseteq Rows
    BY <2>1, <2>2, RowFacts
  <2>4. Exist(access)
    BY <2>1, <2>2, RowFacts DEF Exist
  <2>5. RowTypes
    BY <2>1, <2>3 DEF RowTypes
  <2>6. PlaceInv
    BY <1>1, <2>1, <2>4, IdleJob DEF PlaceInv, Placed
  <2>7. OwedInv
    BY <2>1 DEF OwedInv
  <2> QED BY <1>1, <2>5, <2>6, <2>7 DEF AccessInv, ReadOK, Reading
<1>4. CredentialInv
  BY <1>1 DEF Init, CredentialInv, Holders, Reading
<1>5. LinkInv
  BY <1>1 DEF Init, LinkInv
<1> QED BY <1>2, <1>3, <1>4, <1>5 DEF IInv

LEMMA NextIInv == IInv /\ [Next]_vars => IInv'
<1> SUFFICES ASSUME IInv, [Next]_vars PROVE IInv'
  OBVIOUS
<1>1. ASSUME NEW p \in Procs,
             \/ Deactivate(p) \/ ReadAccess(p) \/ RemoveAccess(p)
             \/ Verify(p) \/ \E c \in DOMAIN Credentials : Insert(p, c)
             \/ Claim(p) \/ \E claimed \in SUBSET Mapped : Sync(p, claimed)
             \/ \E l \in Links : Ask(p, l) \/ Reset(p, l)
             \/ Issue(p) \/ Confirm(p) \/ Stop(p)
      PROVE  IInv'
  BY <1>1, DeactivateIInv, ReadAccessIInv, RemoveAccessIInv, LoginIInv, SyncIInv, AskIInv,
     ResetIInv, IssueIInv, ConfirmIInv, StopIInv
<1>2. CASE UNCHANGED vars
  <2>1. /\ UNCHANGED <<orgs, groups, active, access, snapshot, owed, disturbed>>
        /\ UNCHANGED <<credential, ended>> /\ UNCHANGED <<link, older, resets>>
        /\ UNCHANGED <<pc, job, lock>>
    BY <1>2 DEF vars
  <2>2. ProcInv'
    BY <2>1 DEF IInv, ProcInv
  <2>3. AccessInv' /\ CredentialInv' /\ LinkInv'
    BY <2>1, AccessKept, CredentialKept, LinkKept
  <2> QED BY <2>2, <2>3 DEF IInv
<1> QED BY <1>1, <1>2, AdministrationIInv, ReactivateIInv, RevokeOneIInv DEF Next

LEMMA SpecIInv == Spec => []IInv
BY InitIInv, NextIInv, PTL DEF Spec

-----------------------------------------------------------------------------

(* The rows a user has refer to organisations and groups that exist, and   *)
(* the foreign key of group memberships holds after every deletion, login  *)
(* and restoration (access-users.ts, access-groups.ts).                    *)
THEOREM TypeCorrect == Spec => []TypeOK
<1>1. IInv => TypeOK
  <2> SUFFICES ASSUME IInv PROVE TypeOK
    OBVIOUS
  <2>1. \A o \in Orgs : {Member(o), Owner(o)} \intersect access # {} => o \in orgs
    BY DEF IInv, AccessInv, PlaceInv, Exist
  <2> QED BY <2>1 DEF IInv, ProcInv, Jobs, AccessInv, RowTypes, PlaceInv, Exist, CredentialInv,
                      LinkInv, TypeOK
<1> QED BY <1>1, SpecIInv, PTL

(* An active account has the access that its administrators left it, and   *)
(* an inactive one a snapshot that can be restored, except for the rows    *)
(* that were changed during or after a deactivation (access-users.ts).     *)
THEOREM AccessIsGivenBack == Spec => []AccessSurvivesDeactivation
<1>1. IInv => AccessSurvivesDeactivation
  <2> SUFFICES ASSUME IInv PROVE AccessSurvivesDeactivation
    OBVIOUS
  <2>1. AccessIsKept
    BY DEF IInv, AccessInv, OwedInv, AccessIsKept
  <2>2. \A g \in Groups : InGroup(g) \in Restored /\ snapshot # None =>
          Member(GroupOrg[g]) \in (snapshot \union access \union disturbed)
    BY RestoredFacts DEF IInv, AccessInv, RowTypes, OwedInv
  <2> QED BY <2>1, <2>2 DEF IInv, AccessInv, OwedInv, AccessSurvivesDeactivation,
                            SnapshotIsRestorable
<1> QED BY <1>1, SpecIInv, PTL

(* What a deactivation or a reset has found ends with it, of two live      *)
(* links neither preceded the other, and a link sets one password          *)
(* (access-users.ts, email-tokens.ts).                                *)
THEOREM CredentialsEnd == Spec => []EarlierCredentialsEnd
<1>1. IInv => EarlierCredentialsEnd
  BY DEF IInv, CredentialInv, LinkInv, LiveLinks, EarlierCredentialsEnd
<1> QED BY <1>1, SpecIInv, PTL
=============================================================================
