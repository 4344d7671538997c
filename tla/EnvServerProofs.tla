-------------------------- MODULE EnvServerProofs --------------------------
(***************************************************************************)
(* Proofs about EnvServer, for any set of users, secrets, tokens and       *)
(* contents and any bounds.  The inductive invariant is the conjunction of *)
(* the type invariant with the five safety invariants the runs check; they *)
(* lean on each other only through the types, except that the current row  *)
(* of a secret stays in the history because versions are never reused.     *)
(***************************************************************************)
EXTENDS EnvServer, TLAPS

(* A request of SomeWrite(u), with its parameters named. *)
LEMMA SetBatchType ==
    ASSUME NEW sets \in SetBatches
    PROVE  /\ DOMAIN sets \subseteq Secrets
           /\ \A s \in DOMAIN sets :
                 /\ sets[s] \in SetChange
                 /\ sets[s].ver \in Nat /\ sets[s].ver >= 1
                 /\ sets[s].val \in Contents
<1>1. PICK D \in SUBSET Secrets :
          sets \in [D -> [ver : 1..MaxVersion, val : Contents,
                          key : 0..vaultKey]]
  BY DEF SetBatches
<1>2. DOMAIN sets = D
  BY <1>1
<1>3. ASSUME NEW s \in D
      PROVE  sets[s] \in [ver : 1..MaxVersion, val : Contents,
                          key : 0..vaultKey]
  BY <1>1, <1>3
<1> QED
  BY <1>2, <1>3 DEF SetChange

(* The type invariant. *)

(* The initial organisation is well typed.                                 *)
LEMMA InitTypeOK == Init => TypeOK
  BY CreatorAssumption
     DEF Init, TypeOK, Roles, Row, Absent, HistoryRow, Sealed, Token

(* An accepted write batch (write_secrets) leaves well-typed tables.       *)
LEMMA WriteTypeOK ==
    ASSUME TypeOK, NEW u \in Users, NEW sets \in SetBatches,
           NEW dels \in SUBSET (Secrets \ DOMAIN sets),
           WriteSecrets(u, revision, sets, dels)
    PROVE  TypeOK'
<1>1. secrets' \in [Secrets -> Row]
  <2>1. ASSUME NEW s \in Secrets PROVE secrets'[s] \in Row
    <3>1. CASE s \in DOMAIN sets
      BY <3>1, SetBatchType DEF WriteSecrets, SecretsAfter, Row, SetChange
    <3>2. CASE s \notin DOMAIN sets
      BY <3>2 DEF WriteSecrets, SecretsAfter, Row, TypeOK
    <3> QED BY <3>1, <3>2
  <2> QED BY <2>1 DEF WriteSecrets, SecretsAfter
<1>2. history' \subseteq HistoryRow
  BY SetBatchType DEF WriteSecrets, HistoryAfter, HistoryRow, SetChange, TypeOK
<1> QED
  BY <1>1, <1>2 DEF WriteSecrets, TypeOK, NextRevision

(* So does an accepted rotation.                                           *)
LEMMA RotateTypeOK ==
    ASSUME TypeOK, NEW u \in Users, NEW req,
           req.key \in Nat,
           \A h \in DOMAIN req.grants : req.grants[h] \in Sealed,
           Rotate(u, req)
    PROVE  TypeOK'
<1>1. secrets' \in [Secrets -> Row]
  BY DEF Rotate, RewrapSecrets, Row, TypeOK
<1>2. history' \subseteq HistoryRow
  BY DEF Rotate, RewrapHistory, HistoryRow, TypeOK
<1>3. grants' \in [Users -> Sealed \cup {NoGrant}]
  BY DEF Rotate, TypeOK
<1>4. tokens' \in [Tokens -> Token]
  BY DEF Rotate, ResealTokens, Token, TypeOK
<1> QED
  BY <1>1, <1>2, <1>3, <1>4 DEF Rotate, TypeOK, NextRevision

(* The rotation requests of SomeRotation. *)
Fresh(holders, ids, versions, reseal) ==
    [base |-> revision, key |-> vaultKey + 1,
     grants |-> [h \in holders |->
                   [key |-> vaultKey + 1, to |-> pubkey[h], seal |-> 0]],
     secrets |-> ids, versions |-> versions, tokens |-> reseal]

(* Every step keeps the types.                                             *)
LEMMA NextTypeOK == TypeOK /\ [Next]_serverVars => TypeOK'
<1> SUFFICES ASSUME TypeOK, [Next]_serverVars PROVE TypeOK'
  OBVIOUS
<1>1. ASSUME NEW u \in Users, SomeWrite(u) PROVE TypeOK'
  BY <1>1, WriteTypeOK DEF SomeWrite
<1>2. ASSUME NEW u \in Users, SomeRotation(u) PROVE TypeOK'
  <2>1. PICK holders \in SUBSET Users, ids \in SUBSET Secrets,
             versions \in SUBSET (Secrets \X (1..MaxVersion)),
             reseal \in SUBSET Tokens :
             Rotate(u, Fresh(holders, ids, versions, reseal))
    BY <1>2 DEF SomeRotation, Fresh
  <2> DEFINE req == Fresh(holders, ids, versions, reseal)
  <2>2. req.key \in Nat
    BY DEF Fresh, TypeOK
  <2>3. \A h \in DOMAIN req.grants : req.grants[h] \in Sealed
    BY DEF Fresh, TypeOK, Sealed
  <2> QED BY <2>1, <2>2, <2>3, RotateTypeOK
<1>3. ASSUME NEW u \in Users, SomeGrant(u) PROVE TypeOK'
  BY <1>3 DEF SomeGrant, Boxes, CreateGrant, TypeOK, Sealed
<1>4. ASSUME NEW u \in Users, SomeToken(u) PROVE TypeOK'
  <2>1. ASSUME NEW t \in Tokens, NEW k \in 0..vaultKey, CreateToken(u, t, k)
        PROVE  TypeOK'
    BY <2>1 DEF CreateToken, TypeOK, Token
  <2>2. ASSUME NEW t \in Tokens, RevokeToken(u, t) PROVE TypeOK'
    BY <2>2 DEF RevokeToken, TypeOK, Token
  <2> QED BY <1>4, <2>1, <2>2 DEF SomeToken
<1>5. ASSUME NEW u \in Users, SomeMembership(u) PROVE TypeOK'
  <2>1. ASSUME NEW target \in Users, NEW r \in Roles, AddMember(u, target, r)
        PROVE  TypeOK'
    BY <2>1 DEF AddMember, WithoutGrant, TypeOK
  <2>2. ASSUME NEW target \in Users, NEW r \in Roles,
               UpdateMember(u, target, r)
        PROVE  TypeOK'
    BY <2>2 DEF UpdateMember, TypeOK
  <2>3. ASSUME NEW target \in Users, RemoveMember(u, target) PROVE TypeOK'
    BY <2>3
       DEF RemoveMember, WithoutGrant, RevokeTokensOf, TypeOK, Roles, Token
  <2> QED BY <1>5, <2>1, <2>2, <2>3 DEF SomeMembership
<1>6. ASSUME NEW u \in Users, ResetAccount(u) PROVE TypeOK'
  BY <1>6 DEF ResetAccount, WithoutGrant, TypeOK
<1>7. ASSUME NEW u \in Users, RequestDeletion(u) PROVE TypeOK'
  BY <1>7 DEF RequestDeletion, TypeOK
<1>8. CASE FinishRecovery
  BY <1>8 DEF FinishRecovery, TypeOK
<1>9. CASE Purge
  BY <1>9, CreatorAssumption DEF Purge, TypeOK, Roles, Row, Absent, Token
<1>10. CASE UNCHANGED serverVars
  BY <1>10 DEF serverVars, TypeOK
<1> QED
  BY <1>1, <1>2, <1>3, <1>4, <1>5, <1>6, <1>7, <1>8, <1>9, <1>10 DEF Next

(* Every table keeps its type: the model's state is always one the server's *)
(* schema can hold.                                                         *)
THEOREM TypeCorrect == Spec => []TypeOK
<1>1. Init => TypeOK
  BY InitTypeOK
<1>2. TypeOK /\ [Next]_serverVars => TypeOK'
  BY NextTypeOK
<1> QED
  BY <1>1, <1>2, PTL DEF Spec

-----------------------------------------------------------------------------
(* Membership: which steps touch roles, grants and tokens, and how *)

(* Grant rows appear only for members, and leave with the membership.      *)
LEMMA GrantsOnlyForMembersStep ==
    TypeOK /\ GrantsOnlyForMembers /\ [Next]_serverVars
        => GrantsOnlyForMembers'
<1> SUFFICES ASSUME TypeOK, GrantsOnlyForMembers, [Next]_serverVars
             PROVE  GrantsOnlyForMembers'
  OBVIOUS
<1> USE DEF GrantsOnlyForMembers
<1>1. ASSUME NEW u \in Users, SomeWrite(u) PROVE GrantsOnlyForMembers'
  BY <1>1 DEF SomeWrite, WriteSecrets
<1>2. ASSUME NEW u \in Users, SomeRotation(u) PROVE GrantsOnlyForMembers'
  BY <1>2 DEF SomeRotation, Rotate
<1>3. ASSUME NEW u \in Users, SomeGrant(u) PROVE GrantsOnlyForMembers'
  BY <1>3 DEF SomeGrant, CreateGrant, TypeOK
<1>4. ASSUME NEW u \in Users, SomeToken(u) PROVE GrantsOnlyForMembers'
  BY <1>4 DEF SomeToken, CreateToken, RevokeToken
<1>5. ASSUME NEW u \in Users, SomeMembership(u) PROVE GrantsOnlyForMembers'
  <2>1. ASSUME NEW target \in Users, NEW r \in Roles \ {"none"},
               AddMember(u, target, r)
        PROVE  GrantsOnlyForMembers'
    BY <2>1 DEF AddMember, WithoutGrant, TypeOK
  <2>2. ASSUME NEW target \in Users, NEW r \in Roles \ {"none"},
               UpdateMember(u, target, r)
        PROVE  GrantsOnlyForMembers'
    BY <2>2 DEF UpdateMember, TypeOK
  <2>3. ASSUME NEW target \in Users, RemoveMember(u, target)
        PROVE  GrantsOnlyForMembers'
    BY <2>3 DEF RemoveMember, WithoutGrant, TypeOK
  <2> QED BY <1>5, <2>1, <2>2, <2>3 DEF SomeMembership
<1>6. ASSUME NEW u \in Users, ResetAccount(u) PROVE GrantsOnlyForMembers'
  BY <1>6 DEF ResetAccount, WithoutGrant, TypeOK
<1>7. CASE FinishRecovery \/ \E u \in Users : RequestDeletion(u)
  BY <1>7 DEF FinishRecovery, RequestDeletion
<1>8. CASE Purge
  BY <1>8 DEF Purge
<1>9. CASE UNCHANGED serverVars
  BY <1>9 DEF serverVars
<1> QED
  BY <1>1, <1>2, <1>3, <1>4, <1>5, <1>6, <1>7, <1>8, <1>9 DEF Next

(* A token is created by a member and revoked when its creator is removed. *)
LEMMA TokensAnswerToMembersStep ==
    TypeOK /\ TokensAnswerToMembers /\ [Next]_serverVars
        => TokensAnswerToMembers'
<1> SUFFICES ASSUME TypeOK, TokensAnswerToMembers, [Next]_serverVars
             PROVE  TokensAnswerToMembers'
  OBVIOUS
<1> USE DEF TokensAnswerToMembers, ActiveTokens
<1>1. ASSUME NEW u \in Users, SomeWrite(u) PROVE TokensAnswerToMembers'
  BY <1>1 DEF SomeWrite, WriteSecrets
<1>2. ASSUME NEW u \in Users, SomeRotation(u) PROVE TokensAnswerToMembers'
  BY <1>2 DEF SomeRotation, Rotate, ResealTokens, TypeOK, Token
<1>3. ASSUME NEW u \in Users, SomeGrant(u) PROVE TokensAnswerToMembers'
  BY <1>3 DEF SomeGrant, CreateGrant
<1>4. ASSUME NEW u \in Users, SomeToken(u) PROVE TokensAnswerToMembers'
  <2>1. ASSUME NEW t \in Tokens, NEW k \in 0..vaultKey, CreateToken(u, t, k)
        PROVE  TokensAnswerToMembers'
    BY <2>1 DEF CreateToken, MayManage, TypeOK, Token
  <2>2. ASSUME NEW t \in Tokens, RevokeToken(u, t)
        PROVE  TokensAnswerToMembers'
    BY <2>2 DEF RevokeToken, TypeOK, Token
  <2> QED BY <1>4, <2>1, <2>2 DEF SomeToken
<1>5. ASSUME NEW u \in Users, SomeMembership(u)
      PROVE  TokensAnswerToMembers'
  <2>1. ASSUME NEW target \in Users, NEW r \in Roles \ {"none"},
               AddMember(u, target, r) \/ UpdateMember(u, target, r)
        PROVE  TokensAnswerToMembers'
    BY <2>1 DEF AddMember, UpdateMember, TypeOK, Token
  <2>2. ASSUME NEW target \in Users, RemoveMember(u, target)
        PROVE  TokensAnswerToMembers'
    BY <2>2 DEF RemoveMember, RevokeTokensOf, TypeOK, Token
  <2> QED BY <1>5, <2>1, <2>2 DEF SomeMembership
<1>6. CASE \E u \in Users : ResetAccount(u) \/ RequestDeletion(u)
  BY <1>6 DEF ResetAccount, RequestDeletion
<1>7. CASE FinishRecovery
  BY <1>7 DEF FinishRecovery
<1>8. CASE Purge
  BY <1>8 DEF Purge
<1>9. CASE UNCHANGED serverVars
  BY <1>9 DEF serverVars
<1> QED
  BY <1>1, <1>2, <1>3, <1>4, <1>5, <1>6, <1>7, <1>8, <1>9 DEF Next

(* Only a role change, a removal and the purge take an owner away; the      *)
(* first two leave another one, the last ends the organisation.             *)
LEMMA SomeOwnerStep ==
    TypeOK /\ SomeOwner /\ [Next]_serverVars => SomeOwner'
<1> SUFFICES ASSUME TypeOK, SomeOwner, [Next]_serverVars PROVE SomeOwner'
  OBVIOUS
<1> USE DEF SomeOwner
<1>1. CASE UNCHANGED <<lifecycle, role>>
  BY <1>1
<1>2. ASSUME NEW u \in Users, NEW target \in Users,
             NEW r \in Roles \ {"none"}, AddMember(u, target, r)
      PROVE  SomeOwner'
  BY <1>2 DEF AddMember, MayManage, TypeOK
<1>3. ASSUME NEW u \in Users, NEW target \in Users,
             NEW r \in Roles \ {"none"}, UpdateMember(u, target, r)
      PROVE  SomeOwner'
  BY <1>3 DEF UpdateMember, MayManage, SoleOwner, TypeOK
<1>4. ASSUME NEW u \in Users, NEW target \in Users, RemoveMember(u, target)
      PROVE  SomeOwner'
  BY <1>4 DEF RemoveMember, MayManage, SoleOwner, TypeOK
<1>5. CASE FinishRecovery \/ \E u \in Users : RequestDeletion(u)
  BY <1>5 DEF FinishRecovery, RequestDeletion
<1>6. CASE Purge
  BY <1>6 DEF Purge
<1>7. ASSUME NEW u \in Users,
             SomeWrite(u) \/ SomeRotation(u) \/ SomeGrant(u)
                 \/ SomeToken(u) \/ ResetAccount(u)
      PROVE  UNCHANGED <<lifecycle, role>>
  <2>1. CASE SomeWrite(u)
    BY <2>1 DEF SomeWrite, WriteSecrets
  <2>2. CASE SomeRotation(u)
    BY <2>2 DEF SomeRotation, Rotate
  <2>3. CASE SomeGrant(u)
    BY <2>3 DEF SomeGrant, CreateGrant
  <2>4. CASE SomeToken(u)
    BY <2>4 DEF SomeToken, CreateToken, RevokeToken
  <2>5. CASE ResetAccount(u)
    BY <2>5 DEF ResetAccount
  <2> QED BY <1>7, <2>1, <2>2, <2>3, <2>4, <2>5
<1>8. UNCHANGED serverVars => UNCHANGED <<lifecycle, role>>
  BY DEF serverVars
<1> QED
  BY <1>1, <1>2, <1>3, <1>4, <1>5, <1>6, <1>7, <1>8
     DEF Next, SomeMembership

-----------------------------------------------------------------------------
(* Contents: the history only ever gains versions, and rewrapping changes   *)
(* keys alone                                                               *)

ContentInv == CurrentRowInHistory /\ OneRowPerVersion

(* A write adds its new rows to both tables, under versions nobody used.   *)
LEMMA WriteContent ==
    ASSUME TypeOK, ContentInv, NEW u \in Users, NEW sets \in SetBatches,
           NEW dels \in SUBSET (Secrets \ DOMAIN sets),
           WriteSecrets(u, revision, sets, dels)
    PROVE  ContentInv'
<1> DEFINE RowOf(s) == [secret |-> s, ver |-> sets[s].ver,
                        val |-> sets[s].val, key |-> sets[s].key]
<1>1. history' = history \cup {RowOf(s) : s \in DOMAIN sets}
  BY DEF WriteSecrets, HistoryAfter
<1>2. \A s \in DOMAIN sets : \A h \in history :
          ~(h.secret = s /\ h.ver = sets[s].ver)
  BY DEF WriteSecrets, FreshVersions, VersionsOf
<1>3. OneRowPerVersion'
  BY <1>1, <1>2 DEF OneRowPerVersion, ContentInv
<1>4. ASSUME NEW s \in Present(secrets')
      PROVE  [secret |-> s, ver |-> secrets'[s].ver, val |-> secrets'[s].val,
              key |-> secrets'[s].key] \in history'
  <2>1. CASE s \in DOMAIN sets
    BY <1>1, <1>4, <2>1 DEF WriteSecrets, SecretsAfter, Present
  <2>2. CASE s \notin DOMAIN sets
    <3>1. /\ secrets'[s].ver = secrets[s].ver
          /\ secrets'[s].val = secrets[s].val
          /\ secrets'[s].key = secrets[s].key
          /\ s \in Secrets
      BY <1>4, <2>2 DEF WriteSecrets, SecretsAfter, Present, TypeOK, Row
    <3>2. s \in Present(secrets)
      BY <1>4, <3>1 DEF Present
    <3> QED BY <1>1, <3>1, <3>2 DEF ContentInv, CurrentRowInHistory
  <2> QED BY <2>1, <2>2
<1> QED
  BY <1>3, <1>4 DEF ContentInv, CurrentRowInHistory

(* Rewrapping exactly the rows there are keeps the two tables in step: both *)
(* take the one new key.                                                    *)
LEMMA RotateContent ==
    ASSUME TypeOK, ContentInv, NEW u \in Users, NEW req, Rotate(u, req)
    PROVE  ContentInv'
<1>1. \A h \in history : <<h.secret, h.ver>> \in req.versions
  BY DEF Rotate, RotationCovers, VersionsOf
<1> DEFINE Rekeyed(h) == [secret |-> h.secret, ver |-> h.ver,
                          val |-> h.val, key |-> req.key]
<1>2. \A h \in history : [h EXCEPT !.key = req.key] = Rekeyed(h)
  BY DEF TypeOK, HistoryRow
<1>3. /\ \A g \in history' : \E h \in history : g = Rekeyed(h)
      /\ \A h \in history : Rekeyed(h) \in history'
  <2> DEFINE After(h) == IF <<h.secret, h.ver>> \in req.versions
                         THEN [h EXCEPT !.key = req.key] ELSE h
  <2>1. history' = {After(h) : h \in history}
    BY DEF Rotate, RewrapHistory
  <2>2. \A h \in history : After(h) = Rekeyed(h)
    BY <1>1, <1>2
  <2> HIDE DEF After, Rekeyed
  <2> QED BY <2>1, <2>2
<1>4. OneRowPerVersion'
  <2>1. SUFFICES ASSUME NEW g \in history', NEW h \in history',
                        g.secret = h.secret, g.ver = h.ver
                 PROVE  g = h
    BY DEF OneRowPerVersion
  <2>2. PICK g0 \in history : g = Rekeyed(g0)
    BY <1>3
  <2>3. PICK h0 \in history : h = Rekeyed(h0)
    BY <1>3
  <2>4. g0 = h0
    BY <2>1, <2>2, <2>3 DEF ContentInv, OneRowPerVersion
  <2> QED BY <2>2, <2>3, <2>4
<1>5. CurrentRowInHistory'
  <2>1. SUFFICES ASSUME NEW s \in Present(secrets')
                 PROVE  [secret |-> s, ver |-> secrets'[s].ver,
                         val |-> secrets'[s].val, key |-> secrets'[s].key]
                            \in history'
    BY DEF CurrentRowInHistory
  <2>2. /\ s \in Secrets
        /\ secrets'[s].ver = secrets[s].ver
        /\ secrets'[s].val = secrets[s].val
        /\ s \in Present(secrets)
    BY DEF Rotate, RewrapSecrets, Present, TypeOK, Row
  <2>3. secrets'[s].key = req.key
    BY <2>2 DEF Rotate, RotationCovers, RewrapSecrets, TypeOK, Row
  <2>4. PICK h \in history : h = [secret |-> s, ver |-> secrets[s].ver,
                                  val |-> secrets[s].val,
                                  key |-> secrets[s].key]
    BY <2>2 DEF ContentInv, CurrentRowInHistory
  <2> QED BY <1>3, <2>2, <2>3, <2>4
<1> QED
  BY <1>4, <1>5 DEF ContentInv

(* No other step touches the rows, except the purge that empties them.     *)
LEMMA OtherStepsKeepContent ==
    ASSUME TypeOK, [Next]_serverVars
    PROVE  \/ \E u \in Users : SomeWrite(u) \/ SomeRotation(u)
           \/ Purge
           \/ UNCHANGED <<revision, secrets, history, vaultKey>>
<1>1. ASSUME NEW u \in Users, SomeGrant(u)
      PROVE  UNCHANGED <<revision, secrets, history, vaultKey>>
  BY <1>1 DEF SomeGrant, CreateGrant
<1>2. ASSUME NEW u \in Users, SomeToken(u)
      PROVE  UNCHANGED <<revision, secrets, history, vaultKey>>
  BY <1>2 DEF SomeToken, CreateToken, RevokeToken
<1>3. ASSUME NEW u \in Users, SomeMembership(u)
      PROVE  UNCHANGED <<revision, secrets, history, vaultKey>>
  BY <1>3 DEF SomeMembership, AddMember, UpdateMember, RemoveMember
<1>4. ASSUME NEW u \in Users, ResetAccount(u) \/ RequestDeletion(u)
      PROVE  UNCHANGED <<revision, secrets, history, vaultKey>>
  BY <1>4 DEF ResetAccount, RequestDeletion
<1>5. FinishRecovery => UNCHANGED <<revision, secrets, history, vaultKey>>
  BY DEF FinishRecovery
<1>6. UNCHANGED serverVars
          => UNCHANGED <<revision, secrets, history, vaultKey>>
  BY DEF serverVars
<1> QED
  BY <1>1, <1>2, <1>3, <1>4, <1>5, <1>6 DEF Next

(* Rows and history agree after every step.                                *)
LEMMA ContentStep ==
    TypeOK /\ ContentInv /\ [Next]_serverVars => ContentInv'
<1> SUFFICES ASSUME TypeOK, ContentInv, [Next]_serverVars PROVE ContentInv'
  OBVIOUS
<1>1. ASSUME NEW u \in Users, SomeWrite(u) PROVE ContentInv'
  BY <1>1, WriteContent DEF SomeWrite
<1>2. ASSUME NEW u \in Users, SomeRotation(u) PROVE ContentInv'
  BY <1>2, RotateContent DEF SomeRotation
<1>3. CASE Purge
  BY <1>3
     DEF Purge, ContentInv, CurrentRowInHistory, OneRowPerVersion, Present,
         Absent
<1>4. CASE UNCHANGED <<revision, secrets, history, vaultKey>>
  BY <1>4
     DEF ContentInv, CurrentRowInHistory, OneRowPerVersion, Present
<1> QED
  BY <1>1, <1>2, <1>3, <1>4, OtherStepsKeepContent

-----------------------------------------------------------------------------
(* The inductive invariant *)

Inv ==
    /\ TypeOK
    /\ GrantsOnlyForMembers
    /\ TokensAnswerToMembers
    /\ SomeOwner
    /\ ContentInv

(* The initial organisation satisfies the invariant.                       *)
LEMMA InitInv == Init => Inv
<1> SUFFICES ASSUME Init PROVE Inv
  OBVIOUS
<1>1. GrantsOnlyForMembers
  BY DEF Init, GrantsOnlyForMembers
<1>2. TokensAnswerToMembers
  BY DEF Init, TokensAnswerToMembers, ActiveTokens
<1>3. SomeOwner
  BY CreatorAssumption DEF Init, SomeOwner
<1>4. ContentInv
  BY DEF Init, ContentInv, CurrentRowInHistory, OneRowPerVersion, Present,
         Absent
<1> QED
  BY <1>1, <1>2, <1>3, <1>4, InitTypeOK DEF Inv

(* Membership, access and content stay consistent for ever: only members    *)
(* hold grants, live tokens answer to members, there is an owner, and the   *)
(* current row of a secret is one of its unambiguous retained versions.     *)
THEOREM InvariantHolds == Spec => []Inv
<1>1. Init => Inv
  BY InitInv
<1>2. Inv /\ [Next]_serverVars => Inv'
  BY NextTypeOK, GrantsOnlyForMembersStep, TokensAnswerToMembersStep,
     SomeOwnerStep, ContentStep
     DEF Inv
<1> QED
  BY <1>1, <1>2, PTL DEF Spec

(* Only a current member ever has a grant row, whatever joins, removals,   *)
(* resets, shares and rotations ran.                                       *)
THEOREM GrantsFollowMembership == Spec => []GrantsOnlyForMembers
<1>1. Inv => GrantsOnlyForMembers
  BY DEF Inv
<1> QED
  BY <1>1, InvariantHolds, PTL

(* A live machine token always answers to a current member: remove_member  *)
(* revokes those of the member it removes.                                 *)
THEOREM TokensFollowMembership == Spec => []TokensAnswerToMembers
<1>1. Inv => TokensAnswerToMembers
  BY DEF Inv
<1> QED
  BY <1>1, InvariantHolds, PTL

(* An organisation that is not purged always has an owner, whatever its    *)
(* owners do to one another.                                               *)
THEOREM NeverOwnerless == Spec => []SomeOwner
<1>1. Inv => SomeOwner
  BY DEF Inv
<1> QED
  BY <1>1, InvariantHolds, PTL

(* What `history` and `rollback` read agrees with the snapshot: the current *)
(* row is retained.                                                         *)
THEOREM RowsMatchHistory == Spec => []CurrentRowInHistory
<1>1. Inv => CurrentRowInHistory
  BY DEF Inv, ContentInv
<1> QED
  BY <1>1, InvariantHolds, PTL

(* A version that `history` lists means one content, whoever wrote it and   *)
(* however often it was rewrapped.                                          *)
THEOREM VersionsMeanOneContent == Spec => []OneRowPerVersion
<1>1. Inv => OneRowPerVersion
  BY DEF Inv, ContentInv
<1> QED
  BY <1>1, InvariantHolds, PTL

-----------------------------------------------------------------------------
(* Action properties *)

(* A request that covers the tables exactly leaves nothing under an old key. *)
LEMMA RotateRekeys ==
    ASSUME TypeOK, NEW u \in Users, NEW holders \in SUBSET Users,
           NEW ids, NEW versions, NEW reseal,
           Rotate(u, Fresh(holders, ids, versions, reseal))
    PROVE  /\ \A s \in Present(secrets') : secrets'[s].key = vaultKey'
           /\ \A h \in history' : h.key = vaultKey'
           /\ \A v \in Users : grants'[v] # NoGrant =>
                                   grants'[v].key = vaultKey'
           /\ \A t \in Tokens : tokens'[t].status = "active" =>
                                   tokens'[t].sealed = vaultKey'
<1> DEFINE req == Fresh(holders, ids, versions, reseal)
<1>1. req.key = vaultKey'
  BY DEF Rotate
<1>2. ASSUME NEW s \in Present(secrets')
      PROVE  secrets'[s].key = vaultKey'
  <2>1. s \in Present(secrets)
    BY DEF Rotate, RewrapSecrets, Present, TypeOK, Row
  <2> QED BY <1>1, <2>1
          DEF Rotate, RotationCovers, RewrapSecrets, Present, TypeOK, Row
<1>3. ASSUME NEW h \in history' PROVE h.key = vaultKey'
  <2>1. PICK g \in history : h = IF <<g.secret, g.ver>> \in req.versions
                                 THEN [g EXCEPT !.key = req.key] ELSE g
    BY DEF Rotate, RewrapHistory
  <2>2. <<g.secret, g.ver>> \in req.versions
    BY DEF Rotate, RotationCovers, VersionsOf
  <2>3. [g EXCEPT !.key = req.key].key = req.key
    BY DEF TypeOK, HistoryRow
  <2> QED BY <1>1, <2>1, <2>2, <2>3
<1>4. ASSUME NEW v \in Users, grants'[v] # NoGrant
      PROVE  grants'[v].key = vaultKey'
  BY <1>1, <1>4 DEF Rotate, Fresh
<1>5. ASSUME NEW t \in Tokens, tokens'[t].status = "active"
      PROVE  tokens'[t].sealed = vaultKey'
  <2>1. t \in ActiveTokens
    BY <1>5 DEF Rotate, ResealTokens, ActiveTokens, TypeOK, Token
  <2> QED BY <1>1, <2>1
          DEF Rotate, RotationCovers, ResealTokens, TypeOK, Token
<1> QED
  BY <1>2, <1>3, <1>4, <1>5

(* An accepted rotation leaves no row, version, grant or live token under   *)
(* an older key, whatever its request named.                                *)
THEOREM RotationComplete == Spec => RotationRekeysEverything
<1> DEFINE Rekeys ==
      vaultKey' # vaultKey =>
          /\ \A s \in Present(secrets') : secrets'[s].key = vaultKey'
          /\ \A h \in history' : h.key = vaultKey'
          /\ \A u \in Users : grants'[u] # NoGrant =>
                                  grants'[u].key = vaultKey'
          /\ \A t \in Tokens : tokens'[t].status = "active" =>
                                  tokens'[t].sealed = vaultKey'
<1>1. TypeOK /\ [Next]_serverVars => Rekeys
  <2> SUFFICES ASSUME TypeOK, [Next]_serverVars PROVE Rekeys
    OBVIOUS
  <2>1. ASSUME NEW u \in Users, SomeWrite(u) PROVE Rekeys
    BY <2>1 DEF SomeWrite, WriteSecrets
  <2>2. ASSUME NEW u \in Users, SomeRotation(u) PROVE Rekeys
    BY <2>2, RotateRekeys DEF SomeRotation, Fresh
  <2>3. CASE Purge
    BY <2>3 DEF Purge
  <2>4. CASE UNCHANGED <<revision, secrets, history, vaultKey>>
    BY <2>4
  <2> QED BY <2>1, <2>2, <2>3, <2>4, OtherStepsKeepContent
<1> QED
  BY <1>1, TypeCorrect, PTL DEF Spec, RotationRekeysEverything

(* No step before the purge loses or alters a retained version.             *)
THEOREM HistoryNeverLost == Spec => HistoryKept
<1> DEFINE Kept ==
      lifecycle' # "deleted" =>
          \A h \in history : \E g \in history' :
              g.secret = h.secret /\ g.ver = h.ver /\ g.val = h.val
<1>1. TypeOK /\ [Next]_serverVars => Kept
  <2> SUFFICES ASSUME TypeOK, [Next]_serverVars PROVE Kept
    OBVIOUS
  <2>1. ASSUME NEW u \in Users, SomeWrite(u) PROVE Kept
    BY <2>1 DEF SomeWrite, WriteSecrets, HistoryAfter
  <2>2. ASSUME NEW u \in Users, NEW req, Rotate(u, req) PROVE Kept
    <3>1. SUFFICES ASSUME NEW h \in history
                   PROVE  \E g \in history' : /\ g.secret = h.secret
                                              /\ g.ver = h.ver
                                              /\ g.val = h.val
      OBVIOUS
    <3> DEFINE after == IF <<h.secret, h.ver>> \in req.versions
                        THEN [h EXCEPT !.key = req.key] ELSE h
    <3>2. after \in history'
      BY <2>2 DEF Rotate, RewrapHistory
    <3>3. after.secret = h.secret /\ after.ver = h.ver /\ after.val = h.val
      BY DEF TypeOK, HistoryRow
    <3> QED BY <3>2, <3>3
  <2>3. ASSUME NEW u \in Users, SomeRotation(u) PROVE Kept
    BY <2>2, <2>3 DEF SomeRotation
  <2>4. CASE Purge
    BY <2>4 DEF Purge
  <2>5. CASE UNCHANGED <<revision, secrets, history, vaultKey>>
    BY <2>5
  <2> QED BY <2>1, <2>3, <2>4, <2>5, OtherStepsKeepContent
<1> QED
  BY <1>1, TypeCorrect, PTL DEF Spec, HistoryKept

(* Equal revisions mean equal content, and a revision never goes back: the  *)
(* 304 answer and the optimistic base check compare a faithful token.       *)
THEOREM RevisionFaithful == Spec => RevisionNamesContent
<1> DEFINE Names ==
      /\ revision' >= revision
      /\ revision' = revision /\ lifecycle' # "deleted" =>
             secrets' = secrets /\ history' = history
<1>1. TypeOK /\ [Next]_serverVars => Names
  <2> SUFFICES ASSUME TypeOK, [Next]_serverVars PROVE Names
    OBVIOUS
  <2>1. revision \in Nat
    BY DEF TypeOK
  <2>2. ASSUME NEW u \in Users, SomeWrite(u) PROVE Names
    BY <2>1, <2>2 DEF SomeWrite, WriteSecrets, NextRevision
  <2>3. ASSUME NEW u \in Users, SomeRotation(u) PROVE Names
    BY <2>1, <2>3 DEF SomeRotation, Rotate, NextRevision
  <2>4. CASE Purge
    BY <2>1, <2>4 DEF Purge
  <2>5. CASE UNCHANGED <<revision, secrets, history, vaultKey>>
    BY <2>1, <2>5
  <2> QED BY <2>2, <2>3, <2>4, <2>5, OtherStepsKeepContent
<1> QED
  BY <1>1, TypeCorrect, PTL DEF Spec, RevisionNamesContent

(* A deleting organisation is frozen: no handler changes what its members   *)
(* can see or do, until it recovers or is purged.                           *)
THEOREM DeletingIsFrozen == Spec => FrozenWhileDeleting
<1> DEFINE Frozen ==
      lifecycle = "deleting" /\ lifecycle' = "deleting" =>
          UNCHANGED <<role, revision, secrets, history, tokens, vaultKey>>
             /\ \A u \in Members : grants'[u] = grants[u]
<1>1. TypeOK /\ [Next]_serverVars => Frozen
  <2> SUFFICES ASSUME TypeOK, [Next]_serverVars, lifecycle = "deleting",
                      lifecycle' = "deleting"
               PROVE  /\ UNCHANGED <<role, revision, secrets, history,
                                      tokens, vaultKey>>
                      /\ \A u \in Members : grants'[u] = grants[u]
    OBVIOUS
  <2>1. ASSUME NEW u \in Users PROVE ~SomeWrite(u)
    BY DEF SomeWrite, WriteSecrets, MayWrite
  <2>2. ASSUME NEW u \in Users PROVE ~MayManage(u)
    BY DEF MayManage
  <2>3. ASSUME NEW u \in Users
        PROVE  ~SomeRotation(u) /\ ~SomeGrant(u) /\ ~SomeToken(u)
    <3>1. ~SomeRotation(u)
      <4>1. ASSUME NEW req PROVE ~Rotate(u, req)
        BY <2>2 DEF Rotate
      <4> QED BY <4>1 DEF SomeRotation
    <3>2. ~SomeGrant(u)
      BY <2>2 DEF SomeGrant, CreateGrant
    <3>3. ~SomeToken(u)
      BY <2>2 DEF SomeToken, CreateToken, RevokeToken
    <3> QED BY <3>1, <3>2, <3>3
  <2>4. ASSUME NEW u \in Users PROVE ~SomeMembership(u)
    BY <2>2 DEF SomeMembership, AddMember, UpdateMember, RemoveMember
  <2>5. ~FinishRecovery /\ ~Purge /\ \A u \in Users : ~RequestDeletion(u)
    BY DEF FinishRecovery, Purge, RequestDeletion
  <2>6. ASSUME NEW u \in Users, ResetAccount(u)
        PROVE  /\ UNCHANGED <<role, revision, secrets, history, tokens,
                               vaultKey>>
               /\ \A v \in Members : grants'[v] = grants[v]
    BY <2>6 DEF ResetAccount, WithoutGrant, Members, TypeOK
  <2>7. CASE UNCHANGED serverVars
    BY <2>7 DEF serverVars
  <2> QED BY <2>1, <2>3, <2>4, <2>5, <2>6, <2>7 DEF Next
<1> QED
  BY <1>1, TypeCorrect, PTL DEF Spec, FrozenWhileDeleting

=============================================================================
