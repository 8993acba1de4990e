--------------------------- MODULE AccountsProofs ---------------------------
(* Proofs about Accounts, for every set of users and of requests. *)
EXTENDS Accounts, TLAPS

(* The variables keep their types. *)
THEOREM TypeCorrect == Spec => []TypeOK
<1>1. Init => TypeOK
  BY AccountsAssumption DEF Init, TypeOK, Roles, Ops
<1>2. TypeOK /\ [Next]_vars => TypeOK'
  <2> SUFFICES ASSUME TypeOK, [Next]_vars PROVE TypeOK'
    OBVIOUS
  <2> USE AccountsAssumption DEF TypeOK, Roles, Ops, Goto, Issued
  <2>1. ASSUME NEW u \in Users, Login(u) PROVE TypeOK'
    BY <2>1 DEF Login
  <2>2. ASSUME NEW k \in tokens, Expire(k) PROVE TypeOK'
    BY <2>2 DEF Expire
  <2>3. ASSUME NEW r \in Requests, NEW u \in Users, ArriveCreate(r, u) PROVE TypeOK'
    <3>1. overlapped' \in BOOLEAN
      BY <2>3, Zenon DEF ArriveCreate
    <3> QED
      BY <2>3, <3>1 DEF ArriveCreate, Arrive
  <2>4. ASSUME NEW r \in Requests, NEW u \in Users, ArriveDelete(r, u) PROVE TypeOK'
    BY <2>4 DEF ArriveDelete, Arrive
  <2>5. ASSUME NEW r \in Requests, NEW u \in Users, ArriveChange(r, u) PROVE TypeOK'
    BY <2>5 DEF ArriveChange, Arrive
  <2>6. ASSUME NEW r \in Requests, Decide(r) PROVE TypeOK'
    BY <2>6 DEF Decide
  <2>7. ASSUME NEW r \in Requests, Insert(r) PROVE TypeOK'
    BY <2>7 DEF Insert
  <2>8. ASSUME NEW r \in Requests, FetchDelete(r) PROVE TypeOK'
    BY <2>8 DEF FetchDelete
  <2>9. ASSUME NEW r \in Requests, Remove(r) PROVE TypeOK'
    BY <2>9 DEF Remove
  <2>10. ASSUME NEW r \in Requests, FetchChange(r) PROVE TypeOK'
    BY <2>10 DEF FetchChange
  <2>11. ASSUME NEW r \in Requests, Find(r) PROVE TypeOK'
    BY <2>11 DEF Find
  <2>12. ASSUME NEW r \in Requests, Update(r) PROVE TypeOK'
    BY <2>12 DEF Update
  <2>13. ASSUME NEW r \in Requests, Upsert(r) PROVE TypeOK'
    BY <2>13 DEF Upsert
  <2>14. ASSUME NEW r \in Requests, Abort(r) PROVE TypeOK'
    BY <2>14 DEF Abort
  <2>15. CASE Restart
    BY <2>15 DEF Restart
  <2>16. CASE UNCHANGED vars
    BY <2>16 DEF vars
  <2> QED
    BY <2>1, <2>2, <2>3, <2>4, <2>5, <2>6, <2>7, <2>8, <2>9, <2>10, <2>11, <2>12,
       <2>13, <2>14, <2>15, <2>16 DEF Next, Step
<1> QED
  BY <1>1, <1>2, PTL DEF Spec

-----------------------------------------------------------------------------
(* What the handlers in progress remember.  One that would write the role user
   has seen an account, so the first account exists; one that would remove or
   rewrite an account has fetched it, and so knows the first as administrator. *)
Writing(r) == op[r] = "change" /\ pc[r] \in {"find", "update", "insert"}

MemoryInv == \A r \in Requests :
    /\ op[r] = "create" /\ pc[r] = "insert" /\ role[r] = "user" => first # NoUser
    /\ op[r] = "delete" /\ pc[r] = "remove" => first # NoUser /\ user[r] # first
    /\ Writing(r) => first # NoUser /\ (user[r] = first => role[r] = "admin")

LEMMA FirstStep ==
    TypeOK /\ MemoryInv /\ FirstAdminStays /\ [Next]_vars
      => MemoryInv' /\ FirstAdminStays'
<1> SUFFICES ASSUME TypeOK, MemoryInv, FirstAdminStays, [Next]_vars
             PROVE  MemoryInv' /\ FirstAdminStays'
  OBVIOUS
<1> USE AccountsAssumption
    DEF TypeOK, MemoryInv, FirstAdminStays, Writing, Issued, Roles, Goto
<1>1. ASSUME NEW u \in Users, Login(u) PROVE MemoryInv' /\ FirstAdminStays'
  BY <1>1 DEF Login
<1>2. ASSUME NEW k \in tokens, Expire(k) PROVE MemoryInv' /\ FirstAdminStays'
  BY <1>2 DEF Expire
<1>3. ASSUME NEW r \in Requests, NEW u \in Users,
             ArriveCreate(r, u) \/ ArriveDelete(r, u) \/ ArriveChange(r, u)
      PROVE  MemoryInv' /\ FirstAdminStays'
  BY <1>3 DEF ArriveCreate, ArriveDelete, ArriveChange, Arrive
<1>4. ASSUME NEW r \in Requests, Decide(r) PROVE MemoryInv' /\ FirstAdminStays'
  BY <1>4 DEF Decide
<1>5. ASSUME NEW r \in Requests, Insert(r) PROVE MemoryInv' /\ FirstAdminStays'
  BY <1>5 DEF Insert
<1>6. ASSUME NEW r \in Requests, FetchDelete(r) PROVE MemoryInv' /\ FirstAdminStays'
  BY <1>6 DEF FetchDelete
<1>7. ASSUME NEW r \in Requests, Remove(r) PROVE MemoryInv' /\ FirstAdminStays'
  BY <1>7 DEF Remove
<1>8. ASSUME NEW r \in Requests, FetchChange(r) PROVE MemoryInv' /\ FirstAdminStays'
  BY <1>8 DEF FetchChange
<1>9. ASSUME NEW r \in Requests, Find(r) PROVE MemoryInv' /\ FirstAdminStays'
  BY <1>9 DEF Find
<1>10. ASSUME NEW r \in Requests, Update(r) PROVE MemoryInv' /\ FirstAdminStays'
  BY <1>10 DEF Update
<1>11. ASSUME NEW r \in Requests, Upsert(r) PROVE MemoryInv' /\ FirstAdminStays'
  BY <1>11 DEF Upsert
<1>12. ASSUME NEW r \in Requests, Abort(r) PROVE MemoryInv' /\ FirstAdminStays'
  BY <1>12 DEF Abort
<1>13. CASE Restart
  BY <1>13 DEF Restart
<1>14. CASE UNCHANGED vars
  BY <1>14 DEF vars
<1> QED
  BY <1>1, <1>2, <1>3, <1>4, <1>5, <1>6, <1>7, <1>8, <1>9, <1>10, <1>11, <1>12,
     <1>13, <1>14 DEF Next, Step

LEMMA MemoryAlways == Spec => [](MemoryInv /\ FirstAdminStays)
<1>1. Init => MemoryInv /\ FirstAdminStays
  BY DEF Init, MemoryInv, FirstAdminStays, Writing, Issued
<1> QED
  BY <1>1, FirstStep, TypeCorrect, PTL DEF Spec

(* The first account stays, as an administrator, whatever handlers interleave. *)
THEOREM FirstAdminAlways == Spec => []FirstAdminStays
BY MemoryAlways, PTL

-----------------------------------------------------------------------------
(* As long as creations have not overlapped: one is in progress at most, one
   that would insert an administrator is the first, and a password change
   writes back the role the account still has if it exists.                   *)
SequenceInv == ~overlapped =>
    /\ \A r, q \in Requests : InCreation(r) /\ InCreation(q) => r = q
    /\ \A r \in Requests :
          /\ op[r] = "create" /\ pc[r] = "insert" /\ role[r] = "admin"
                => first = NoUser
          /\ Writing(r) /\ user[r] # first => role[r] = "user"
    /\ Admins \subseteq {first}

LEMMA SequenceStep ==
    TypeOK /\ MemoryInv /\ FirstAdminStays /\ SequenceInv /\ [Next]_vars
      => SequenceInv'
<1> SUFFICES ASSUME TypeOK, MemoryInv, FirstAdminStays, SequenceInv, [Next]_vars,
                    ~overlapped'
             PROVE  SequenceInv'
  BY DEF SequenceInv
<1> USE AccountsAssumption
    DEF TypeOK, SequenceInv, InCreation, Writing, Admins, Roles, Goto
<1>1. ASSUME NEW u \in Users, Login(u) PROVE SequenceInv'
  BY <1>1 DEF Login
<1>2. ASSUME NEW k \in tokens, Expire(k) PROVE SequenceInv'
  BY <1>2 DEF Expire
<1>3. ASSUME NEW r \in Requests, NEW u \in Users, ArriveCreate(r, u) PROVE SequenceInv'
  BY <1>3 DEF ArriveCreate, Arrive
<1>4. ASSUME NEW r \in Requests, NEW u \in Users,
             ArriveDelete(r, u) \/ ArriveChange(r, u)
      PROVE  SequenceInv'
  BY <1>4 DEF ArriveDelete, ArriveChange, Arrive
<1>5. ASSUME NEW r \in Requests, Decide(r) PROVE SequenceInv'
  BY <1>5 DEF Decide, Issued, FirstAdminStays
<1>6. ASSUME NEW r \in Requests, Insert(r) PROVE SequenceInv'
  BY <1>6 DEF Insert, Issued, FirstAdminStays, MemoryInv
<1>7. ASSUME NEW r \in Requests, FetchDelete(r) \/ Remove(r) \/ Find(r) \/ Abort(r)
      PROVE  SequenceInv'
  BY <1>7 DEF FetchDelete, Remove, Find, Abort
<1>8. ASSUME NEW r \in Requests, FetchChange(r) PROVE SequenceInv'
  BY <1>8 DEF FetchChange, Issued
<1>9. ASSUME NEW r \in Requests, Update(r) PROVE SequenceInv'
  BY <1>9 DEF Update, Issued
<1>10. ASSUME NEW r \in Requests, Upsert(r) PROVE SequenceInv'
  BY <1>10 DEF Upsert, Issued
<1>11. CASE Restart
  BY <1>11 DEF Restart
<1>12. CASE UNCHANGED vars
  BY <1>12 DEF vars
<1> QED
  BY <1>1, <1>2, <1>3, <1>4, <1>5, <1>6, <1>7, <1>8, <1>9, <1>10, <1>11, <1>12
  DEF Next, Step

LEMMA SequenceAlways == Spec => []SequenceInv
<1>1. Init => SequenceInv
  BY AccountsAssumption DEF Init, SequenceInv, InCreation, Writing, Admins
<1> QED
  BY <1>1, SequenceStep, MemoryAlways, TypeCorrect, PTL DEF Spec

(* Without overlapping creations the first account is the only administrator. *)
THEOREM OneAdminAlways == Spec => []OneAdminInSequence
<1>1. SequenceInv => OneAdminInSequence
  BY DEF SequenceInv, OneAdminInSequence
<1> QED
  BY <1>1, SequenceAlways, PTL

(* Without overlapping creations no account changes its role. *)
LEMMA RoleStep ==
    ASSUME TypeOK, MemoryInv, FirstAdminStays, SequenceInv, [Next]_vars, ~overlapped',
           NEW u \in Issued \intersect Issued'
    PROVE  accounts'[u] = accounts[u]
<1> USE AccountsAssumption DEF TypeOK, Issued
<1>1. ASSUME NEW r \in Requests, Update(r) PROVE accounts'[u] = accounts[u]
  <2>1. ~overlapped /\ Writing(r)
    BY <1>1 DEF Update, Writing
  <2>2. CASE user[r] = u /\ u = first
    BY <1>1, <2>1, <2>2 DEF Update, MemoryInv, FirstAdminStays
  <2>3. CASE user[r] = u /\ u # first
    BY <1>1, <2>1, <2>3 DEF Update, SequenceInv, Admins, Roles
  <2>4. CASE user[r] # u
    BY <1>1, <2>4 DEF Update
  <2> QED
    BY <2>2, <2>3, <2>4
<1>2. ASSUME NEW r \in Requests, Insert(r) \/ Remove(r) \/ Upsert(r)
      PROVE  accounts'[u] = accounts[u]
  BY <1>2 DEF Insert, Remove, Upsert
<1>3. ASSUME NEW r \in Requests,
             Decide(r) \/ FetchDelete(r) \/ FetchChange(r) \/ Find(r) \/ Abort(r)
      PROVE  accounts' = accounts
  BY <1>3 DEF Decide, FetchDelete, FetchChange, Find, Abort
<1>4. ASSUME NEW r \in Requests, NEW v \in Users,
             ArriveCreate(r, v) \/ ArriveDelete(r, v) \/ ArriveChange(r, v)
      PROVE  accounts' = accounts
  BY <1>4 DEF ArriveCreate, ArriveDelete, ArriveChange, Arrive
<1>5. ASSUME (\E v \in Users : Login(v)) \/ (\E k \in tokens : Expire(k)) \/ Restart
               \/ UNCHANGED vars
      PROVE  accounts' = accounts
  BY <1>5 DEF Login, Expire, Restart, vars
<1> QED
  BY <1>1, <1>2, <1>3, <1>4, <1>5 DEF Next, Step

THEOREM RolesAlwaysKept == Spec => RoleKept
<1>1. TypeOK /\ MemoryInv /\ FirstAdminStays /\ SequenceInv /\ [Next]_vars
        => [~overlapped' => \A u \in Issued \intersect Issued' :
                               accounts'[u] = accounts[u]]_vars
  BY RoleStep
<1> QED
  BY <1>1, TypeCorrect, MemoryAlways, SequenceAlways, PTL DEF Spec, RoleKept

-----------------------------------------------------------------------------
(* Tokens: as long as creations have not overlapped, only the first account has
   ever logged in as an administrator.                                        *)
TokenInv == ~overlapped =>
    \A u \in Users : <<u, "admin">> \in tokens => u = first /\ first # NoUser

LEMMA TokenStep ==
    ASSUME TypeOK, SequenceInv, TokenInv, [Next]_vars
    PROVE  TokenInv'
<1> USE AccountsAssumption DEF TypeOK, TokenInv
<1>1. ASSUME NEW u \in Users, Login(u) PROVE TokenInv'
  BY <1>1 DEF Login, SequenceInv, Admins, Issued, Roles
<1>2. ASSUME NEW k \in tokens, Expire(k) PROVE TokenInv'
  BY <1>2 DEF Expire
<1>3. ASSUME NEW r \in Requests, NEW u \in Users,
             ArriveCreate(r, u) \/ ArriveDelete(r, u) \/ ArriveChange(r, u)
      PROVE  TokenInv'
  BY <1>3 DEF ArriveCreate, ArriveDelete, ArriveChange, Arrive
<1>4. ASSUME NEW r \in Requests, Insert(r) PROVE TokenInv'
  BY <1>4 DEF Insert
<1>5. ASSUME NEW r \in Requests,
             Decide(r) \/ FetchDelete(r) \/ Remove(r) \/ FetchChange(r) \/ Find(r)
               \/ Update(r) \/ Upsert(r) \/ Abort(r)
      PROVE  TokenInv'
  BY <1>5 DEF Decide, FetchDelete, Remove, FetchChange, Find, Update, Upsert, Abort
<1>6. CASE Restart
  BY <1>6 DEF Restart
<1>7. CASE UNCHANGED vars
  BY <1>7 DEF vars
<1> QED
  BY <1>1, <1>2, <1>3, <1>4, <1>5, <1>6, <1>7 DEF Next, Step

(* Without overlapping creations no token names an administrator who is not one,
   however long tokens outlive accounts.                                      *)
THEOREM AdminTokensAlways == Spec => []AdminTokensTrue
<1>1. Init => TokenInv
  BY DEF Init, TokenInv
<1>2. Spec => []TokenInv
  BY <1>1, TokenStep, TypeCorrect, SequenceAlways, PTL DEF Spec
<1>3. FirstAdminStays /\ TokenInv => AdminTokensTrue
  BY DEF FirstAdminStays, TokenInv, AdminTokensTrue
<1> QED
  BY <1>2, <1>3, FirstAdminAlways, PTL
=============================================================================
