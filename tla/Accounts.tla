------------------------------ MODULE Accounts ------------------------------
(* The user accounts of the WebUI when authentication is enabled: who is let
   through to a handler, and the handlers that create an account, delete one
   and change its password, each a sequence of separate database calls that
   interleave with those of the other requests.

   Passwords and hashes are left out: an account is its role, a token the
   claims it carries.                                                         *)
CONSTANTS Users,    \* usernames
          Requests, \* the requests that reach the WebUI server
          NoUser,
          None      \* no document with that username

ASSUME AccountsAssumption == NoUser \notin Users /\ None \notin {"user", "admin"}

Roles == {"user", "admin"}
Ops == {"create", "delete", "change"}

VARIABLES
    accounts, \* the role in the document of each username
    tokens,   \* the claims <<username, role>> of the tokens that are valid
    op, user, \* what each request does, and to which username
    pc,       \* where its handler is
    role,     \* the role its handler has decided on or fetched
    first,    \* history: the first account inserted
    overlapped \* history: two creations have been in progress together

vars == <<accounts, tokens, op, user, pc, role, first, overlapped>>

Issued == {u \in Users : accounts[u] # None}
Admins == {u \in Users : accounts[u] = "admin"}

Init == /\ accounts = [u \in Users |-> None]
        /\ tokens = {}
        /\ op = [r \in Requests |-> "create"]
        /\ user = [r \in Requests |-> NoUser]
        /\ pc = [r \in Requests |-> "new"]
        /\ role = [r \in Requests |-> "user"]
        /\ first = NoUser
        /\ overlapped = FALSE

Goto(r, l) == pc' = [pc EXCEPT ![r] = l]

-----------------------------------------------------------------------------
(* Tokens.  Login fetches the document and signs its role; every claim is one
   the document held when it was read, so fetch and answer are one step.      *)

Login(u) == /\ u \in Issued
            /\ tokens' = tokens \union {<<u, accounts[u]>>}
            /\ UNCHANGED <<accounts, op, user, pc, role, first, overlapped>>

(* One hour after it was issued. *)
Expire(k) == /\ tokens' = tokens \ {k}
             /\ UNCHANGED <<accounts, op, user, pc, role, first, overlapped>>

AdminOnly == \E u \in Users : <<u, "admin">> \in tokens
AdminOrMe(u) == AdminOnly \/ <<u, "user">> \in tokens
AdminOrFirstUser == Issued = {} \/ AdminOnly

InCreation(r) == op[r] = "create" /\ pc[r] \in {"count", "insert"}

(* A request is let through to its handler.  One that is refused changes
   nothing and never arrives here.                                            *)
Arrive(r, o, u) == /\ pc[r] = "new"
                   /\ op' = [op EXCEPT ![r] = o]
                   /\ user' = [user EXCEPT ![r] = u]
                   /\ UNCHANGED <<accounts, tokens, role, first>>

ArriveCreate(r, u) == /\ AdminOrFirstUser
                      /\ Arrive(r, "create", u)
                      /\ Goto(r, "count")
                      /\ overlapped' = (overlapped \/ \E q \in Requests : InCreation(q))

ArriveDelete(r, u) == /\ AdminOnly
                      /\ Arrive(r, "delete", u)
                      /\ Goto(r, "fetch")
                      /\ UNCHANGED overlapped

ArriveChange(r, u) == /\ AdminOrMe(u)
                      /\ Arrive(r, "change", u)
                      /\ Goto(r, "fetch")
                      /\ UNCHANGED overlapped

-----------------------------------------------------------------------------
(* CreateUserAccount: isFirstAccountIssued counts the documents a second time
   (the middleware has counted them before) and decides the role ...          *)

(* Variant: off by one, the second account is an administrator too. *)
DecideLate(r) == /\ op[r] = "create" /\ pc[r] = "count"
                 /\ role' = [role EXCEPT ![r] = IF \E u, v \in Issued : u # v
                                                  THEN "user" ELSE "admin"]
                 /\ Goto(r, "insert")
                 /\ UNCHANGED <<accounts, tokens, op, user, first, overlapped>>

Decide(r) == /\ op[r] = "create" /\ pc[r] = "count"
             /\ role' = [role EXCEPT ![r] = IF Issued # {}
                                              THEN "user" ELSE "admin"]
             /\ Goto(r, "insert")
             /\ UNCHANGED <<accounts, tokens, op, user, first, overlapped>>

(* ... and the document is inserted, unless the unique index on the username
   refuses it (409).                                                          *)
Insert(r) == /\ op[r] = "create" /\ pc[r] = "insert"
             /\ IF user[r] \in Issued
                  THEN UNCHANGED <<accounts, first>>
                  ELSE /\ accounts' = [accounts EXCEPT ![user[r]] = role[r]]
                       /\ first' = IF first = NoUser THEN user[r] ELSE first
             /\ Goto(r, "done")
             /\ UNCHANGED <<tokens, op, user, role, overlapped>>

-----------------------------------------------------------------------------
(* DeleteUserAccount: 404 without a document, 400 for an administrator. *)

(* Variant: any account may be deleted. *)
FetchDeleteAny(r) == /\ op[r] = "delete" /\ pc[r] = "fetch"
                     /\ Goto(r, IF user[r] \in Issued THEN "remove" ELSE "done")
                     /\ UNCHANGED <<accounts, tokens, op, user, role, first, overlapped>>

FetchDelete(r) == /\ op[r] = "delete" /\ pc[r] = "fetch"
                  /\ Goto(r, IF accounts[user[r]] \in {None, "admin"}
                               THEN "done" ELSE "remove")
                  /\ UNCHANGED <<accounts, tokens, op, user, role, first, overlapped>>

(* DeleteOne takes whatever document has that username by now, or none. *)
Remove(r) == /\ op[r] = "delete" /\ pc[r] = "remove"
             /\ accounts' = [accounts EXCEPT ![user[r]] = None]
             /\ Goto(r, "done")
             /\ UNCHANGED <<tokens, op, user, role, first, overlapped>>

-----------------------------------------------------------------------------
(* ChangeUserAccountPasssword: 404 without a document; the whole document is
   written again, with the role that was fetched.                             *)

(* Variant: the 404 is forgotten. *)
FetchChangeAny(r) == /\ op[r] = "change" /\ pc[r] = "fetch"
                     /\ role' = [role EXCEPT ![r] = accounts[user[r]]]
                     /\ Goto(r, "find")
                     /\ UNCHANGED <<accounts, tokens, op, user, first, overlapped>>

(* Variant: the new document has the role of a new user. *)
FetchChangeUser(r) == /\ op[r] = "change" /\ pc[r] = "fetch"
                      /\ role' = [role EXCEPT ![r] = "user"]
                      /\ Goto(r, IF user[r] \in Issued THEN "find" ELSE "done")
                      /\ UNCHANGED <<accounts, tokens, op, user, first, overlapped>>

FetchChange(r) == /\ op[r] = "change" /\ pc[r] = "fetch"
                  /\ IF user[r] \in Issued
                       THEN /\ role' = [role EXCEPT ![r] = accounts[user[r]]]
                            /\ Goto(r, "find")
                       ELSE /\ Goto(r, "done")
                            /\ UNCHANGED role
                  /\ UNCHANGED <<accounts, tokens, op, user, first, overlapped>>

(* RestfulAPIPost looks for the document and then updates or inserts. *)
Find(r) == /\ op[r] = "change" /\ pc[r] = "find"
           /\ Goto(r, IF user[r] \in Issued THEN "update" ELSE "insert")
           /\ UNCHANGED <<accounts, tokens, op, user, role, first, overlapped>>

(* $set on a document that has gone by now matches nothing. *)
Update(r) == /\ op[r] = "change" /\ pc[r] = "update"
             /\ accounts' = IF user[r] \in Issued
                              THEN [accounts EXCEPT ![user[r]] = role[r]]
                              ELSE accounts
             /\ Goto(r, "done")
             /\ UNCHANGED <<tokens, op, user, role, first, overlapped>>

(* The account was deleted between the fetch and the find: it comes back. *)
Upsert(r) == /\ op[r] = "change" /\ pc[r] = "insert"
             /\ accounts' = IF user[r] \in Issued
                              THEN accounts
                              ELSE [accounts EXCEPT ![user[r]] = role[r]]
             /\ Goto(r, "done")
             /\ UNCHANGED <<tokens, op, user, role, first, overlapped>>

-----------------------------------------------------------------------------
(* A database call fails, bcrypt fails or the caller's server dies: 500. *)
Abort(r) == /\ pc[r] \notin {"new", "done"}
            /\ Goto(r, "done")
            /\ UNCHANGED <<accounts, tokens, op, user, role, first, overlapped>>

(* The process restarts: requests end, and a new JWT secret voids all tokens. *)
Restart == /\ pc' = [r \in Requests |-> IF pc[r] = "new" THEN "new" ELSE "done"]
           /\ tokens' = {}
           /\ UNCHANGED <<accounts, op, user, role, first, overlapped>>

Step(r) == \/ Decide(r) \/ Insert(r)
           \/ FetchDelete(r) \/ Remove(r)
           \/ FetchChange(r) \/ Find(r) \/ Update(r) \/ Upsert(r)
           \/ Abort(r)

Next == \/ \E u \in Users : Login(u)
        \/ \E k \in tokens : Expire(k)
        \/ \E r \in Requests, u \in Users :
              ArriveCreate(r, u) \/ ArriveDelete(r, u) \/ ArriveChange(r, u)
        \/ \E r \in Requests : Step(r)
        \/ Restart

Spec == Init /\ [][Next]_vars

-----------------------------------------------------------------------------
(* The variables keep their types; a handler never holds the role of an account
   that was not there.                                                        *)
TypeOK == /\ accounts \in [Users -> Roles \union {None}]
          /\ tokens \subseteq Users \X Roles
          /\ op \in [Requests -> Ops]
          /\ user \in [Requests -> Users \union {NoUser}]
          /\ \A r \in Requests : pc[r] # "new" => user[r] \in Users
          /\ pc \in [Requests -> {"new", "count", "insert", "fetch", "remove",
                                  "find", "update", "done"}]
          /\ role \in [Requests -> Roles]
          /\ first \in Users \union {NoUser}
          /\ overlapped \in BOOLEAN

(* The system never locks its administrator out: from the moment an account is
   inserted, the first one exists and is an administrator, whatever stalled
   creations, deletions and password changes are still to write.              *)
FirstAdminStays == IF first = NoUser THEN Issued = {} ELSE accounts[first] = "admin"

(* When no two creations are in progress together the first account is the only
   administrator, however creations interleave with deletions and password
   changes that write back a fetched role.                                    *)
OneAdminInSequence == ~overlapped => Admins \subseteq {first}

(* ... and no account changes its role. *)
RoleKept == [][~overlapped' =>
                  \A u \in Issued \intersect Issued' : accounts'[u] = accounts[u]]_vars

(* A token keeps the role of the login, and nothing revokes it before it expires;
   still none names an administrator who is not one, when no two creations were
   in progress together: who outlives an account is an ordinary user.         *)
AdminTokensTrue ==
    ~overlapped => \A u \in Users : <<u, "admin">> \in tokens => accounts[u] = "admin"

(* backend/auth/README.md: "Only one user can hold the AdminRole". *)
OnlyOneAdmin == \A u, v \in Admins : u = v
=============================================================================
