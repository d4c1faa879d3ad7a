--------------------------- MODULE Accounts_proofs ---------------------------
(***************************************************************************)
(* Theorems about Accounts, for every set of users, browsers and programs: *)
(* the rows of the database stay consistent whatever overlaps, and the     *)
(* rules about the last administrator and about titles hold as long as the *)
(* requests they are about do not overlap.                                 *)
(***************************************************************************)
EXTENDS Accounts, NaturalSets, FiniteSetTheorems, FunctionTheorems, TLAPS

USE DEF Exists, Role, Ends, Becomes, Idle, NoRows, Deleting

\* What a request of each kind has read.
LEMMA RequestShape ==
  ASSUME NEW r \in Request
  PROVE  /\ r.kind = "sign in" => r \in [kind : {"sign in"}, user : User]
         /\ r.kind \in {"check role", "write role"} =>
              r \in [kind : {"check role", "write role"}, user : User, seen : Role, new : Role]
         /\ r.kind \in Deleting => r \in [kind : Deleting, user : User]
         /\ r.kind \in {"validate", "insert"} =>
              r \in [kind : {"validate", "insert"}, user : User, title : Title]
         /\ r.kind \in {"validate title", "write title"} =>
              r \in [kind : {"validate title", "write title"}, row : Program, user : User, title : Title]
<1>1. CASE r = Idle
  BY <1>1
<1>2. CASE r \in [kind : {"sign in"}, user : User]
  BY <1>2
<1>3. CASE r \in [kind : {"check role", "write role"}, user : User, seen : Role, new : Role]
  BY <1>3
<1>4. CASE r \in [kind : Deleting, user : User]
  BY <1>4
<1>5. CASE r \in [kind : {"validate", "insert"}, user : User, title : Title]
  BY <1>5
<1>6. CASE r \in [kind : {"validate title", "write title"}, row : Program, user : User, title : Title]
  BY <1>6
<1> QED
  BY <1>1, <1>2, <1>3, <1>4, <1>5, <1>6 DEF Request

-----------------------------------------------------------------------------
(* The default title exists.                                               *)

\* Among the titles "Untitled (n)" that there are, one is free and the first such is
\* the default, as long as there is a row for another program.
LEMMA DefaultTitleIsFree ==
  ASSUME AccountsTypeOK, Unused # {}, NEW u \in User
  PROVE  DefaultTitle(u) \in Default /\ DefaultTitle(u) \notin Titles(u, Program)
<1> DEFINE taken == Titles(u, Program)
           title == [p \in Rows(u) |-> program[p].title]
<1>1. PICK q \in Program : program[q] = NoProgram
  BY DEF Unused
<1>2. IsFiniteSet(Program) /\ Cardinality(Program) \in Nat
  BY AccountsAssumption, FS_CardinalityType
<1>3. IsFiniteSet(Program \ {q}) /\ Cardinality(Program \ {q}) = Cardinality(Program) - 1
  BY <1>2, FS_RemoveElement
<1>4. IsFiniteSet(Rows(u)) /\ Cardinality(Rows(u)) <= Cardinality(Program) - 1
  <2>1. Rows(u) \in SUBSET (Program \ {q})
    BY <1>1 DEF Rows
  <2> QED
    BY <1>3, <2>1, FS_Subset
<1>5. IsFiniteSet(taken) /\ Cardinality(taken) <= Cardinality(Rows(u))
  <2>1. title \in Surjection(Rows(u), taken)
    BY DEF Surjection, Titles, Rows
  <2> QED
    BY <1>4, <2>1, FS_Surjection
<1>6. IsFiniteSet(Default) /\ Cardinality(Default) = Cardinality(Program)
  BY <1>2, FS_Interval DEF Default
<1>7. ~(Default \subseteq taken)
  <2>1. SUFFICES ASSUME Default \in SUBSET taken PROVE FALSE
    OBVIOUS
  <2>2. Cardinality(Default) <= Cardinality(taken)
    BY <1>5, <2>1, FS_Subset
  <2>3. Cardinality(taken) \in Nat /\ Cardinality(Rows(u)) \in Nat
    BY <1>4, <1>5, FS_CardinalityType
  <2> QED
    BY <1>2, <1>4, <1>5, <1>6, <2>2, <2>3
<1>8. \E n \in Default \ taken : \A m \in Default \ taken : n <= m
  <2>1. Default \ taken \in SUBSET Nat /\ Default \ taken # {}
    BY <1>2, <1>7 DEF Default
  <2> QED
    BY <2>1, LeastElement
<1>9. \E n \in Default : n \notin taken /\ \A m \in 1..n - 1 : m \in taken
  BY <1>2, <1>8 DEF Default
<1> QED
  BY <1>9 DEF DefaultTitle

-----------------------------------------------------------------------------
(* Types.                                                                  *)

LEMMA LoadedTyped == NoRows \in Loaded
BY DEF Loaded

LEMMA AccountsTypeOKInit == Init => AccountsTypeOK
BY AccountsAssumption, LoadedTyped DEF Init, AccountsTypeOK, Request

\* A request may become one of any kind.
LEMMA BecomesTyped ==
  ASSUME AccountsTypeOK, NEW b \in Browser, NEW r \in Request, Becomes(b, r)
  PROVE  request' \in [Browser -> Request]
BY DEF AccountsTypeOK

LEMMA EndsTyped ==
  ASSUME AccountsTypeOK, NEW b \in Browser, Ends(b)
  PROVE  request' \in [Browser -> Request]
BY BecomesTyped DEF Request

LEMMA BeginsTyped ==
  ASSUME AccountsTypeOK, NEW b \in Browser, NEW r \in Request,
         NEW others, NEW kind \in {"users", "programs"}, Begins(b, r, others, kind)
  PROVE  request' \in [Browser -> Request] /\ crossed' \subseteq {"users", "programs"}
BY BecomesTyped DEF AccountsTypeOK, Begins

LEMMA AccountsTypeOKStep == AccountsTypeOK /\ [Next]_vars => AccountsTypeOK'
<1> SUFFICES ASSUME AccountsTypeOK, [Next]_vars PROVE AccountsTypeOK'
  OBVIOUS
<1>a. \A b \in Browser : request[b] \in Request
  BY DEF AccountsTypeOK
<1>b. \A b \in Browser : loaded[b] \in Loaded
  BY DEF AccountsTypeOK
<1>1. ASSUME NEW u \in User, ResetPassword(u) PROVE AccountsTypeOK'
  BY <1>1 DEF ResetPassword, SessionsWithout, AccountsTypeOK
<1>2. ASSUME NEW b \in Browser, StartSession(b) PROVE AccountsTypeOK'
  <2>1. request[b].user \in User
    BY <1>2, <1>a, RequestShape DEF StartSession
  <2>2. loaded' \in [Browser -> Loaded]
    <3>1. \A c \in Browser : [loaded[c] EXCEPT !.sessions = @ \ {b}] \in Loaded
      BY <1>b DEF Loaded
    <3>2. loaded \in [Browser -> Loaded]
      BY DEF AccountsTypeOK
    <3>3. \/ loaded' = [c \in Browser |-> [loaded[c] EXCEPT !.sessions = @ \ {b}]]
          \/ loaded' = loaded
      BY <1>2 DEF StartSession
    <3> QED
      BY <3>1, <3>2, <3>3
  <2> QED
    BY <1>2, <2>1, <2>2, EndsTyped DEF StartSession, AccountsTypeOK
<1>3. ASSUME NEW b \in Browser, SignOut(b) PROVE AccountsTypeOK'
  BY <1>3 DEF SignOut, AccountsTypeOK
<1>4. ASSUME NEW b \in Browser, CheckRole(b) PROVE AccountsTypeOK'
  <2>1. [request[b] EXCEPT !.kind = "write role"] \in Request
    BY <1>4, <1>a, RequestShape DEF CheckRole, Request
  <2>2. request' \in [Browser -> Request]
    BY <1>4, <2>1, BecomesTyped, EndsTyped DEF CheckRole
  <2> QED
    BY <1>4, <2>2 DEF CheckRole, AccountsTypeOK
<1>5. ASSUME NEW b \in Browser, WriteRole(b) PROVE AccountsTypeOK'
  <2>1. request[b].new \in Role
    BY <1>5, <1>a, RequestShape DEF WriteRole
  <2> QED
    BY <1>5, <2>1, EndsTyped DEF WriteRole, Updated, AccountsTypeOK
<1>6. ASSUME NEW b \in Browser, DestroySessions(b) \/ DestroyPrograms(b) PROVE AccountsTypeOK'
  <2>1. PICK next \in Deleting : Becomes(b, [request[b] EXCEPT !.kind = next])
    BY <1>6 DEF DestroySessions, DestroyPrograms
  <2>2. [request[b] EXCEPT !.kind = next] \in Request
    BY <1>6, <1>a, RequestShape DEF DestroySessions, DestroyPrograms, Request
  <2>3. request' \in [Browser -> Request]
    BY <2>1, <2>2, BecomesTyped
  <2>4. Sessions(request[b].user) \subseteq Browser /\ Rows(request[b].user) \subseteq Program
    BY DEF Sessions, Rows
  <2>5. loaded' \in [Browser -> Loaded]
    <3>1. ASSUME NEW l \in Loaded, loaded' = [loaded EXCEPT ![b] = l] PROVE loaded' \in [Browser -> Loaded]
      BY <3>1 DEF AccountsTypeOK
    <3>2. CASE DestroySessions(b)
      <4>1. [sessions |-> Sessions(request[b].user), programs |-> {}] \in Loaded
        BY <2>4 DEF Loaded
      <4> QED
        BY <3>1, <3>2, <4>1 DEF DestroySessions
    <3>3. CASE DestroyPrograms(b)
      <4>1. [loaded[b] EXCEPT !.programs = Rows(request[b].user)] \in Loaded
        BY <1>b, <2>4 DEF Loaded
      <4> QED
        BY <3>1, <3>3, <4>1 DEF DestroyPrograms
    <3> QED
      BY <1>6, <3>2, <3>3
  <2> QED
    BY <1>6, <2>3, <2>5 DEF DestroySessions, DestroyPrograms, AccountsTypeOK
<1>19. ASSUME NEW b \in Browser, DeleteUser(b) PROVE AccountsTypeOK'
  <2>1. loaded' \in [Browser -> Loaded]
    BY <1>19, LoadedTyped DEF DeleteUser, AccountsTypeOK
  <2> QED
    BY <1>19, <2>1, EndsTyped DEF DeleteUser, AccountsTypeOK
<1>7. ASSUME NEW b \in Browser, AskProgram(b) PROVE AccountsTypeOK'
  <2>1. session[b] \in User /\ DefaultTitle(session[b]) \in Title
    BY <1>7, DefaultTitleIsFree DEF AskProgram, Authenticated, AccountsTypeOK, Title
  <2>2. [kind |-> "validate", user |-> session[b], title |-> DefaultTitle(session[b])] \in Request
    BY <2>1 DEF Request
  <2>3. request' \in [Browser -> Request] /\ crossed' \subseteq {"users", "programs"}
    BY <1>7, <2>2, BeginsTyped DEF AskProgram
  <2> QED
    BY <1>7, <2>3 DEF AskProgram, AccountsTypeOK
<1>8. ASSUME NEW b \in Browser, ValidateProgram(b) PROVE AccountsTypeOK'
  <2>1. [request[b] EXCEPT !.kind = "insert"] \in Request
    BY <1>8, <1>a, RequestShape DEF ValidateProgram, Request
  <2>2. request' \in [Browser -> Request]
    BY <1>8, <2>1, BecomesTyped, EndsTyped DEF ValidateProgram, Validated
  <2> QED
    BY <1>8, <2>2 DEF ValidateProgram, AccountsTypeOK
<1>9. ASSUME NEW b \in Browser, ValidateTitle(b) PROVE AccountsTypeOK'
  <2>1. [request[b] EXCEPT !.kind = "write title"] \in Request
    BY <1>9, <1>a, RequestShape DEF ValidateTitle, Request
  <2>2. request' \in [Browser -> Request]
    BY <1>9, <2>1, BecomesTyped, EndsTyped DEF ValidateTitle, Validated
  <2> QED
    BY <1>9, <2>2 DEF ValidateTitle, AccountsTypeOK
<1>10. ASSUME NEW b \in Browser, WriteTitle(b) PROVE AccountsTypeOK'
  <2>1. request[b].title \in Title /\ request[b].row \in Program
    BY <1>10, <1>a, RequestShape DEF WriteTitle
  <2>2. program' \in [Program -> [owner : User, title : Title] \cup {NoProgram}]
    BY <1>10, <2>1 DEF WriteTitle, Rows, AccountsTypeOK
  <2> QED
    BY <1>10, <2>2, EndsTyped DEF WriteTitle, AccountsTypeOK
<1>11. ASSUME NEW b \in Browser, NEW u \in User, Register(b, u) PROVE AccountsTypeOK'
  BY <1>11, BecomesTyped DEF Register, Request, AccountsTypeOK
<1>12. ASSUME NEW b \in Browser, NEW u \in User, Authenticate(b, u) PROVE AccountsTypeOK'
  BY <1>12, BecomesTyped DEF Authenticate, Request, AccountsTypeOK
<1>13. ASSUME NEW b \in Browser, NEW u \in User, AskDestroy(b, u) PROVE AccountsTypeOK'
  <2>1. [kind |-> "destroy", user |-> u] \in Request
    BY DEF Request
  <2> QED
    BY <1>13, <2>1, BeginsTyped DEF AskDestroy, AccountsTypeOK
<1>14. ASSUME NEW b \in Browser, NEW u \in User, NEW new \in Role, AskRole(b, u, new)
       PROVE  AccountsTypeOK'
  <2>1. [kind |-> "check role", user |-> u, seen |-> role[u], new |-> new] \in Request
    BY <1>14 DEF AskRole, Request
  <2> QED
    BY <1>14, <2>1, BeginsTyped DEF AskRole, AccountsTypeOK
<1>15. ASSUME NEW b \in Browser, NEW p \in Program, InsertProgram(b, p) PROVE AccountsTypeOK'
  <2>1. request[b].user \in User /\ request[b].title \in Title
    BY <1>15, <1>a, RequestShape DEF InsertProgram
  <2>2. loaded' \in [Browser -> Loaded]
    <3>1. \A c \in Browser : [loaded[c] EXCEPT !.programs = @ \ {p}] \in Loaded
      BY <1>b DEF Loaded
    <3> QED
      BY <1>15, <3>1 DEF InsertProgram, AccountsTypeOK
  <2>3. program' \in [Program -> [owner : User, title : Title] \cup {NoProgram}]
    BY <1>15, <2>1 DEF InsertProgram, AccountsTypeOK
  <2> QED
    BY <1>15, <2>2, <2>3, EndsTyped DEF InsertProgram, AccountsTypeOK
<1>16. ASSUME NEW b \in Browser, NEW p \in Program, DestroyProgram(b, p) PROVE AccountsTypeOK'
  BY <1>16 DEF DestroyProgram, AccountsTypeOK
<1>17. ASSUME NEW b \in Browser, NEW p \in Program, NEW title \in Title, AskTitle(b, p, title)
       PROVE  AccountsTypeOK'
  <2>1. [kind |-> "validate title", row |-> p, user |-> program[p].owner, title |-> title] \in Request
    BY <1>17 DEF AskTitle, Request, AccountsTypeOK
  <2> QED
    BY <1>17, <2>1, BeginsTyped DEF AskTitle, AccountsTypeOK
<1>18. CASE UNCHANGED vars
  BY <1>18 DEF vars, AccountsTypeOK
<1> QED
  BY <1>1, <1>2, <1>3, <1>4, <1>5, <1>6, <1>7, <1>8, <1>9, <1>10, <1>11, <1>12, <1>13, <1>14,
     <1>15, <1>16, <1>17, <1>18, <1>19 DEF Next

\* Every variable has its type, for every set of users, browsers, programs and names;
\* above all, the default title of a new program exists.
THEOREM AccountsTypeCorrect == Spec => []AccountsTypeOK
BY AccountsTypeOKInit, AccountsTypeOKStep, PTL DEF Spec

-----------------------------------------------------------------------------
(* The rows and their owners.                                              *)

LEMMA RowsHaveOwnersStep ==
  AccountsTypeOK /\ RowsHaveOwners /\ [Next]_vars => RowsHaveOwners'
<1> SUFFICES ASSUME AccountsTypeOK, RowsHaveOwners, [Next]_vars PROVE RowsHaveOwners'
  OBVIOUS
<1>a. \A b \in Browser : request[b] \in Request
  BY DEF AccountsTypeOK
<1>b. ASSUME UNCHANGED <<role, session, program>> PROVE RowsHaveOwners'
  BY <1>b DEF RowsHaveOwners
<1>1. ASSUME NEW u \in User, ResetPassword(u) PROVE RowsHaveOwners'
  BY <1>1, AccountsAssumption DEF ResetPassword, SessionsWithout, RowsHaveOwners
<1>2. ASSUME NEW b \in Browser, StartSession(b) PROVE RowsHaveOwners'
  BY <1>2 DEF StartSession, RowsHaveOwners, AccountsTypeOK
<1>3. ASSUME NEW b \in Browser, SignOut(b) PROVE RowsHaveOwners'
  BY <1>3 DEF SignOut, RowsHaveOwners, AccountsTypeOK
<1>4. ASSUME NEW b \in Browser, WriteRole(b) PROVE RowsHaveOwners'
  <2>1. request[b].new \in Role /\ request[b].user \in User
    BY <1>4, <1>a, RequestShape DEF WriteRole
  <2>2. \A u \in User : Exists(u) => Exists(u)'
    BY <1>4, <2>1 DEF WriteRole, Updated, AccountsTypeOK
  <2> QED
    BY <1>4, <2>2 DEF WriteRole, RowsHaveOwners, AccountsTypeOK
<1>5. ASSUME NEW b \in Browser, DeleteUser(b) PROVE RowsHaveOwners'
  <2>1. CASE ~Unreferenced(b)
    BY <1>5, <2>1, <1>b DEF DeleteUser
  <2>2. CASE Unreferenced(b)
    <3>1. \A u \in User \ {request[b].user} : Exists(u) => Exists(u)'
      BY <1>5, <2>2 DEF DeleteUser, AccountsTypeOK
    <3>2. \A c \in Browser : session'[c] # NoUser => session'[c] = session[c] /\ session[c] # request[b].user
      BY <1>5, <2>2 DEF DeleteUser, Unreferenced, Sessions
    <3>3. \A p \in Program : program'[p] # NoProgram =>
            program'[p] = program[p] /\ program[p].owner # request[b].user
      BY <1>5, <2>2 DEF DeleteUser, Unreferenced, Rows
    <3> QED
      BY <3>1, <3>2, <3>3 DEF RowsHaveOwners, AccountsTypeOK
  <2> QED
    BY <2>1, <2>2
<1>6. ASSUME NEW b \in Browser, WriteTitle(b) PROVE RowsHaveOwners'
  <2>1. \A p \in Program : program'[p] # NoProgram =>
          program[p] # NoProgram /\ program'[p].owner = program[p].owner
    BY <1>6 DEF WriteTitle, Rows, AccountsTypeOK
  <2> QED
    BY <1>6, <2>1 DEF WriteTitle, RowsHaveOwners
<1>7. ASSUME NEW b \in Browser, NEW u \in User, Register(b, u) PROVE RowsHaveOwners'
  BY <1>7 DEF Register, RowsHaveOwners, AccountsTypeOK
<1>8. ASSUME NEW b \in Browser, NEW p \in Program, InsertProgram(b, p) PROVE RowsHaveOwners'
  BY <1>8 DEF InsertProgram, RowsHaveOwners, AccountsTypeOK
<1>9. ASSUME NEW b \in Browser, NEW p \in Program, DestroyProgram(b, p) PROVE RowsHaveOwners'
  BY <1>9 DEF DestroyProgram, RowsHaveOwners, AccountsTypeOK
<1>10. ASSUME NEW b \in Browser,
              \/ CheckRole(b) \/ DestroySessions(b) \/ DestroyPrograms(b)
              \/ AskProgram(b) \/ ValidateProgram(b) \/ ValidateTitle(b)
       PROVE  RowsHaveOwners'
  BY <1>10, <1>b DEF CheckRole, DestroySessions, DestroyPrograms, AskProgram, ValidateProgram, ValidateTitle
<1>11. ASSUME NEW b \in Browser, NEW u \in User,
              Authenticate(b, u) \/ AskDestroy(b, u) \/ \E new \in Role : AskRole(b, u, new)
       PROVE  RowsHaveOwners'
  BY <1>11, <1>b DEF Authenticate, AskDestroy, AskRole
<1>12. ASSUME NEW b \in Browser, NEW p \in Program, NEW title \in Title, AskTitle(b, p, title)
       PROVE  RowsHaveOwners'
  BY <1>12, <1>b DEF AskTitle
<1>13. CASE UNCHANGED vars
  BY <1>13, <1>b DEF vars
<1> QED
  BY <1>1, <1>2, <1>3, <1>4, <1>5, <1>6, <1>7, <1>8, <1>9, <1>10, <1>11, <1>12, <1>13 DEF Next

\* Whatever requests overlap, whoever is signed in exists, and so does the owner of
\* every program.
THEOREM RowsAlwaysHaveOwners == Spec => []RowsHaveOwners
<1>1. Init => RowsHaveOwners
  BY DEF Init, RowsHaveOwners
<1> QED
  BY <1>1, AccountsTypeCorrect, RowsHaveOwnersStep, PTL DEF Spec

\* Whatever requests overlap, no request brings a deleted account back.
THEOREM DeletedStayDeleted == Spec => DeletedStaysDeleted
<1>1. AccountsTypeOK /\ [Next]_vars =>
        [\A u \in User : role[u] = "gone" => role'[u] = "gone"]_vars
  <2> SUFFICES ASSUME AccountsTypeOK, Next, NEW u \in User, role[u] = "gone"
               PROVE  role'[u] = "gone"
    BY DEF vars
  <2>1. CASE UNCHANGED role
    BY <2>1
  <2>2. ASSUME NEW b \in Browser, WriteRole(b) PROVE role'[u] = "gone"
    BY <2>2 DEF WriteRole, Updated, AccountsTypeOK
  <2>3. ASSUME NEW b \in Browser, DeleteUser(b) PROVE role'[u] = "gone"
    BY <2>3 DEF DeleteUser, AccountsTypeOK
  <2>4. ASSUME NEW b \in Browser, NEW v \in User, Register(b, v) PROVE role'[u] = "gone"
    BY <2>4 DEF Register, AccountsTypeOK
  <2> QED
    BY <2>1, <2>2, <2>3, <2>4 DEF Next, ResetPassword, StartSession, SignOut, CheckRole,
       DestroySessions, DestroyPrograms, AskProgram,
       ValidateProgram, ValidateTitle, WriteTitle, Authenticate, AskDestroy, AskRole, InsertProgram,
       DestroyProgram, AskTitle
<1> QED
  BY <1>1, AccountsTypeCorrect, PTL DEF Spec, DeletedStaysDeleted

-----------------------------------------------------------------------------
(* The last administrator.                                                 *)

\* While no two requests to administer users have overlapped, the one under way has
\* read what is still so, and spares an administrator.
AdminInv ==
  "users" \notin crossed =>
    /\ Admins # {}
    /\ \A b, c \in Administering : b = c
    /\ \A b \in Browser :
         /\ request[b].kind \in Deleting => Admins \ {request[b].user} # {}
         /\ request[b].kind \in {"check role", "write role"} => role[request[b].user] = request[b].seen
         /\ request[b].kind = "write role" /\ request[b].seen = "admin" /\ request[b].new # "admin"
              => Admins \ {request[b].user} # {}

LEMMA AdminInvInit == Init => AdminInv
<1> SUFFICES ASSUME Init PROVE AdminInv
  OBVIOUS
<1>1. Admins # {}
  BY AccountsAssumption DEF Init, Admins
<1> QED
  BY <1>1 DEF Init, AdminInv, Administering

\* A step that leaves the roles alone, and the requests to administer users too.
LEMMA AdminInvUnchanged ==
  ASSUME AccountsTypeOK, AdminInv, role' = role, crossed \subseteq crossed', NEW b \in Browser, NEW r,
         r.kind \notin {"check role", "write role"} \cup Deleting,
         request' = request \/ Becomes(b, r)
  PROVE  AdminInv'
<1> SUFFICES ASSUME "users" \notin crossed' PROVE AdminInv'
  BY DEF AdminInv
<1>1. \A c \in Browser : request'[c] = request[c] \/ request'[c] = r
  BY DEF AccountsTypeOK
<1>2. Administering' \subseteq Administering
  BY <1>1 DEF Administering
<1> QED
  BY <1>1, <1>2 DEF AdminInv, Admins

\* A step that ends the one request to administer users and leaves an administrator.
LEMMA AdminInvEnds ==
  ASSUME AccountsTypeOK, AdminInv, NEW b \in Administering, Ends(b), UNCHANGED crossed,
         "users" \notin crossed => Admins' # {}
  PROVE  AdminInv'
<1> SUFFICES ASSUME "users" \notin crossed PROVE AdminInv'
  BY DEF AdminInv
<1>1. \A c \in Browser : request'[c].kind \notin {"check role", "write role"} \cup Deleting
  BY DEF AdminInv, Administering, AccountsTypeOK
<1> QED
  BY <1>1 DEF AdminInv, Administering

LEMMA AdminInvStep == AccountsTypeOK /\ AdminInv /\ [Next]_vars => AdminInv'
<1> SUFFICES ASSUME AccountsTypeOK, AdminInv, [Next]_vars PROVE AdminInv'
  OBVIOUS
<1>a. \A b \in Browser : request[b] \in Request
  BY DEF AccountsTypeOK
<1>1. ASSUME NEW u \in User, ResetPassword(u) PROVE AdminInv'
  BY <1>1 DEF ResetPassword, AdminInv, Admins, Administering
<1>2. ASSUME NEW b \in Browser, StartSession(b) \/ SignOut(b) PROVE AdminInv'
  <2>1. Idle.kind \notin {"check role", "write role"} \cup Deleting
    OBVIOUS
  <2>2. role' = role /\ crossed \subseteq crossed' /\ (request' = request \/ Becomes(b, Idle))
    BY <1>2 DEF StartSession, SignOut
  <2> QED
    BY <2>1, <2>2, AdminInvUnchanged
<1>3. ASSUME NEW b \in Browser, NEW u \in User, Register(b, u) PROVE AdminInv'
  <2>1. Admins' = Admins
    BY <1>3 DEF Register, Admins, AccountsTypeOK
  <2>2. \A c \in Browser \ {b} : request'[c] = request[c]
    BY <1>3 DEF Register, AccountsTypeOK
  <2>3. request'[b].kind = "sign in"
    BY <1>3 DEF Register, AccountsTypeOK
  <2>4. \A c \in Browser : request[c].kind \in {"check role", "write role"} =>
          request[c].user \in User /\ request[c].seen \in Role
    BY <1>a, RequestShape
  <2>5. \A v \in User : role[v] \in Role => role'[v] = role[v]
    BY <1>3 DEF Register, AccountsTypeOK
  <2>6. Administering' \subseteq Administering
    BY <2>2, <2>3 DEF Administering
  <2>7. crossed' = crossed
    BY <1>3 DEF Register
  <2>8. ASSUME NEW c \in Browser, request'[c].kind \in {"check role", "write role"} \cup Deleting
        PROVE  request'[c] = request[c]
    BY <2>2, <2>3, <2>8
  <2> QED
    BY ZenonT(30), <2>1, <2>4, <2>5, <2>6, <2>7, <2>8 DEF AdminInv
<1>4. ASSUME NEW b \in Browser, NEW u \in User, Authenticate(b, u) PROVE AdminInv'
  BY <1>4, AdminInvUnchanged DEF Authenticate
<1>5. ASSUME NEW b \in Browser, NEW u \in User, NEW new \in Role, AskRole(b, u, new) PROVE AdminInv'
  <2> SUFFICES ASSUME "users" \notin crossed' PROVE AdminInv'
    BY DEF AdminInv
  <2>1. Administering = {} /\ crossed' = crossed
    BY <1>5 DEF AskRole, Begins
  <2>2. \A c \in Browser \ {b} : request'[c].kind \notin {"check role", "write role"} \cup Deleting
    BY <1>5, <2>1 DEF AskRole, Begins, Administering, AccountsTypeOK
  <2>3. request'[b].kind = "check role" /\ request'[b].user = u /\ request'[b].seen = role[u]
    BY <1>5 DEF AskRole, Begins, AccountsTypeOK
  <2>4. Administering' \subseteq {b}
    BY <2>2 DEF Administering
  <2>5. role' = role /\ Admins' = Admins
    BY <1>5 DEF AskRole, Admins
  <2>6. Admins # {}
    BY <2>1 DEF AdminInv
  <2>7. /\ request'[b].kind = "check role"
        /\ role'[request'[b].user] = request'[b].seen
    BY <2>3, <2>5
  <2>8. ASSUME NEW c \in Browser
        PROVE  /\ request'[c].kind \notin {"write role"} \cup Deleting
               /\ request'[c].kind = "check role" => role'[request'[c].user] = request'[c].seen
    BY <2>2, <2>7
  <2> QED
    BY <2>4, <2>5, <2>6, <2>8 DEF AdminInv
<1>6. ASSUME NEW b \in Browser, CheckRole(b) PROVE AdminInv'
  <2>1. CASE IsRemovingLastAdmin(request[b].seen, request[b].new)
    BY <1>6, <2>1, AdminInvEnds DEF CheckRole, Administering, AdminInv, Admins
  <2>2. CASE ~IsRemovingLastAdmin(request[b].seen, request[b].new)
    <3> DEFINE r == [request[b] EXCEPT !.kind = "write role"]
    <3> SUFFICES ASSUME "users" \notin crossed PROVE AdminInv'
      BY <1>6 DEF AdminInv, CheckRole
    <3>1. request[b].kind = "check role" /\ Becomes(b, r) /\ UNCHANGED <<role, crossed>>
      BY <1>6, <2>2 DEF CheckRole
    <3>2. r.kind = "write role" /\ r.user = request[b].user /\ r.seen = request[b].seen
            /\ r.new = request[b].new /\ r.user \in User /\ r.seen = role[r.user]
      BY ZenonT(30), <1>a, <3>1, RequestShape DEF AdminInv
    <3>3. request'[b] = r /\ \A c \in Browser \ {b} : request'[c] = request[c]
      BY <3>1 DEF AccountsTypeOK
    <3>4. Administering' = Administering
      BY ZenonT(30), <3>1, <3>2, <3>3 DEF Administering
    <3>5. ASSUME r.seen = "admin", r.new # "admin" PROVE Admins \ {r.user} # {}
      <4>1. r.user \in Admins
        BY <3>2, <3>5 DEF Admins
      <4>2. Admins = {r.user} => Cardinality(Admins) = 1
        BY FS_Singleton
      <4> QED
        BY <2>2, <3>2, <3>5, <4>1, <4>2 DEF IsRemovingLastAdmin
    <3> HIDE DEF r
    <3>6. Admins' = Admins /\ Admins # {} /\ role' = role
      BY <3>1 DEF AdminInv, Admins
    <3>7. \A c, d \in Administering' : c = d
      BY <3>4 DEF AdminInv
    <3>8. ASSUME NEW c \in Browser \ {b}
          PROVE  /\ request'[c].kind \in Deleting => Admins' \ {request'[c].user} # {}
                 /\ request'[c].kind \in {"check role", "write role"} =>
                      role'[request'[c].user] = request'[c].seen
                 /\ request'[c].kind = "write role" /\ request'[c].seen = "admin" /\ request'[c].new # "admin"
                      => Admins' \ {request'[c].user} # {}
      BY <3>3, <3>6 DEF AdminInv
    <3> QED
      BY <3>2, <3>3, <3>5, <3>6, <3>7, <3>8 DEF AdminInv
  <2> QED
    BY <2>1, <2>2
<1>7. ASSUME NEW b \in Browser, WriteRole(b) PROVE AdminInv'
  <2>1. request[b].new \in Role /\ request[b].seen \in Role /\ request[b].user \in User
    BY <1>7, <1>a, RequestShape DEF WriteRole
  <2>2. ASSUME "users" \notin crossed PROVE Admins' # {}
    <3>1. CASE role' = role
      BY <2>2, <3>1 DEF AdminInv, Admins
    <3>2. CASE role' # role /\ request[b].new = "admin"
      BY <1>7, <2>1, <3>2 DEF WriteRole, Updated, Admins, AccountsTypeOK
    <3>3. CASE role' # role /\ request[b].new # "admin"
      <4>1. request[b].seen = "admin"
        BY <1>7, <2>1, <3>3 DEF WriteRole, Updated
      <4>2. PICK a \in Admins : a # request[b].user
        BY <1>7, <2>2, <3>3, <4>1 DEF AdminInv, WriteRole
      <4>3. a \in Admins'
        BY <1>7, <4>2 DEF WriteRole, Updated, Admins, AccountsTypeOK
      <4> QED
        BY <4>3
    <3> QED
      BY <3>1, <3>2, <3>3
  <2> QED
    BY <1>7, <2>2, AdminInvEnds DEF WriteRole, Administering
<1>8. ASSUME NEW b \in Browser, NEW u \in User, AskDestroy(b, u) PROVE AdminInv'
  <2> SUFFICES ASSUME "users" \notin crossed' PROVE AdminInv'
    BY DEF AdminInv
  <2>1. Administering = {} /\ crossed' = crossed
    BY <1>8 DEF AskDestroy, Begins
  <2>2. \A c \in Browser \ {b} : request'[c].kind \notin {"check role", "write role"} \cup Deleting
    BY <1>8, <2>1 DEF AskDestroy, Begins, Administering, AccountsTypeOK
  <2>3. request'[b] = [kind |-> "destroy", user |-> u]
    BY <1>8 DEF AskDestroy, Begins, AccountsTypeOK
  <2>4. session[b] \in Admins \ {u}
    BY <1>8 DEF AskDestroy, Authorized, Authenticated, Admins, AccountsTypeOK
  <2>5. Administering' \subseteq {b}
    BY <2>2 DEF Administering
  <2>6. Admins' = Admins
    BY <1>8 DEF AskDestroy, Admins
  <2>7. request'[b].kind = "destroy" /\ Admins' \ {request'[b].user} # {}
    BY <2>3, <2>4, <2>6
  <2> QED
    BY <2>2, <2>4, <2>5, <2>6, <2>7 DEF AdminInv
<1>9. ASSUME NEW b \in Browser, DeleteUser(b) PROVE AdminInv'
  <2>1. ASSUME "users" \notin crossed PROVE Admins' # {}
    <3>1. PICK a \in Admins : a # request[b].user
      BY <1>9, <2>1 DEF AdminInv, DeleteUser
    <3>2. a \in Admins'
      BY <1>9, <3>1 DEF DeleteUser, Admins, AccountsTypeOK
    <3> QED
      BY <3>2
  <2> QED
    BY <1>9, <2>1, AdminInvEnds DEF DeleteUser, Administering
<1>17. ASSUME NEW b \in Browser, DestroySessions(b) \/ DestroyPrograms(b) PROVE AdminInv'
  <2> SUFFICES ASSUME "users" \notin crossed PROVE AdminInv'
    BY <1>17 DEF AdminInv, DestroySessions, DestroyPrograms
  <2>1. PICK next \in Deleting : Becomes(b, [request[b] EXCEPT !.kind = next])
    BY <1>17 DEF DestroySessions, DestroyPrograms
  <2>2. request[b].kind \in Deleting /\ UNCHANGED <<role, crossed>>
    BY <1>17 DEF DestroySessions, DestroyPrograms
  <2>3. request'[b].kind = next /\ request'[b].user = request[b].user
    <3>1. request'[b] = [request[b] EXCEPT !.kind = next]
      BY <2>1 DEF AccountsTypeOK
    <3>2. request[b] \in [kind : Deleting, user : User]
      BY <1>a, <2>2, RequestShape
    <3> QED
      BY <3>1, <3>2
  <2>4. \A c \in Browser \ {b} : request'[c] = request[c]
    BY <2>1 DEF AccountsTypeOK
  <2>5. Administering' = Administering /\ Admins' = Admins
    BY <2>2, <2>3, <2>4 DEF Administering, Admins
  <2>6. /\ request'[b].kind \in Deleting /\ Admins' \ {request'[b].user} # {}
        /\ request'[b].kind \notin {"check role", "write role"}
    BY <2>2, <2>3, <2>5 DEF AdminInv
  <2>7. ASSUME NEW c \in Browser \ {b}
        PROVE  /\ request'[c].kind \in Deleting => Admins' \ {request'[c].user} # {}
               /\ request'[c].kind \in {"check role", "write role"} =>
                    role'[request'[c].user] = request'[c].seen
               /\ request'[c].kind = "write role" /\ request'[c].seen = "admin" /\ request'[c].new # "admin"
                    => Admins' \ {request'[c].user} # {}
    BY <2>2, <2>4, <2>5 DEF AdminInv
  <2> QED
    BY <2>5, <2>6, <2>7 DEF AdminInv
<1>10. ASSUME NEW b \in Browser, AskProgram(b) PROVE AdminInv'
  BY <1>10, AdminInvUnchanged DEF AskProgram, Begins
<1>11. ASSUME NEW b \in Browser, ValidateProgram(b) \/ ValidateTitle(b) PROVE AdminInv'
  <2>1. ASSUME NEW next \in {"insert", "write title"}, NEW others, Validated(b, others, next),
               request[b].kind \in {"validate", "validate title"}, UNCHANGED <<role, crossed>>
        PROVE  AdminInv'
    <3>1. [request[b] EXCEPT !.kind = next].kind = next
      BY <1>a, <2>1, RequestShape
    <3> QED
      BY <2>1, <3>1, AdminInvUnchanged DEF Validated
  <2> QED
    BY <1>11, <2>1 DEF ValidateProgram, ValidateTitle
<1>12. ASSUME NEW b \in Browser, WriteTitle(b) PROVE AdminInv'
  BY <1>12, AdminInvUnchanged DEF WriteTitle
<1>13. ASSUME NEW b \in Browser, NEW p \in Program, InsertProgram(b, p) PROVE AdminInv'
  BY <1>13, AdminInvUnchanged DEF InsertProgram
<1>14. ASSUME NEW b \in Browser, NEW p \in Program, DestroyProgram(b, p) PROVE AdminInv'
  BY <1>14 DEF DestroyProgram, AdminInv, Admins, Administering
<1>15. ASSUME NEW b \in Browser, NEW p \in Program, NEW title \in Title, AskTitle(b, p, title)
       PROVE  AdminInv'
  BY <1>15, AdminInvUnchanged DEF AskTitle, Begins
<1>16. CASE UNCHANGED vars
  BY <1>16 DEF vars, AdminInv, Admins, Administering
<1> QED
  BY <1>1, <1>2, <1>3, <1>4, <1>5, <1>6, <1>7, <1>8, <1>9, <1>10, <1>11, <1>12, <1>13, <1>14,
     <1>15, <1>16, <1>17 DEF Next

\* As long as no two requests to administer users overlap, somebody is left who may.
THEOREM AdministratorAlwaysRemains == Spec => []AdministratorRemains
<1>1. AdminInv => AdministratorRemains
  BY DEF AdminInv, AdministratorRemains
<1> QED
  BY <1>1, AdminInvInit, AccountsTypeCorrect, AdminInvStep, PTL DEF Spec

-----------------------------------------------------------------------------
(* Titles.                                                                 *)

\* The programs of a user that have a title.
Clashes(u, title) ==
  {p \in Program : program[p] # NoProgram /\ program[p].owner = u /\ program[p].title = title}

\* The programs that have the title a request is about to store for their owner.
ClashesOf(b) == Clashes(request[b].user, request[b].title)

LEMMA UniqueTitleClashes ==
  ASSUME NEW u, NEW others \in SUBSET Program, NEW title, IsUnique(u, others, title)
  PROVE  Clashes(u, title) \cap others = {}
BY DEF Clashes, IsUnique, Titles, Rows

\* While no two requests about the programs of one user have overlapped, the title
\* that a request has found to be unique still is.
TitleInv ==
  "programs" \notin crossed =>
    /\ \A p, q \in Program :
         p # q /\ program[p] # NoProgram /\ program[q] # NoProgram /\ program[p].owner = program[q].owner
           => program[p].title # program[q].title
    /\ \A u \in User : \A b, c \in Storing(u) : b = c
    /\ \A b \in Browser :
         /\ request[b].kind = "insert" => ClashesOf(b) = {}
         /\ request[b].kind = "write title" => ClashesOf(b) \subseteq {request[b].row}

\* A step that adds no program, and only ends a request or leaves all as they are.
LEMMA TitleInvFewer ==
  ASSUME AccountsTypeOK, TitleInv, crossed \subseteq crossed',
         \A p \in Program : program'[p] # NoProgram => program'[p] = program[p],
         NEW b \in Browser, NEW r,
         r.kind \notin {"validate", "insert", "validate title", "write title"},
         request' = request \/ Becomes(b, r)
  PROVE  TitleInv'
<1> SUFFICES ASSUME "programs" \notin crossed' PROVE TitleInv'
  BY DEF TitleInv
<1>1. \A c \in Browser : request'[c] = request[c] \/ request'[c] = r
  BY DEF AccountsTypeOK
<1>2. \A u : Storing(u)' \subseteq Storing(u)
  BY <1>1 DEF Storing
<1>3. \A c \in Browser : request'[c] = request[c] => ClashesOf(c)' \subseteq ClashesOf(c)
  BY DEF Clashes, ClashesOf
<1>4. \A p, q \in Program :
        p # q /\ program'[p] # NoProgram /\ program'[q] # NoProgram /\ program'[p].owner = program'[q].owner
          => program'[p].title # program'[q].title
  BY ZenonT(30) DEF TitleInv
<1>5. ASSUME NEW u \in User PROVE \A c, d \in Storing(u)' : c = d
  <2>1. Storing(u)' \subseteq Storing(u)
    BY <1>2
  <2> QED
    BY <2>1 DEF TitleInv
<1>6. ASSUME NEW c \in Browser
      PROVE  /\ request'[c].kind = "insert" => ClashesOf(c)' = {}
             /\ request'[c].kind = "write title" => ClashesOf(c)' \subseteq {request'[c].row}
  <2>1. CASE request'[c] = r
    BY <2>1
  <2>2. CASE request'[c] = request[c]
    BY <1>3, <2>2 DEF TitleInv
  <2> QED
    BY <1>1, <2>1, <2>2
<1> QED
  BY <1>4, <1>5, <1>6 DEF TitleInv

\* A step that begins a request about the programs of a user, or validates one.
LEMMA TitleInvRequest ==
  ASSUME AccountsTypeOK, TitleInv, UNCHANGED <<program, crossed>>, NEW b \in Browser, NEW r \in Request,
         Becomes(b, r), r.kind \in {"validate", "insert", "validate title", "write title"},
         Storing(r.user) \subseteq {b},
         r.kind = "insert" => Clashes(r.user, r.title) = {},
         r.kind = "write title" => Clashes(r.user, r.title) \subseteq {r.row}
  PROVE  TitleInv'
<1> SUFFICES ASSUME "programs" \notin crossed PROVE TitleInv'
  BY DEF TitleInv
<1>1. request'[b] = r /\ \A c \in Browser \ {b} : request'[c] = request[c]
  BY DEF AccountsTypeOK
<1>2. ClashesOf(b)' = Clashes(r.user, r.title)
        /\ \A c \in Browser \ {b} : ClashesOf(c)' = ClashesOf(c)
  BY <1>1 DEF Clashes, ClashesOf
<1>3. Storing(r.user)' \subseteq {b}
  BY <1>1 DEF Storing
<1>4. ASSUME NEW u, u # r.user PROVE Storing(u)' \subseteq Storing(u)
  BY <1>1, <1>4 DEF Storing
<1>5. ASSUME NEW u \in User PROVE \A c, d \in Storing(u)' : c = d
  <2>1. CASE u = r.user
    BY <1>3, <2>1
  <2>2. CASE u # r.user
    BY <1>4, <2>2 DEF TitleInv
  <2> QED
    BY <2>1, <2>2
<1>6. ASSUME NEW c \in Browser
      PROVE  /\ request'[c].kind = "insert" => ClashesOf(c)' = {}
             /\ request'[c].kind = "write title" => ClashesOf(c)' \subseteq {request'[c].row}
  <2>1. CASE c = b
    BY <1>1, <1>2, <2>1
  <2>2. CASE c # b
    BY ZenonT(30), <1>1, <1>2, <2>2 DEF TitleInv
  <2> QED
    BY <2>1, <2>2
<1>7. \A p, q \in Program :
        p # q /\ program'[p] # NoProgram /\ program'[q] # NoProgram /\ program'[p].owner = program'[q].owner
          => program'[p].title # program'[q].title
  BY DEF TitleInv
<1> QED
  BY <1>5, <1>6, <1>7 DEF TitleInv

LEMMA TitleInvStep == AccountsTypeOK /\ TitleInv /\ [Next]_vars => TitleInv'
<1> SUFFICES ASSUME AccountsTypeOK, TitleInv, [Next]_vars PROVE TitleInv'
  OBVIOUS
<1> DEFINE Titling == {"validate", "insert", "validate title", "write title"}
<1>a. \A b \in Browser : request[b] \in Request
  BY DEF AccountsTypeOK
<1>b. ASSUME NEW b \in Browser, crossed \subseteq crossed', request' = request \/ Ends(b),
             \A p \in Program : program'[p] # NoProgram => program'[p] = program[p]
      PROVE  TitleInv'
  <2>1. Idle.kind \notin Titling
    OBVIOUS
  <2> QED
    BY <1>b, <2>1, TitleInvFewer
<1>c. ASSUME NEW b \in Browser, NEW r, Becomes(b, r), r.kind \notin Titling,
             crossed \subseteq crossed', UNCHANGED program
      PROVE  TitleInv'
  BY <1>c, TitleInvFewer
<1>d. ASSUME UNCHANGED <<program, request, crossed>> PROVE TitleInv'
  <2>1. \A u : Storing(u)' = Storing(u)
    BY <1>d DEF Storing
  <2>2. \A b : ClashesOf(b)' = ClashesOf(b)
    BY <1>d DEF Clashes, ClashesOf
  <2> QED
    BY <1>d, <2>1, <2>2 DEF TitleInv
<1>1. ASSUME NEW u \in User, ResetPassword(u) PROVE TitleInv'
  BY <1>1, <1>d DEF ResetPassword
<1>2. ASSUME NEW b \in Browser, StartSession(b) \/ SignOut(b) \/ WriteRole(b) \/ DeleteUser(b)
      PROVE  TitleInv'
  BY <1>2, <1>b DEF StartSession, SignOut, WriteRole, DeleteUser
<1>15. ASSUME NEW b \in Browser, DestroySessions(b) \/ DestroyPrograms(b) PROVE TitleInv'
  <2>1. PICK next \in Deleting : Becomes(b, [request[b] EXCEPT !.kind = next])
    BY <1>15 DEF DestroySessions, DestroyPrograms
  <2>2. [request[b] EXCEPT !.kind = next].kind = next
    BY <1>15, <1>a, RequestShape DEF DestroySessions, DestroyPrograms
  <2> QED
    BY <1>15, <2>1, <2>2, <1>c DEF DestroySessions, DestroyPrograms
<1>3. ASSUME NEW b \in Browser, CheckRole(b) PROVE TitleInv'
  <2>1. [request[b] EXCEPT !.kind = "write role"].kind = "write role"
    BY <1>3, <1>a, RequestShape DEF CheckRole
  <2> QED
    BY <1>3, <2>1, <1>b, <1>c DEF CheckRole
<1>4. ASSUME NEW b \in Browser, NEW u \in User, Register(b, u) \/ Authenticate(b, u) PROVE TitleInv'
  BY <1>4, <1>c DEF Register, Authenticate
<1>5. ASSUME NEW b \in Browser, NEW u \in User,
             AskDestroy(b, u) \/ \E new \in Role : AskRole(b, u, new)
      PROVE  TitleInv'
  BY <1>5, <1>c DEF AskDestroy, AskRole, Begins
<1>6. ASSUME NEW b \in Browser, AskProgram(b) PROVE TitleInv'
  <2> DEFINE r == [kind |-> "validate", user |-> session[b], title |-> DefaultTitle(session[b])]
  <2> SUFFICES ASSUME "programs" \notin crossed' PROVE TitleInv'
    BY DEF TitleInv
  <2>1. session[b] \in User /\ DefaultTitle(session[b]) \in Title
    BY <1>6, DefaultTitleIsFree DEF AskProgram, Authenticated, AccountsTypeOK, Title
  <2>2. r \in Request /\ r.kind = "validate" /\ r.user = session[b]
    BY <2>1 DEF Request
  <2>3. Becomes(b, r) /\ Storing(r.user) = {} /\ UNCHANGED <<program, crossed>>
    BY <1>6, <2>2 DEF AskProgram, Begins
  <2> HIDE DEF r
  <2> QED
    BY <2>2, <2>3, TitleInvRequest
<1>7. ASSUME NEW b \in Browser, NEW p \in Program, NEW title \in Title, AskTitle(b, p, title)
      PROVE  TitleInv'
  <2> DEFINE r == [kind |-> "validate title", row |-> p, user |-> program[p].owner, title |-> title]
  <2> SUFFICES ASSUME "programs" \notin crossed' PROVE TitleInv'
    BY DEF TitleInv
  <2>1. program[p].owner \in User
    BY <1>7 DEF AskTitle, AccountsTypeOK
  <2>2. r \in Request /\ r.kind = "validate title" /\ r.user = program[p].owner
    BY <2>1 DEF Request
  <2>3. Becomes(b, r) /\ Storing(r.user) = {} /\ UNCHANGED <<program, crossed>>
    BY <1>7, <2>2 DEF AskTitle, Begins
  <2> HIDE DEF r
  <2> QED
    BY <2>2, <2>3, TitleInvRequest
<1>8. ASSUME NEW b \in Browser, ValidateProgram(b) PROVE TitleInv'
  <2> DEFINE r == [request[b] EXCEPT !.kind = "insert"]
  <2> SUFFICES ASSUME "programs" \notin crossed PROVE TitleInv'
    BY <1>8 DEF TitleInv, ValidateProgram
  <2>1. CASE ~IsUnique(request[b].user, Program, request[b].title)
    BY <1>8, <2>1, <1>b DEF ValidateProgram, Validated
  <2>2. CASE IsUnique(request[b].user, Program, request[b].title)
    <3>1. request[b].kind = "validate" /\ request[b].user \in User
      BY <1>8, <1>a, RequestShape DEF ValidateProgram
    <3>2. r \in Request /\ r.kind = "insert" /\ r.user = request[b].user /\ r.title = request[b].title
      BY <1>8, <1>a, RequestShape DEF ValidateProgram, Request
    <3>3. Becomes(b, r) /\ UNCHANGED <<program, crossed>>
      BY <1>8, <2>2 DEF ValidateProgram, Validated
    <3>4. Storing(r.user) \subseteq {b}
      <4>1. b \in Storing(request[b].user)
        BY <3>1 DEF Storing
      <4>2. Storing(request[b].user) \subseteq {b}
        BY <3>1, <4>1 DEF TitleInv
      <4> QED
        BY <3>2, <4>2
    <3>5. Clashes(r.user, r.title) = {}
      BY <2>2, <3>2, UniqueTitleClashes DEF Clashes
    <3> HIDE DEF r
    <3> QED
      BY <3>2, <3>3, <3>4, <3>5, TitleInvRequest
  <2> QED
    BY <2>1, <2>2
<1>9. ASSUME NEW b \in Browser, ValidateTitle(b) PROVE TitleInv'
  <2> DEFINE r == [request[b] EXCEPT !.kind = "write title"]
             others == Program \ {request[b].row}
  <2> SUFFICES ASSUME "programs" \notin crossed PROVE TitleInv'
    BY <1>9 DEF TitleInv, ValidateTitle
  <2>1. CASE ~IsUnique(request[b].user, others, request[b].title)
    BY <1>9, <2>1, <1>b DEF ValidateTitle, Validated
  <2>2. CASE IsUnique(request[b].user, others, request[b].title)
    <3>1. request[b].kind = "validate title" /\ request[b].user \in User
      BY <1>9, <1>a, RequestShape DEF ValidateTitle
    <3>2. r \in Request /\ r.kind = "write title" /\ r.row = request[b].row
            /\ r.user = request[b].user /\ r.title = request[b].title
      BY <1>9, <1>a, RequestShape DEF ValidateTitle, Request
    <3>3. Becomes(b, r) /\ UNCHANGED <<program, crossed>>
      BY <1>9, <2>2 DEF ValidateTitle, Validated
    <3>4. Storing(r.user) \subseteq {b}
      <4>1. b \in Storing(request[b].user)
        BY <3>1 DEF Storing
      <4>2. Storing(request[b].user) \subseteq {b}
        BY <3>1, <4>1 DEF TitleInv
      <4> QED
        BY <3>2, <4>2
    <3>5. Clashes(r.user, r.title) \subseteq {r.row}
      <4>1. Clashes(request[b].user, request[b].title) \cap others = {}
        BY <2>2, UniqueTitleClashes
      <4>2. Clashes(request[b].user, request[b].title) \subseteq {request[b].row}
        BY <4>1 DEF Clashes
      <4> QED
        BY <3>2, <4>2
    <3> HIDE DEF r
    <3> QED
      BY <3>2, <3>3, <3>4, <3>5, TitleInvRequest
  <2> QED
    BY <2>1, <2>2
<1>10. ASSUME NEW b \in Browser, NEW p \in Program, DestroyProgram(b, p) PROVE TitleInv'
  BY <1>10, <1>b DEF DestroyProgram, AccountsTypeOK
<1>11. ASSUME NEW b \in Browser, NEW p \in Program, NEW u \in User, NEW title \in Title,
              b \in Storing(u), Ends(b), UNCHANGED crossed,
              program[p] = NoProgram \/ program[p].owner = u,
              Clashes(u, title) \subseteq {p},
              program' = [program EXCEPT ![p] = [owner |-> u, title |-> title]]
       PROVE  TitleInv'
  <2> SUFFICES ASSUME "programs" \notin crossed PROVE TitleInv'
    BY <1>11 DEF TitleInv
  <2>1. request'[b].kind = "none" /\ \A c \in Browser \ {b} : request'[c] = request[c]
    BY <1>11 DEF AccountsTypeOK
  <2>2. program'[p] = [owner |-> u, title |-> title]
          /\ \A q \in Program \ {p} : program'[q] = program[q]
    BY <1>11 DEF AccountsTypeOK
  <2>3. ASSUME NEW v \in User PROVE \A c, d \in Storing(v)' : c = d
    <3>1. Storing(v)' \subseteq Storing(v)
      BY <2>1 DEF Storing
    <3> QED
      BY <3>1 DEF TitleInv
  <2>4. \A q \in Program \ {p} : program[q] # NoProgram /\ program[q].owner = u => program[q].title # title
    BY <1>11 DEF Clashes
  <2>5. program'[p].owner = u /\ program'[p].title = title
    BY <2>2
  <2>6. \A q, s \in Program :
          q # s /\ program'[q] # NoProgram /\ program'[s] # NoProgram /\ program'[q].owner = program'[s].owner
            => program'[q].title # program'[s].title
    <3> TAKE q, s \in Program
    <3>1. CASE q = p /\ s # p
      BY <2>2, <2>4, <2>5, <3>1
    <3>2. CASE q # p /\ s = p
      BY <2>2, <2>4, <2>5, <3>2
    <3>3. CASE q # p /\ s # p
      BY <2>2, <3>3 DEF TitleInv
    <3> QED
      BY <3>1, <3>2, <3>3
  <2>7. ASSUME NEW c \in Browser
        PROVE  /\ request'[c].kind = "insert" => ClashesOf(c)' = {}
               /\ request'[c].kind = "write title" => ClashesOf(c)' \subseteq {request'[c].row}
    <3>1. CASE c = b
      BY <2>1, <3>1
    <3>2. CASE c # b /\ request[c].kind \in {"insert", "write title"}
      <4>1. request[c].user \in User /\ c \in Storing(request[c].user)
        BY <1>a, <3>2, RequestShape DEF Storing
      <4>2. request[c].user # u
        BY <1>11, <3>2, <4>1 DEF TitleInv
      <4>3. request'[c] = request[c]
        BY <2>1, <3>2
      <4>4. ClashesOf(c)' \subseteq ClashesOf(c)
        BY <2>2, <2>5, <4>2, <4>3 DEF Clashes, ClashesOf
      <4> QED
        BY <4>3, <4>4 DEF TitleInv
    <3>3. CASE c # b /\ request[c].kind \notin {"insert", "write title"}
      BY <2>1, <3>3
    <3> QED
      BY <3>1, <3>2, <3>3
  <2> QED
    BY <2>3, <2>6, <2>7 DEF TitleInv
<1>12. ASSUME NEW b \in Browser, NEW p \in Program, InsertProgram(b, p) PROVE TitleInv'
  <2> SUFFICES ASSUME "programs" \notin crossed PROVE TitleInv'
    BY <1>12 DEF TitleInv, InsertProgram
  <2>1. CASE ~Exists(request[b].user)
    BY <1>12, <2>1, <1>b DEF InsertProgram
  <2>2. CASE Exists(request[b].user)
    <3>1. request[b].kind = "insert" /\ request[b].user \in User /\ request[b].title \in Title
      BY <1>12, <1>a, RequestShape DEF InsertProgram
    <3>2. b \in Storing(request[b].user) /\ Clashes(request[b].user, request[b].title) = {}
      BY <3>1 DEF TitleInv, ClashesOf, Storing
    <3> QED
      BY <1>12, <2>2, <3>1, <3>2, <1>11 DEF InsertProgram, Unused
  <2> QED
    BY <2>1, <2>2
<1>13. ASSUME NEW b \in Browser, WriteTitle(b) PROVE TitleInv'
  <2> DEFINE p == request[b].row
             u == request[b].user
  <2> SUFFICES ASSUME "programs" \notin crossed PROVE TitleInv'
    BY <1>13 DEF TitleInv, WriteTitle
  <2>1. request[b].kind = "write title" /\ p \in Program /\ u \in User /\ request[b].title \in Title
    BY <1>13, <1>a, RequestShape DEF WriteTitle
  <2>2. CASE p \notin Rows(u)
    BY <1>13, <2>2, <1>b DEF WriteTitle
  <2>3. CASE p \in Rows(u)
    <3>1. [program[p] EXCEPT !.title = request[b].title] = [owner |-> u, title |-> request[b].title]
      BY <2>3 DEF Rows, AccountsTypeOK
    <3>2. program' = [program EXCEPT ![p] = [owner |-> u, title |-> request[b].title]]
      BY <1>13, <2>3, <3>1 DEF WriteTitle
    <3>3. b \in Storing(u) /\ Clashes(u, request[b].title) \subseteq {p}
      BY <2>1 DEF TitleInv, ClashesOf, Storing
    <3>4. program[p].owner = u /\ Ends(b) /\ UNCHANGED crossed
      BY <1>13, <2>3 DEF WriteTitle, Rows
    <3> QED
      BY <2>1, <3>2, <3>3, <3>4, <1>11
  <2> QED
    BY <2>2, <2>3
<1>14. CASE UNCHANGED vars
  BY <1>14, <1>d DEF vars
<1> QED
  BY <1>1, <1>2, <1>3, <1>4, <1>5, <1>6, <1>7, <1>8, <1>9, <1>10, <1>12, <1>13, <1>14,
     <1>15 DEF Next

\* As long as no two requests about the programs of one user overlap, the titles of a
\* user differ.
THEOREM TitlesStayUnique == Spec => []UniqueTitles
<1>1. Init => TitleInv
  <2> SUFFICES ASSUME Init PROVE TitleInv
    OBVIOUS
  <2>1. \A u : Storing(u) = {}
    BY DEF Init, Storing
  <2> QED
    BY <2>1 DEF Init, TitleInv
<1>2. TitleInv => UniqueTitles
  BY DEF TitleInv, UniqueTitles
<1> QED
  BY <1>1, <1>2, AccountsTypeCorrect, TitleInvStep, PTL DEF Spec
=============================================================================
