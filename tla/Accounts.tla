------------------------------ MODULE Accounts -------------------------------
(***************************************************************************)
(* The server: who may administer whom, who is signed in, and the saved    *)
(* programs (the controllers and models of app/, over the tables of        *)
(* db/schema.rb).                                                          *)
(*                                                                         *)
(* Puma serves requests on several threads, and between two statements of  *)
(* a request the database executes those of another.  A request is an Ask  *)
(* action, which authenticates it and reads what it is about, and one      *)
(* action for every statement that reads or writes again.  What the        *)
(* transaction of a deletion has changed others see when it is over, as in *)
(* PostgreSQL.                                                             *)
(***************************************************************************)
EXTENDS Naturals, FiniteSets

CONSTANTS
  User,        \* the accounts that exist, or may be registered
  Founders,    \* the accounts that exist as administrators at the beginning
  Browser,     \* each has one cookie and at most one request under way
  Program,     \* the rows of mmixal_programs
  Name,        \* the titles that a user may choose
  NoUser,
  NoProgram

ASSUME AccountsAssumption ==
  /\ IsFiniteSet(User) /\ IsFiniteSet(Program)
  /\ Founders \subseteq User /\ Founders # {}
  /\ NoUser \notin User
  /\ NoProgram \notin [owner : User, title : Nat \cup Name]

VARIABLES
  role,     \* users.role, "absent" before the registration, "gone" for a deleted row
  session,  \* the owner of the row in sessions that a browser's cookie names
  program,  \* a row of mmixal_programs: its owner and title
  request,  \* what the request of a browser has read, and what it does next
  loaded,   \* the rows that a browser's request has loaded, to destroy them
  crossed   \* history: which requests have been made while another was under way

vars == <<role, session, program, request, loaded, crossed>>

Role == {"admin", "user"}
Idle == [kind |-> "none"]
Loaded == [sessions : SUBSET Browser, programs : SUBSET Program]
NoRows == [sessions |-> {}, programs |-> {}]

\* default_title_for's "Untitled" and "Untitled (n)".
Default == 1..Cardinality(Program)
Title == Default \cup Name

Exists(u) == role[u] \in Role
Admins == {u \in User : role[u] = "admin"}

Request ==
  {Idle}
    \cup [kind : {"sign in"}, user : User]
    \cup [kind : {"check role", "write role"}, user : User, seen : Role, new : Role]
    \cup [kind : {"destroy", "destroy programs", "delete user"}, user : User]
    \cup [kind : {"validate", "insert"}, user : User, title : Title]
    \cup [kind : {"validate title", "write title"}, row : Program, user : User, title : Title]

Deleting == {"destroy", "destroy programs", "delete user"}
Administering == {b \in Browser : request[b].kind \in {"check role", "write role"} \cup Deleting}
Storing(u) ==
  {b \in Browser : /\ request[b].kind \in {"validate", "insert", "validate title", "write title"}
                   /\ request[b].user = u}

Init ==
  /\ role = [u \in User |-> IF u \in Founders THEN "admin" ELSE "absent"]
  /\ session = [b \in Browser |-> NoUser]
  /\ program = [p \in Program |-> NoProgram]
  /\ request = [b \in Browser |-> Idle]
  /\ loaded = [b \in Browser |-> NoRows]
  /\ crossed = {}

\* What a browser's request does next, and that it is over.
Becomes(b, r) == request' = [request EXCEPT ![b] = r]
Ends(b) == Becomes(b, Idle)

\* A request begins, while the requests of others may be under way.
Begins(b, r, others, kind) ==
  /\ Becomes(b, r)
  /\ crossed' = IF others = {} THEN crossed ELSE crossed \cup {kind}

\* require_authentication: the browser's session and its user.
Authenticated(b) == request[b] = Idle /\ session[b] # NoUser

-----------------------------------------------------------------------------
(***************************************************************************)
(* Registration, sessions, passwords.                                      *)
(***************************************************************************)

\* RegistrationsController#create saves the user and starts a session.
Register(b, u) ==
  /\ request[b] = Idle /\ role[u] = "absent"
  /\ role' = [role EXCEPT ![u] = "user"]
  /\ Becomes(b, [kind |-> "sign in", user |-> u])
  /\ UNCHANGED <<session, program, loaded, crossed>>

\* SessionsController#create finds a user with this password.
Authenticate(b, u) ==
  /\ request[b] = Idle /\ Exists(u)
  /\ Becomes(b, [kind |-> "sign in", user |-> u])
  /\ UNCHANGED <<role, session, program, loaded, crossed>>

\* start_new_session_for.  The foreign key refuses a session of a deleted user.  A
\* new row is none that a request has loaded.
StartSession(b) ==
  /\ request[b].kind = "sign in"
  /\ IF Exists(request[b].user)
     THEN /\ session' = [session EXCEPT ![b] = request[b].user]
          /\ loaded' = [c \in Browser |-> [loaded[c] EXCEPT !.sessions = @ \ {b}]]
     ELSE UNCHANGED <<session, loaded>>
  /\ Ends(b)
  /\ UNCHANGED <<role, program, crossed>>

\* terminate_session.
SignOut(b) ==
  /\ Authenticated(b)
  /\ session' = [session EXCEPT ![b] = NoUser]
  /\ UNCHANGED <<role, program, request, loaded, crossed>>

SessionsWithout(u) == [b \in Browser |-> IF session[b] = u THEN NoUser ELSE session[b]]

\* PasswordsController#update, which the token of a mail authenticates.
ResetPassword(u) ==
  /\ Exists(u)
  /\ session' = SessionsWithout(u)
  /\ UNCHANGED <<role, program, request, loaded, crossed>>

-----------------------------------------------------------------------------
(***************************************************************************)
(* UsersController.                                                        *)
(***************************************************************************)

\* require_role :admin.
Authorized(b) ==
  Authenticated(b) /\ role[session[b]] = "admin"

\* update, up to @user = User.find(params[:id]).
AskRole(b, u, new) ==
  /\ Authorized(b) /\ Exists(u)
  /\ Begins(b, [kind |-> "check role", user |-> u, seen |-> role[u], new |-> new], Administering, "users")
  /\ UNCHANGED <<role, session, program, loaded>>

\* A mutation of IsRemovingLastAdmin: it counts the users, not the administrators.
IsLastUser(seen, new) ==
  seen = "admin" /\ new # "admin" /\ Cardinality({u \in User : Exists(u)}) = 1

\* is_removing_last_admin?
IsRemovingLastAdmin(seen, new) ==
  seen = "admin" /\ new # "admin" /\ Cardinality(Admins) = 1

CheckRole(b) ==
  /\ request[b].kind = "check role"
  /\ IF IsRemovingLastAdmin(request[b].seen, request[b].new)
     THEN Ends(b)
     ELSE Becomes(b, [request[b] EXCEPT !.kind = "write role"])
  /\ UNCHANGED <<role, session, program, loaded, crossed>>

\* A mutation of Updated: the row is stored whether it exists or not.
Stored(u, seen, new) == [role EXCEPT ![u] = new]

\* @user.update(role: new_role).  A role that has not changed since it was read is
\* not written, and a row that is gone is not updated.
Updated(u, seen, new) ==
  IF seen # new /\ Exists(u) THEN [role EXCEPT ![u] = new] ELSE role

WriteRole(b) ==
  /\ request[b].kind = "write role"
  /\ role' = Updated(request[b].user, request[b].seen, request[b].new)
  /\ Ends(b)
  /\ UNCHANGED <<session, program, loaded, crossed>>

\* destroy, up to the comparison with Current.session.user.
AskDestroy(b, u) ==
  /\ Authorized(b) /\ Exists(u)
  /\ u # session[b]
  /\ Begins(b, [kind |-> "destroy", user |-> u], Administering, "users")
  /\ UNCHANGED <<role, session, program, loaded>>

Sessions(u) == {b \in Browser : session[b] = u}
Rows(u) == {p \in Program : program[p] # NoProgram /\ program[p].owner = u}

\* @user.destroy: dependent: :destroy loads the sessions and destroys them, then the
\* programs.
DestroySessions(b) ==
  /\ request[b].kind = "destroy"
  /\ loaded' = [loaded EXCEPT ![b] = [sessions |-> Sessions(request[b].user), programs |-> {}]]
  /\ Becomes(b, [request[b] EXCEPT !.kind = "destroy programs"])
  /\ UNCHANGED <<role, session, program, crossed>>

DestroyPrograms(b) ==
  /\ request[b].kind = "destroy programs"
  /\ loaded' = [loaded EXCEPT ![b].programs = Rows(request[b].user)]
  /\ Becomes(b, [request[b] EXCEPT !.kind = "delete user"])
  /\ UNCHANGED <<role, session, program, crossed>>

\* A mutation of Unreferenced: the tables have no foreign keys.
NoForeignKeys(b) == TRUE

\* The foreign keys let the row of the user go: nothing that refers to it has been
\* inserted since its dependents were loaded.
Unreferenced(b) ==
  /\ Sessions(request[b].user) \subseteq loaded[b].sessions
  /\ Rows(request[b].user) \subseteq loaded[b].programs

\* The last statement of the transaction, which is committed, or rolled back.
DeleteUser(b) ==
  /\ request[b].kind = "delete user"
  /\ IF Unreferenced(b)
     THEN /\ role' = [role EXCEPT ![request[b].user] = IF Exists(request[b].user) THEN "gone" ELSE @]
          /\ session' = [c \in Browser |-> IF c \in loaded[b].sessions THEN NoUser ELSE session[c]]
          /\ program' = [p \in Program |->
                            IF p \in loaded[b].programs THEN NoProgram ELSE program[p]]
     ELSE UNCHANGED <<role, session, program>>
  /\ loaded' = [loaded EXCEPT ![b] = NoRows]
  /\ Ends(b)
  /\ UNCHANGED crossed

-----------------------------------------------------------------------------
(***************************************************************************)
(* MMIXALProgramsController.                                               *)
(***************************************************************************)

Titles(u, rows) == {program[p].title : p \in rows \cap Rows(u)}

\* default_title_for(user).  Its queries are one here: what another request does
\* between two of them changes which title is found, not that it is validated.
DefaultTitle(u) ==
  CHOOSE n \in Default :
    n \notin Titles(u, Program) /\ \A m \in 1..n - 1 : m \in Titles(u, Program)

Unused == {p \in Program : program[p] = NoProgram}

\* create, up to create!.
AskProgram(b) ==
  /\ Authenticated(b) /\ Unused # {}
  /\ Begins(b, [kind |-> "validate", user |-> session[b], title |-> DefaultTitle(session[b])],
            Storing(session[b]), "programs")
  /\ UNCHANGED <<role, session, program, loaded>>

\* A mutation of IsUnique: the other programs are not looked at.
AnyTitle(u, others, title) == TRUE

\* validates :title, uniqueness: { scope: :user_id }.
IsUnique(u, others, title) == title \notin Titles(u, others)

\* What follows a validation: the statement that stores, or an exception.
Validated(b, others, next) ==
  IF IsUnique(request[b].user, others, request[b].title)
  THEN Becomes(b, [request[b] EXCEPT !.kind = next])
  ELSE Ends(b)

ValidateProgram(b) ==
  /\ request[b].kind = "validate"
  /\ Validated(b, Program, "insert")
  /\ UNCHANGED <<role, session, program, loaded, crossed>>

\* The foreign key refuses a program of a deleted user.
InsertProgram(b, p) ==
  /\ request[b].kind = "insert" /\ p \in Unused
  /\ IF Exists(request[b].user)
     THEN /\ program' = [program EXCEPT ![p] = [owner |-> request[b].user, title |-> request[b].title]]
          /\ loaded' = [c \in Browser |-> [loaded[c] EXCEPT !.programs = @ \ {p}]]
     ELSE UNCHANGED <<program, loaded>>
  /\ Ends(b)
  /\ UNCHANGED <<role, session, crossed>>

\* update, up to the assignment of the title that the page submits.  The row is
\* looked for among those of all users.
AskTitle(b, p, title) ==
  /\ Authenticated(b) /\ program[p] # NoProgram /\ title # program[p].title
  /\ Begins(b, [kind |-> "validate title", row |-> p, user |-> program[p].owner, title |-> title],
            Storing(program[p].owner), "programs")
  /\ UNCHANGED <<role, session, program, loaded>>

ValidateTitle(b) ==
  /\ request[b].kind = "validate title"
  /\ Validated(b, Program \ {request[b].row}, "write title")
  /\ UNCHANGED <<role, session, program, loaded, crossed>>

\* A row that is gone is not updated.
WriteTitle(b) ==
  LET p == request[b].row
  IN /\ request[b].kind = "write title"
     /\ program' = IF p \in Rows(request[b].user)
                   THEN [program EXCEPT ![p].title = request[b].title] ELSE program
     /\ Ends(b)
     /\ UNCHANGED <<role, session, loaded, crossed>>

\* destroy.
DestroyProgram(b, p) ==
  /\ Authenticated(b) /\ p \in Rows(session[b])
  /\ program' = [program EXCEPT ![p] = NoProgram]
  /\ UNCHANGED <<role, session, request, loaded, crossed>>

Next ==
  \/ \E u \in User : ResetPassword(u)
  \/ \E b \in Browser :
       \/ StartSession(b) \/ SignOut(b)
       \/ CheckRole(b) \/ WriteRole(b)
       \/ DestroySessions(b) \/ DestroyPrograms(b) \/ DeleteUser(b)
       \/ AskProgram(b) \/ ValidateProgram(b) \/ ValidateTitle(b) \/ WriteTitle(b)
       \/ \E u \in User :
            \/ Register(b, u) \/ Authenticate(b, u) \/ AskDestroy(b, u)
            \/ \E new \in Role : AskRole(b, u, new)
       \/ \E p \in Program :
            \/ InsertProgram(b, p) \/ DestroyProgram(b, p)
            \/ \E title \in Title : AskTitle(b, p, title)

Spec == Init /\ [][Next]_vars

-----------------------------------------------------------------------------
(***************************************************************************)
(* Properties.                                                             *)
(***************************************************************************)

\* Every variable holds a value of its type, and "Untitled (n)" is never numbered
\* beyond the number of programs there are.
AccountsTypeOK ==
  /\ role \in [User -> Role \cup {"absent", "gone"}]
  /\ session \in [Browser -> User \cup {NoUser}]
  /\ program \in [Program -> [owner : User, title : Title] \cup {NoProgram}]
  /\ request \in [Browser -> Request]
  /\ loaded \in [Browser -> Loaded]
  /\ crossed \subseteq {"users", "programs"}

\* users_controller.rb: "Cannot demote the last admin."  As long as no account has
\* been deleted, there is somebody who may administer the users.
DemotionsLeaveAnAdmin == (\A u \in User : role[u] # "gone") => Admins # {}

\* There is always somebody who may administer the users, by the count and by the
\* rule that nobody deletes himself, as long as no two requests to administer users
\* have overlapped.
AdministratorRemains == "users" \notin crossed => Admins # {}

\* The rows of a user do not outlive the user, not even those that are inserted while
\* the user is being deleted: whoever is signed in exists, and so does the owner of
\* every program.
RowsHaveOwners ==
  /\ \A b \in Browser : session[b] # NoUser => Exists(session[b])
  /\ \A p \in Program : program[p] # NoProgram => Exists(program[p].owner)

\* The test "title must be unique per user": the titles of a user differ, as long
\* as no two requests about the programs of one user have overlapped.
UniqueTitles ==
  "programs" \notin crossed =>
    \A p, q \in Program : p # q /\ program[p] # NoProgram => program[p] # program[q]

\* An account that an administrator has deleted stays deleted, whatever requests
\* about it were under way.
DeletedStaysDeleted ==
  [][ \A u \in User : role[u] = "gone" => role'[u] = "gone" ]_vars
=============================================================================
