-------------------------------- MODULE SignIn --------------------------------
(***************************************************************************)
(* The sign-ins of one candidate (services/auth.py): opening a session     *)
(* with the password, signing out, here or everywhere, changing the        *)
(* password or setting it with a reset code, and being deactivated by an   *)
(* administrator.  A sign-in whose stored hash was made with the           *)
(* parameters of an earlier version writes the hash anew.                  *)
(*                                                                         *)
(* A request is a transaction at READ COMMITTED: it reads what it decides  *)
(* on, takes the lock of the candidate's row if it changes that, lists the *)
(* sessions it ends and commits.  Throttling and the security check only   *)
(* refuse a request before it starts and are left out.                     *)
(***************************************************************************)
EXTENDS Naturals, FiniteSets

CONSTANTS
    Clients,       \* requests that can be served at the same time
    SignIns,       \* rows of auth_sessions
    Codes,         \* rows of password_reset_codes
    MaxPasswords,  \* bound: passwords the account ever has
    None

VARIABLES
    account,   \* the candidate's row
    session,   \* session[s]: the row of sign-in s, None when there is none
    code,      \* code[c]: the row of reset code c, None when there is none
    req        \* req[r]: the transaction of request r, uncommitted

signInVars == <<account, session, code, req>>

-----------------------------------------------------------------------------
\* Passwords are numbered in the order in which they were set.
Account ==
    [active   : BOOLEAN,
     password : Nat,       \* the one password_hash is of
     outdated : BOOLEAN,   \* password_hash has the parameters of an earlier version
     last     : Nat]       \* ghost: the password set last

Session ==
    [over     : BOOLEAN,     \* revoked_at is set, or expires_at is over
     password : Nat,         \* ghost: the password it was opened with, or has set
     beside   : BOOLEAN]     \* ghost: it was opened beside a change of the account

Code == [open   : BOOLEAN,   \* not used and not expired
         beside : BOOLEAN]   \* ghost: it was issued beside another one

\* What is there to change an account; a sign-in, with a new hash or without; what writes the
\* candidate's row, and all there is.
Changes == {"password", "reset", "deactivate", "reactivate"}
Opens == {"sign in", "rehash"}
Writes == Changes \cup {"rehash"}
Operations == Writes \cup {"sign in", "sign out", "everywhere", "issue"}

Req ==
    [at     : {"idle", "read", "locked"},
     op     : Operations,
     by     : SignIns \cup {None},   \* the session of the request, or the one it opens
     ref    : Codes \cup {None},     \* the code it redeems or issues
     ends   : SUBSET SignIns,        \* the sessions it ends
     voids  : SUBSET Codes,          \* the codes it voids
     with   : Nat,                   \* ghost: the password a sign-in was verified against
     beside : BOOLEAN]               \* ghost

NoReq ==
    [at |-> "idle", op |-> "sign in", by |-> None, ref |-> None,
     ends |-> {}, voids |-> {}, with |-> 0, beside |-> FALSE]

Init ==
    /\ account = [active |-> TRUE, password |-> 1, outdated |-> FALSE, last |-> 1]
    /\ session = [s \in SignIns |-> None]
    /\ code = [c \in Codes |-> None]
    /\ req = [r \in Clients |-> NoReq]

-----------------------------------------------------------------------------
\* AuthSession.is_valid
IsValid(s) == session[s] # None /\ ~session[s].over

\* authenticate
Authenticated(s) == IsValid(s) /\ account.active

\* Mutant of ToEnd: the sessions of the password before are left to expire.
OfOthers(keep) == {s \in SignIns \ {keep} : IsValid(s) /\ session[s].password # account.password}

\* AuthSessionRepository.revoke_all: the candidate's live sessions but one.
ToEnd(keep) == {s \in SignIns \ {keep} : IsValid(s)}

OpenCodes == {c \in Codes : code[c] # None /\ code[c].open}

\* The candidate's row is locked from its UPDATE to the commit.
Locked == \E r \in Clients : req[r].at = "locked"

Changing == \E r \in Clients : req[r].at = "locked" /\ req[r].op \in Changes

\* Ids that a new row can have.
Unused(id) == \A r \in Clients : req[r].at # "idle" => id \notin {req[r].by, req[r].ref}

Begin(r, new) == req[r].at = "idle" /\ req' = [req EXCEPT ![r] = new]

Reading(o) == [NoReq EXCEPT !.at = "read", !.op = o]

-----------------------------------------------------------------------------
\* _login: the password is verified against the row as read, which must be active, and is
\* hashed again if needs_rehash says so of that row.
SignIn(r) ==
    /\ account.active
    /\ \E s \in SignIns :
          /\ session[s] = None /\ Unused(s)
          /\ Begin(r, [Reading(IF account.outdated THEN "rehash" ELSE "sign in") EXCEPT
                         !.by = s, !.with = account.password, !.beside = Changing])
    /\ UNCHANGED <<account, session, code>>

\* logout, change_password: the session is authenticated, and the current password verified.
BySession(r) ==
    /\ \E s \in SignIns, o \in {"sign out", "password"} :
          Authenticated(s) /\ Begin(r, [Reading(o) EXCEPT !.by = s])
    /\ UNCHANGED <<account, session, code>>

\* revoke_all, asked for by the candidate or by an administrator: the sessions are read at once.
Everywhere(r) ==
    /\ Begin(r, [Reading("everywhere") EXCEPT !.ends = ToEnd(None)])
    /\ UNCHANGED <<account, session, code>>

\* redeem_reset_code: a code that is neither used nor expired, of an active candidate.
Redeem(r) ==
    /\ account.active
    /\ \E c \in OpenCodes : Begin(r, [Reading("reset") EXCEPT !.ref = c])
    /\ UNCHANGED <<account, session, code>>

\* issue_reset_code: the codes that are not used are read, to be voided.
Issue(r) ==
    LET others == {p \in Clients : req[p].at # "idle" /\ req[p].op = "issue"}
    IN  /\ req[r].at = "idle"
        /\ \E c \in Codes :
              /\ code[c] = None /\ Unused(c)
              /\ req' = [p \in Clients |->
                           IF p = r
                           THEN [Reading("issue") EXCEPT !.ref = c, !.voids = OpenCodes,
                                                         !.beside = others # {}]
                           ELSE [req[p] EXCEPT !.beside = @ \/ p \in others]]
        /\ UNCHANGED <<account, session, code>>

\* set_active: nothing, unless it differs from what was read.
SetActive(r) ==
    /\ Begin(r, Reading(IF account.active THEN "deactivate" ELSE "reactivate"))
    /\ UNCHANGED <<account, session, code>>

\* The UPDATE of the candidate's row, which waits for its lock; the sessions that end are read
\* after it.  Reactivation ends none, nor does a sign-in.
Lock(r) ==
    /\ req[r].at = "read" /\ req[r].op \in Writes
    /\ ~Locked
    /\ LET beside(p) == req[r].op \in Changes /\ req[p].at # "idle" /\ req[p].op \in Opens IN
       req' = [p \in Clients |->
                 IF p = r
                 THEN [req[r] EXCEPT !.at = "locked",
                         !.ends = IF req[r].op \in {"reactivate", "rehash"} THEN {} ELSE ToEnd(req[r].by)]
                 ELSE [req[p] EXCEPT !.beside = @ \/ beside(p)]]
    /\ UNCHANGED <<account, session, code>>

-----------------------------------------------------------------------------
\* The columns the request has changed, and no other: a sign-in that hashes its password again
\* writes that hash over whatever has been committed since it read the row.
Changed(r) ==
    CASE req[r].op \in {"password", "reset"} ->
            [account EXCEPT !.password = account.last + 1, !.last = @ + 1, !.outdated = FALSE]
      [] req[r].op = "rehash"                -> [account EXCEPT !.password = req[r].with, !.outdated = FALSE]
      [] req[r].op = "deactivate"            -> [account EXCEPT !.active = FALSE]
      [] req[r].op = "reactivate"            -> [account EXCEPT !.active = TRUE]
      [] OTHER                               -> account

NewSession(r) ==
    [over |-> FALSE, password |-> req[r].with, beside |-> req[r].beside]

\* revoked_at of the sessions that end; the session that sets a password is of that password.
Written(r, s) ==
    IF req[r].op \in Opens /\ s = req[r].by THEN NewSession(r)
    ELSE IF session[s] # None /\ (s \in req[r].ends \/ (s = req[r].by /\ req[r].op = "sign out"))
         THEN [session[s] EXCEPT !.over = TRUE]
    ELSE IF session[s] # None /\ s = req[r].by /\ req[r].op = "password"
         THEN [session[s] EXCEPT !.password = account.last + 1]
    ELSE session[s]

\* used_at of the code that is redeemed and of those that are voided, and the new one.
WrittenCode(r, c) ==
    IF c = req[r].ref /\ req[r].op = "issue" THEN [open |-> TRUE, beside |-> req[r].beside]
    ELSE IF code[c] # None /\ (c = req[r].ref \/ c \in req[r].voids)
         THEN [code[c] EXCEPT !.open = FALSE]
    ELSE code[c]

Commit(r) ==
    /\ req[r].at = IF req[r].op \in Writes THEN "locked" ELSE "read"
    /\ account' = Changed(r)
    /\ account'.last <= MaxPasswords
    /\ session' = [s \in SignIns |-> Written(r, s)]
    /\ code' = [c \in Codes |-> WrittenCode(r, c)]
    /\ req' = [req EXCEPT ![r] = NoReq]

Rollback(r) ==
    /\ req[r].at # "idle"
    /\ req' = [req EXCEPT ![r] = NoReq]
    /\ UNCHANGED <<account, session, code>>

\* A session or a code runs out.
Expire ==
    /\ \/ \E s \in SignIns : IsValid(s) /\ session' = [session EXCEPT ![s].over = TRUE] /\ UNCHANGED code
       \/ \E c \in OpenCodes : code' = [code EXCEPT ![c].open = FALSE] /\ UNCHANGED session
    /\ UNCHANGED <<account, req>>

\* retention: rows that ended long before any request there is.
Retention ==
    /\ \/ \E s \in SignIns :
             /\ session[s] # None /\ ~IsValid(s)
             /\ Unused(s) /\ \A r \in Clients : s \notin req[r].ends
             /\ session' = [session EXCEPT ![s] = None] /\ UNCHANGED code
       \/ \E c \in Codes \ OpenCodes :
             /\ code[c] # None
             /\ Unused(c) /\ \A r \in Clients : c \notin req[r].voids
             /\ code' = [code EXCEPT ![c] = None] /\ UNCHANGED session
    /\ UNCHANGED <<account, req>>

\* A version of the server with other hash parameters takes over; requests under way are lost.
Upgrade ==
    /\ account' = [account EXCEPT !.outdated = TRUE]
    /\ req' = [r \in Clients |-> NoReq]
    /\ UNCHANGED <<session, code>>

Serve(r) ==
    \/ SignIn(r) \/ BySession(r) \/ Everywhere(r) \/ Redeem(r) \/ Issue(r) \/ SetActive(r)
    \/ Lock(r) \/ Commit(r) \/ Rollback(r)

Next == (\E r \in Clients : Serve(r)) \/ Expire \/ Retention \/ Upgrade

Spec == Init /\ [][Next]_signInVars

-----------------------------------------------------------------------------
\* The rows and the requests have their types.
TypeOK ==
    /\ account \in Account
    /\ session \in [SignIns -> Session \cup {None}]
    /\ code \in [Codes -> Code \cup {None}]
    /\ req \in [Clients -> Req]

\* A live session was opened with the password of the account or with the one set last, or has set
\* that one, and its candidate is active, unless it was opened beside a change of the account; one
\* reset code is open at most, unless two were issued side by side (AuthService: "every other
\* session of theirs ends", "signing them out everywhere", "older unused codes are voided").
AccessFollows ==
    /\ \A s \in SignIns :
          IsValid(s) => \/ session[s].beside
                        \/ session[s].password \in {account.password, account.last} /\ account.active
    /\ \A c, d \in OpenCodes : c # d => code[c].beside \/ code[d].beside

\* What auth.py says of a change and of a reset, and what does not hold ("the signed-in user changes
\* their own password", "sets a new password"): the password of the account is the one set last.  A
\* sign-in that was verified before may write the hash of the one before anew.
LastSetStands == account.password = account.last
=============================================================================
