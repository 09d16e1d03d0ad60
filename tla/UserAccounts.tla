---------------------------- MODULE UserAccounts ----------------------------
(***************************************************************************)
(* The user database as AuthServer/SQLFunctions.cpp uses it: createUser    *)
(* and authenticateUser, one action per SQL statement.  There is one       *)
(* connection to the database and no transaction: each statement takes     *)
(* effect on its own.                                                      *)
(*                                                                         *)
(* A table of completeDB.sql is a set of rows.  External is MySQL: that    *)
(* AUTO_INCREMENT never gives out an id again, and that a table is scanned *)
(* in the order of its primary key.  The salted hash of a password is the  *)
(* password here, and an address stands for all spellings of it that are   *)
(* equal in the database.                                                  *)
(***************************************************************************)
EXTENDS Integers, FiniteSets

CONSTANTS
  Emails, Passwords,
  DbFaults,         \* whether statements may fail and the connection be lost
  Seconds           \* the seconds the program is run in, as FROM_UNIXTIME has them

ASSUME AccountsAssumption == DbFaults \in BOOLEAN /\ Seconds \subseteq Nat

VARIABLES
  user,             \* table user
  webAuth,          \* table web_auth
  nextId,           \* the id the next row of user gets
  dbUp,             \* whether the connection `con' works
  call,             \* createUser or authenticateUser: where it is, its locals
  inserted,         \* history: id and second of every row user ever had
  swept,            \* history: seconds whose rows createUser has deleted
  broken            \* history: seconds of sign-ups that left a row behind

tables      == << user, webAuth, nextId >>
accountVars == << tables, dbUp, call, inserted, swept, broken >>

UserRow(id, s)       == [id |-> id, last_login |-> s, creation_date |-> s]
WebAuthRow(e, p, id) == [email |-> e, password |-> p, userId |-> id]

(* Credentials as createUser and authenticateUser are called with.         *)
Credentials == [action : {"LOGIN", "SIGN_UP"}, email : Emails, password : Passwords]

(* No function of SQLFunctions.cpp is running.                             *)
NoCall == [step |-> "idle"]

AccountsInit ==
  /\ user = {} /\ webAuth = {} /\ nextId = 1
  /\ dbUp = TRUE /\ call = NoCall
  /\ inserted = {} /\ swept = {} /\ broken = {}

(* The call of one of the two functions; time(&now) and UID = 1000.  Two   *)
(* readings of the time may be equal, and the later one may be lower: the  *)
(* dates in the database are local, and clocks are set.                    *)
Begin(cr) ==
  /\ call.step = "idle"
  /\ \E now \in Seconds :
       call' = [step |-> IF cr.action = "LOGIN" THEN "select_auth" ELSE "insert_user",
                of   |-> cr, now |-> now, uid |-> 1000, ok |-> FALSE]
  /\ UNCHANGED << tables, dbUp, inserted, swept, broken >>

-----------------------------------------------------------------------------
(* How a statement ends.                                                   *)

Proceed(s)  == call' = [call EXCEPT !.step = s]
Return(ok)  == call' = [call EXCEPT !.step = "returned", !.ok = ok]

(* The statement throws.  It has had no effect unless the connection was   *)
(* lost, in which case it may have had.                                    *)
Rejected == DbFaults /\ dbUp /\ UNCHANGED dbUp
Lost     == DbFaults /\ dbUp /\ dbUp' = FALSE

(* An exception outside the try blocks: prepareStatement, or executeQuery. *)
(* Nobody catches it and the process is terminated.                        *)
Uncaught ==
  /\ call.step \notin {"idle", "returned", "terminated"}
  /\ DbFaults /\ dbUp' \in {dbUp, FALSE}
  /\ Proceed("terminated")
  /\ broken' = IF call.step \in {"select_user", "insert_auth", "delete_user"}
                 THEN broken \union {call.now} ELSE broken
  /\ UNCHANGED << tables, inserted, swept >>

-----------------------------------------------------------------------------
(* createUser.                                                             *)

(* INSERT INTO user: the row has no trace of whose it is but its second.   *)
AddUserRow ==
  /\ user' = user \union {UserRow(nextId, call.now)}
  /\ inserted' = inserted \union {[id |-> nextId, second |-> call.now]}
  /\ nextId' = nextId + 1

InsertUser ==
  /\ call.step = "insert_user"
  /\ \/ dbUp /\ UNCHANGED << dbUp, broken >> /\ AddUserRow /\ Proceed("select_user")
     \/ (Rejected \/ Lost) /\ UNCHANGED << user, inserted, nextId, broken >> /\ Return(FALSE)
     \/ Lost /\ AddUserRow /\ broken' = broken \union {call.now} /\ Return(FALSE)
  /\ UNCHANGED << webAuth, swept >>

(* SELECT * FROM user WHERE creation_date = now: the last row read wins.   *)
OfSecond(s) == {u \in user : u.creation_date = s}
FirstId(rows) == {u.id : u \in {u \in rows : \A v \in rows : v.id >= u.id}}  \* mutant
LastId(rows)  == {u.id : u \in {u \in rows : \A v \in rows : v.id <= u.id}}

SelectUser ==
  /\ call.step = "select_user" /\ dbUp
  /\ LET rows == OfSecond(call.now) IN
       \/ rows = {} /\ Proceed("insert_auth")
       \/ \E id \in LastId(rows) : call' = [call EXCEPT !.step = "insert_auth", !.uid = id]
  /\ UNCHANGED << tables, dbUp, inserted, swept, broken >>

(* INSERT INTO web_auth: throws when the e-mail or the id of the user row  *)
(* is there already.                                                       *)
Unique == \A w \in webAuth : w.email # call.of.email /\ w.userId # call.uid
AddAccount ==
  webAuth' = webAuth \union {WebAuthRow(call.of.email, call.of.password, call.uid)}

InsertAuth ==
  /\ call.step = "insert_auth"
  /\ \/ /\ dbUp /\ UNCHANGED dbUp
        /\ Unique /\ AddAccount /\ Return(TRUE)
     \/ /\ \/ dbUp /\ UNCHANGED dbUp /\ ~Unique
           \/ Rejected \/ Lost
        /\ UNCHANGED webAuth /\ Proceed("delete_user")
     \/ Lost /\ Unique /\ AddAccount /\ Proceed("delete_user")
  /\ UNCHANGED << user, nextId, inserted, swept, broken >>

(* deleteByCreationDateInTableUser: every row of the second goes.          *)
DeleteUpTo(s)   == user' = {u \in user : u.creation_date > s}      \* mutant
DeleteNone(s)   == UNCHANGED user                                  \* mutant
DeleteSecond(s) == user' = {u \in user : u.creation_date # s}

DeleteUser ==
  /\ call.step = "delete_user"
  /\ \/ /\ dbUp /\ UNCHANGED << dbUp, broken >>
        /\ DeleteSecond(call.now) /\ swept' = swept \union {call.now}
     \/ Lost /\ DeleteSecond(call.now) /\ swept' = swept \union {call.now} /\ UNCHANGED broken
     \/ (Rejected \/ Lost) /\ UNCHANGED << user, swept >> /\ broken' = broken \union {call.now}
  /\ Return(FALSE)
  /\ UNCHANGED << webAuth, nextId, inserted >>

-----------------------------------------------------------------------------
(* authenticateUser.                                                       *)

(* SELECT * FROM web_auth WHERE email = ..., and the comparison.           *)
AnyPassword(e, p) == {w \in webAuth : w.email = e}                 \* mutant
Matching(e, p)    == {w \in webAuth : w.email = e /\ w.password = p}

SelectAuth ==
  /\ call.step = "select_auth" /\ dbUp
  /\ LET found == Matching(call.of.email, call.of.password) IN
       \/ found = {} /\ Return(FALSE)
       \/ \E w \in found, now \in Seconds :
            call' = [call EXCEPT !.step = "update_login", !.uid = w.userId, !.now = now]
  /\ UNCHANGED << tables, dbUp, inserted, swept, broken >>

(* UPDATE user SET last_login: the login succeeds whether it does or not,  *)
(* and also when there is no such row.                                     *)
Stamp(id, s) ==
  user' = {IF u.id = id THEN [u EXCEPT !.last_login = s] ELSE u : u \in user}

UpdateLogin ==
  /\ call.step = "update_login"
  /\ \/ dbUp /\ UNCHANGED dbUp /\ Stamp(call.uid, call.now)
     \/ (Rejected \/ Lost) /\ UNCHANGED user
     \/ Lost /\ Stamp(call.uid, call.now)
  /\ Return(TRUE)
  /\ UNCHANGED << webAuth, nextId, inserted, swept, broken >>

Statement ==
  InsertUser \/ SelectUser \/ InsertAuth \/ DeleteUser \/ SelectAuth \/ UpdateLogin

-----------------------------------------------------------------------------
(* The process goes on with the result, or is started again.               *)

FinishKeep == call.step = "returned" /\ UNCHANGED accountVars      \* mutant
Finish ==
  /\ call.step = "returned" /\ call' = NoCall
  /\ UNCHANGED << tables, dbUp, inserted, swept, broken >>

Reconnect ==
  /\ dbUp' = TRUE /\ call' = NoCall
  /\ UNCHANGED << tables, inserted, swept, broken >>

-----------------------------------------------------------------------------
Busy  == {"insert_user", "select_user", "insert_auth", "delete_user", "select_auth", "update_login"}
Calls == [step : Busy \union {"returned", "terminated"}, of : Credentials,
          now : Nat, uid : Nat, ok : BOOLEAN]

AccountsTypeOK ==
  /\ nextId \in Nat \ {0} /\ dbUp \in BOOLEAN
  /\ call \in Calls \union {NoCall}
  /\ user \subseteq [id : Nat, last_login : Nat, creation_date : Nat]
  /\ webAuth \subseteq [email : Emails, password : Passwords, userId : Nat]
  /\ inserted \subseteq [id : Nat, second : Nat]
  /\ swept \subseteq Nat /\ broken \subseteq Nat

(* createUser finds its row by the second only, in which other sign-ups    *)
(* may have happened: still the row it has found when it inserts the       *)
(* credentials is there and nobody's, so that no sign-up is refused (and   *)
(* the rows of the second are not swept) because of another's row.         *)
OwnRows ==
  call.step = "insert_auth" =>
    /\ \E u \in user : u.id = call.uid
    /\ \A w \in webAuth : w.userId # call.uid

(* An account's user row is missing only when a later sign-up of the very  *)
(* second of its creation has failed and swept the rows of that second;    *)
(* no failure of a sign-up of another second harms it.                     *)
MissingRowsWereSwept ==
  \A w \in webAuth :
    \/ \E u \in user : u.id = w.userId
    \/ \E r \in inserted : r.id = w.userId /\ r.second \in swept

(* A user row that no account refers to is that of the sign-up in progress *)
(* or was left behind by a termination between the statements, or a        *)
(* failing deletion, of a sign-up of its second: a refusal leaves nothing. *)
SigningUp(s) ==
  call.step \in {"select_user", "insert_auth", "delete_user"} /\ call.now = s
OrphansWereBroken ==
  \A u \in user :
    \/ \E w \in webAuth : w.userId = u.id
    \/ SigningUp(u.creation_date)
    \/ u.creation_date \in broken
=============================================================================
