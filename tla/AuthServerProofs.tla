-------------------------- MODULE AuthServerProofs --------------------------
(***************************************************************************)
(* The auth server, for any number of connections, requests and addresses: *)
(* types, what its tables hold, where its answers go and what can end it.  *)
(* RoomManagerProofs is here for its lemmas about sequences.               *)
(***************************************************************************)
EXTENDS AuthServer, RoomManagerProofs

-----------------------------------------------------------------------------
(* The user database, whatever requests the auth server is sent, however   *)
(* many connections it has and wherever it is terminated: every account    *)
(* has a row of its own in table user, which is missing only when it was   *)
(* swept, and rows without an account have a cause.                        *)

(* All that the auth server ever does to the variables of UserAccounts.    *)
(* It is started again only when no function is running.                   *)
AccountStep ==
  \/ \E cr \in Credentials : Begin(cr)
  \/ Statement \/ Uncaught \/ Finish
  \/ call.step \in {"idle", "terminated"} /\ Reconnect
  \/ UNCHANGED accountVars

(* Ids are not given out twice, and a row is one of those inserted.        *)
RowsOK ==
  /\ \A r \in inserted : r.id < nextId
  /\ \A r, s \in inserted : r.id = s.id => r = s
  /\ \A u \in user : [id |-> u.id, second |-> u.creation_date] \in inserted

(* An account has an id that has been given out, and whose row is there or *)
(* was swept; the schema's e-mail addresses are unique.                    *)
AccountsOK ==
  /\ \A w \in webAuth : w.userId < nextId
  /\ MissingRowsWereSwept
  /\ \A v, w \in webAuth : v.email = w.email => v = w

(* createUser: the row inserted last is that of the sign-up in progress    *)
(* and no other account has its id, until the account is made.             *)
IsOwn(u) == u.id = nextId - 1 /\ u.creation_date = call.now
OwnRowThere ==
  /\ \E u \in user : IsOwn(u)
  /\ \A w \in webAuth : w.userId # nextId - 1
SignUpOK ==
  /\ call.step \in {"select_user", "insert_auth"} => OwnRowThere
  /\ call.step = "insert_auth" => call.uid = nextId - 1

(* A row without an account is the sign-up's own, or has a cause.          *)
Inserting == call.step \in {"select_user", "insert_auth", "delete_user"}
OrphansOK ==
  \A u \in user :
    \/ \E w \in webAuth : w.userId = u.id
    \/ u.creation_date \in broken
    \/ Inserting /\ IsOwn(u)

Registered(e) == \E w \in webAuth : w.email = e

(* Why the verdicts that are yet to be given will be right.                *)
VerdictsOK ==
  /\ call.step = "update_login" => Matching(call.of.email, call.of.password) # {}
  /\ call.step = "delete_user" => DbFaults \/ Registered(call.of.email)

AccountsInv ==
  AccountsTypeOK /\ RowsOK /\ AccountsOK /\ SignUpOK /\ OrphansOK /\ VerdictsOK

-----------------------------------------------------------------------------
(* The parts of a step.                                                    *)

(* A function is running.                                                  *)
LEMMA Running ==
  ASSUME AccountsTypeOK, call.step # "idle"
  PROVE  call \in Calls
BY DEF AccountsTypeOK, NoCall

(* What the two ways to go on do to the function's record.                 *)
LEMMA ProceedFacts ==
  ASSUME call \in Calls, NEW s \in Busy \union {"terminated"}, Proceed(s)
  PROVE  /\ call' \in Calls /\ call'.step = s /\ call'.of = call.of
         /\ call'.now = call.now /\ call'.uid = call.uid
BY DEF Proceed, Calls, Busy

LEMMA ReturnFacts ==
  ASSUME call \in Calls, NEW ok \in BOOLEAN, Return(ok)
  PROVE  /\ call' \in Calls /\ call'.step = "returned" /\ call'.of = call.of
         /\ call'.now = call.now /\ call'.uid = call.uid /\ call'.ok = ok
BY DEF Return, Calls

(* A new row of user has an id and a second that no row has had together.  *)
LEMMA AddUserRowFacts ==
  ASSUME AccountsTypeOK, RowsOK, call \in Calls, AddUserRow
  PROVE  /\ nextId' = nextId + 1 /\ nextId' \in Nat \ {0}
         /\ user' \subseteq [id : Nat, last_login : Nat, creation_date : Nat]
         /\ inserted' \subseteq [id : Nat, second : Nat]
         /\ RowsOK'
         /\ user \subseteq user' /\ inserted \subseteq inserted'
         /\ \E u \in user' : u.id = nextId /\ u.creation_date = call.now
         /\ \A u \in user' : u \in user \/ (u.id = nextId /\ u.creation_date = call.now)
<1> DEFINE row == [id |-> nextId, last_login |-> call.now, creation_date |-> call.now]
           new == [id |-> nextId, second |-> call.now]
<1>1. /\ nextId \in Nat \ {0} /\ call.now \in Nat
      /\ user \subseteq [id : Nat, last_login : Nat, creation_date : Nat]
      /\ inserted \subseteq [id : Nat, second : Nat]
  BY DEF AccountsTypeOK, Calls
<1>2. nextId' = nextId + 1 /\ user' = user \union {row} /\ inserted' = inserted \union {new}
  BY DEF AddUserRow, UserRow
<1>3. /\ row \in [id : Nat, last_login : Nat, creation_date : Nat]
      /\ row.id = nextId /\ row.creation_date = call.now
      /\ new \in [id : Nat, second : Nat] /\ new.id = nextId
      /\ new = [id |-> row.id, second |-> row.creation_date]
  BY <1>1
<1> HIDE DEF row, new
<1>4. \A r \in inserted : r.id \in Nat
  BY <1>1
<1>5. RowsOK'
  BY <1>1, <1>2, <1>3, <1>4 DEF RowsOK
<1> QED BY <1>1, <1>2, <1>3, <1>5

(* UPDATE user: the rows keep their ids and their seconds.                 *)
LEMMA StampFacts ==
  ASSUME AccountsTypeOK, NEW id, NEW s \in Nat, Stamp(id, s)
  PROVE  /\ user' \subseteq [id : Nat, last_login : Nat, creation_date : Nat]
         /\ \A v \in user' : \E u \in user : u.id = v.id /\ u.creation_date = v.creation_date
         /\ \A u \in user : \E v \in user' : u.id = v.id /\ u.creation_date = v.creation_date
<1> DEFINE new(u) == IF u.id = id THEN [u EXCEPT !.last_login = s] ELSE u
<1>1. user' = {new(u) : u \in user}
  BY DEF Stamp
<1>2. ASSUME NEW u \in user
      PROVE  /\ new(u) \in [id : Nat, last_login : Nat, creation_date : Nat]
             /\ new(u).id = u.id /\ new(u).creation_date = u.creation_date
  BY DEF AccountsTypeOK
<1> HIDE DEF new
<1> QED BY <1>1, <1>2

-----------------------------------------------------------------------------
(* Every statement keeps the invariant.                                    *)

LEMMA InsertUserInv ==
  ASSUME AccountsInv, InsertUser
  PROVE  AccountsInv'
<1> USE DEF AccountsInv
<1>1. call \in Calls /\ call.step = "insert_user"
  BY Running DEF InsertUser
<1>2. UNCHANGED << webAuth, swept >>
  BY DEF InsertUser
<1>3. CASE UNCHANGED << user, inserted, nextId, broken >> /\ dbUp' \in BOOLEAN /\ Return(FALSE)
  <2>1. call' \in Calls /\ call'.step = "returned"
    BY <1>1, <1>3, ReturnFacts
  <2>2. AccountsTypeOK'
    BY <1>2, <1>3, <2>1 DEF AccountsTypeOK
  <2>3. RowsOK' /\ AccountsOK' /\ SignUpOK' /\ VerdictsOK'
    BY <1>2, <1>3, <2>1 DEF RowsOK, AccountsOK, MissingRowsWereSwept, SignUpOK, VerdictsOK
  <2>4. OrphansOK'
    BY <1>1, <1>2, <1>3 DEF OrphansOK, Inserting
  <2> QED BY <2>2, <2>3, <2>4
<1>4. CASE AddUserRow /\ dbUp' \in BOOLEAN
           /\ \/ Proceed("select_user") /\ UNCHANGED broken
              \/ Return(FALSE) /\ broken' = broken \union {call.now}
  <2>1. /\ call' \in Calls /\ call'.now = call.now
        /\ \/ call'.step = "select_user" /\ broken' = broken
           \/ call'.step = "returned" /\ broken' = broken \union {call.now}
    BY <1>1, <1>4, ProceedFacts, ReturnFacts DEF Busy
  <2>2. /\ nextId' = nextId + 1 /\ nextId' \in Nat \ {0}
        /\ user' \subseteq [id : Nat, last_login : Nat, creation_date : Nat]
        /\ inserted' \subseteq [id : Nat, second : Nat]
        /\ RowsOK'
        /\ user \subseteq user' /\ inserted \subseteq inserted'
        /\ \E u \in user' : u.id = nextId /\ u.creation_date = call.now
        /\ \A u \in user' : u \in user \/ (u.id = nextId /\ u.creation_date = call.now)
    BY <1>1, <1>4, AddUserRowFacts
  <2>3. call.now \in Nat /\ nextId \in Nat /\ \A w \in webAuth : w.userId \in Nat
    BY <1>1 DEF Calls, AccountsTypeOK
  <2>4. AccountsTypeOK'
    BY <1>2, <1>4, <2>1, <2>2, <2>3 DEF AccountsTypeOK
  <2>5. AccountsOK'
    BY <1>2, <2>2, <2>3 DEF AccountsOK, MissingRowsWereSwept
  <2>6. SignUpOK'
    <3>1. nextId' - 1 = nextId
      BY <2>2, <2>3
    <3>2. \A w \in webAuth : w.userId # nextId
      BY <2>3 DEF AccountsOK
    <3> QED BY <1>2, <2>1, <2>2, <3>1, <3>2 DEF SignUpOK, OwnRowThere, IsOwn
  <2>7. OrphansOK'
    <3>1. nextId' - 1 = nextId
      BY <2>2, <2>3
    <3>2. \A u \in user : (\E w \in webAuth : w.userId = u.id) \/ u.creation_date \in broken
      BY <1>1 DEF OrphansOK, Inserting
    <3> QED BY <1>2, <2>1, <2>2, <3>1, <3>2 DEF OrphansOK, Inserting, IsOwn
  <2>8. VerdictsOK'
    BY <2>1 DEF VerdictsOK
  <2> QED BY <2>2, <2>4, <2>5, <2>6, <2>7, <2>8
<1> QED BY <1>3, <1>4 DEF InsertUser, Rejected, Lost, AccountsTypeOK

LEMMA SelectUserInv ==
  ASSUME AccountsInv, SelectUser
  PROVE  AccountsInv'
<1> USE DEF AccountsInv
<1>1. call \in Calls /\ call.step = "select_user"
  BY Running DEF SelectUser
<1>2. UNCHANGED << tables, dbUp, inserted, swept, broken >>
  BY DEF SelectUser
<1>3. PICK own \in user : IsOwn(own)
  BY <1>1 DEF SignUpOK, OwnRowThere
<1>4. own \in OfSecond(call.now)
  BY <1>3 DEF OfSecond, IsOwn
<1>5. PICK id \in LastId(OfSecond(call.now)) : call' = [call EXCEPT !.step = "insert_auth", !.uid = id]
  BY <1>4 DEF SelectUser
<1>6. PICK u \in user : id = u.id /\ \A v \in OfSecond(call.now) : v.id <= u.id
  BY <1>5 DEF LastId, OfSecond
<1>7. id = nextId - 1 /\ id \in Nat
  <2>1. u.id \in Nat /\ own.id \in Nat /\ nextId \in Nat
    BY DEF AccountsTypeOK
  <2>2. u.id < nextId
    BY DEF RowsOK
  <2>3. own.id = nextId - 1 /\ own.id <= u.id
    BY <1>3, <1>4, <1>6 DEF IsOwn
  <2> QED BY <1>6, <2>1, <2>2, <2>3
<1>8. call' \in Calls /\ call'.step = "insert_auth" /\ call'.uid = id /\ call'.now = call.now
  BY <1>1, <1>5, <1>7 DEF Calls, Busy
<1>9. AccountsTypeOK'
  BY <1>2, <1>8 DEF AccountsTypeOK, tables
<1>10. RowsOK' /\ AccountsOK' /\ VerdictsOK'
  BY <1>2, <1>8 DEF RowsOK, AccountsOK, MissingRowsWereSwept, VerdictsOK, tables
<1>11. SignUpOK'
  BY <1>1, <1>2, <1>7, <1>8 DEF SignUpOK, OwnRowThere, IsOwn, tables
<1>12. OrphansOK'
  BY <1>1, <1>2, <1>8 DEF OrphansOK, Inserting, IsOwn, tables
<1> QED BY <1>9, <1>10, <1>11, <1>12

LEMMA InsertAuthInv ==
  ASSUME AccountsInv, InsertAuth
  PROVE  AccountsInv'
<1> USE DEF AccountsInv
<1>1. call \in Calls /\ call.step = "insert_auth" /\ call.uid = nextId - 1 /\ OwnRowThere
  BY Running DEF InsertAuth, SignUpOK
<1>2. UNCHANGED << user, nextId, inserted, swept, broken >> /\ dbUp' \in BOOLEAN
  BY DEF InsertAuth, Rejected, Lost, AccountsTypeOK
<1>3. \/ Return(TRUE) /\ ~Registered(call.of.email) /\ AddAccount
      \/ Proceed("delete_user") /\ UNCHANGED webAuth /\ (DbFaults \/ Registered(call.of.email))
      \/ Proceed("delete_user") /\ ~Registered(call.of.email) /\ AddAccount
  <2>1. Unique => ~Registered(call.of.email)
    BY DEF Unique, Registered
  <2>2. ~Unique => Registered(call.of.email)
    BY <1>1 DEF Unique, Registered, OwnRowThere
  <2> QED BY <2>1, <2>2 DEF InsertAuth, Rejected, Lost
<1>4. /\ call' \in Calls /\ call'.now = call.now /\ call'.of = call.of
      /\ call'.step \in {"returned", "delete_user"}
      /\ call'.step = "returned" => AddAccount
  <2>1. CASE Return(TRUE) /\ AddAccount
    BY <1>1, <2>1, ReturnFacts
  <2>2. CASE Proceed("delete_user")
    <3>1. "delete_user" \in Busy \union {"terminated"}
      BY DEF Busy
    <3> QED BY <1>1, <2>2, <3>1, ProceedFacts
  <2> QED BY <1>3, <2>1, <2>2
<1> DEFINE new == [email |-> call.of.email, password |-> call.of.password, userId |-> call.uid]
<1>5. /\ new \in [email : Emails, password : Passwords, userId : Nat]
      /\ new.email = call.of.email /\ new.password = call.of.password /\ new.userId = nextId - 1
  BY <1>1 DEF Calls, Credentials
<1>6. \/ webAuth' = webAuth
      \/ webAuth' = webAuth \union {new} /\ ~Registered(call.of.email)
  BY <1>3 DEF AddAccount, WebAuthRow
<1>7. AddAccount => new \in webAuth'
  BY DEF AddAccount, WebAuthRow
<1> HIDE DEF new
<1>8. AccountsTypeOK'
  BY <1>2, <1>4, <1>5, <1>6 DEF AccountsTypeOK
<1>9. RowsOK'
  BY <1>2 DEF RowsOK
<1>10. AccountsOK'
  <2>1. nextId \in Nat /\ \A w \in webAuth : w.userId # nextId - 1
    BY <1>1 DEF AccountsTypeOK, OwnRowThere
  <2>2. \E u \in user : u.id = new.userId
    BY <1>1, <1>5 DEF OwnRowThere, IsOwn
  <2>3. CASE webAuth' = webAuth
    BY <1>2, <2>3 DEF AccountsOK, MissingRowsWereSwept
  <2>4. CASE webAuth' = webAuth \union {new} /\ ~Registered(call.of.email)
    <3>1. \A w \in webAuth : w.email # new.email
      BY <1>5, <2>4 DEF Registered
    <3>2. new.userId < nextId
      BY <1>5, <2>1
    <3>3. \A w \in webAuth' : w.userId < nextId'
      BY <1>2, <2>4, <3>2 DEF AccountsOK
    <3>4. MissingRowsWereSwept'
      BY <1>2, <2>2, <2>4 DEF AccountsOK, MissingRowsWereSwept
    <3>5. \A v, w \in webAuth' : v.email = w.email => v = w
      BY <2>4, <3>1 DEF AccountsOK
    <3> QED BY <3>3, <3>4, <3>5 DEF AccountsOK
  <2> QED BY <1>6, <2>3, <2>4
<1>11. SignUpOK'
  BY <1>4 DEF SignUpOK
<1>12. OrphansOK'
  <2>1. webAuth \subseteq webAuth'
    BY <1>6
  <2>2. call'.step = "returned" => new \in webAuth' /\ new.userId = nextId - 1
    BY <1>4, <1>5, <1>7
  <2> QED BY <1>1, <1>2, <1>4, <2>1, <2>2 DEF OrphansOK, Inserting, IsOwn
<1>13. VerdictsOK'
  <2>1. ASSUME call'.step = "delete_user" PROVE DbFaults \/ Registered(call.of.email)'
    <3>1. CASE Return(TRUE)
      BY <1>1, <2>1, <3>1, ReturnFacts
    <3>2. CASE UNCHANGED webAuth /\ (DbFaults \/ Registered(call.of.email))
      BY <1>4, <3>2 DEF Registered
    <3>3. CASE AddAccount
      BY <1>4, <1>5, <1>7, <3>3 DEF Registered
    <3> QED BY <1>3, <3>1, <3>2, <3>3
  <2> QED BY <1>4, <2>1 DEF VerdictsOK
<1> QED BY <1>8, <1>9, <1>10, <1>11, <1>12, <1>13

LEMMA DeleteUserInv ==
  ASSUME AccountsInv, DeleteUser
  PROVE  AccountsInv'
<1> USE DEF AccountsInv
<1>1. call \in Calls /\ call.step = "delete_user" /\ call.now \in Nat
  BY Running DEF DeleteUser, Calls
<1>2. /\ UNCHANGED << webAuth, nextId, inserted >> /\ dbUp' \in BOOLEAN
      /\ call' \in Calls /\ call'.step = "returned"
  BY <1>1, ReturnFacts DEF DeleteUser, Rejected, Lost, AccountsTypeOK
<1>3. \/ /\ user' = {u \in user : u.creation_date # call.now}
         /\ swept' = swept \union {call.now} /\ broken' = broken
      \/ user' = user /\ swept' = swept /\ broken' = broken \union {call.now}
  BY DEF DeleteUser, DeleteSecond
<1>4. user' \subseteq user /\ swept \subseteq swept' /\ broken \subseteq broken'
  BY <1>3
<1>5. AccountsTypeOK'
  BY <1>1, <1>2, <1>3 DEF AccountsTypeOK
<1>6. RowsOK'
  BY <1>2, <1>4 DEF RowsOK
<1>7. AccountsOK'
  <2>1. ASSUME NEW w \in webAuth
        PROVE  (\E u \in user' : u.id = w.userId) \/ \E r \in inserted : r.id = w.userId /\ r.second \in swept'
    <3>1. CASE \E r \in inserted : r.id = w.userId /\ r.second \in swept
      BY <1>4, <3>1
    <3>2. ASSUME NEW u \in user, u.id = w.userId
          PROVE  u \in user' \/ \E r \in inserted : r.id = w.userId /\ r.second \in swept'
      <4>1. [id |-> u.id, second |-> u.creation_date] \in inserted
        BY DEF RowsOK
      <4>2. u \in user' \/ u.creation_date \in swept'
        BY <1>3
      <4> QED BY <3>2, <4>1, <4>2
    <3> QED BY <3>1, <3>2 DEF AccountsOK, MissingRowsWereSwept
  <2> QED BY <1>2, <2>1 DEF AccountsOK, MissingRowsWereSwept
<1>8. SignUpOK' /\ VerdictsOK'
  BY <1>2 DEF SignUpOK, VerdictsOK
<1>9. OrphansOK'
  BY <1>1, <1>2, <1>3 DEF OrphansOK, IsOwn
<1> QED BY <1>5, <1>6, <1>7, <1>8, <1>9

LEMMA SelectAuthInv ==
  ASSUME AccountsInv, SelectAuth
  PROVE  AccountsInv'
<1> USE DEF AccountsInv
<1>1. call \in Calls /\ call.step = "select_auth"
  BY Running DEF SelectAuth
<1>2. UNCHANGED << tables, dbUp, inserted, swept, broken >>
  BY DEF SelectAuth
<1>3. /\ call' \in Calls /\ call'.of = call.of
      /\ call'.step \in {"returned", "update_login"}
      /\ call'.step = "update_login" => Matching(call.of.email, call.of.password) # {}
  <2>1. CASE Return(FALSE)
    BY <1>1, <2>1, ReturnFacts
  <2>2. ASSUME NEW w \in Matching(call.of.email, call.of.password),
               NEW now \in Seconds,
               call' = [call EXCEPT !.step = "update_login", !.uid = w.userId, !.now = now]
        PROVE  call' \in Calls /\ call'.of = call.of /\ call'.step = "update_login"
    <3>1. w.userId \in Nat /\ now \in Nat
      BY AccountsAssumption DEF Matching, AccountsTypeOK
    <3> QED BY <1>1, <2>2, <3>1 DEF Calls, Busy
  <2> QED BY <2>1, <2>2 DEF SelectAuth
<1>4. AccountsTypeOK'
  BY <1>2, <1>3 DEF AccountsTypeOK, tables
<1>5. RowsOK' /\ AccountsOK'
  BY <1>2 DEF RowsOK, AccountsOK, MissingRowsWereSwept, tables
<1>6. SignUpOK'
  BY <1>3 DEF SignUpOK
<1>7. OrphansOK'
  BY <1>1, <1>2 DEF OrphansOK, Inserting, tables
<1>8. VerdictsOK'
  BY <1>2, <1>3 DEF VerdictsOK, Matching, tables
<1> QED BY <1>4, <1>5, <1>6, <1>7, <1>8

LEMMA UpdateLoginInv ==
  ASSUME AccountsInv, UpdateLogin
  PROVE  AccountsInv'
<1> USE DEF AccountsInv
<1>1. call \in Calls /\ call.step = "update_login" /\ call.now \in Nat
  BY Running DEF UpdateLogin, Calls
<1>2. /\ UNCHANGED << webAuth, nextId, inserted, swept, broken >> /\ dbUp' \in BOOLEAN
      /\ call' \in Calls /\ call'.step = "returned"
  BY <1>1, ReturnFacts DEF UpdateLogin, Rejected, Lost, AccountsTypeOK
<1>3. /\ user' \subseteq [id : Nat, last_login : Nat, creation_date : Nat]
      /\ \A v \in user' : \E u \in user : u.id = v.id /\ u.creation_date = v.creation_date
      /\ \A u \in user : \E v \in user' : u.id = v.id /\ u.creation_date = v.creation_date
  <2>1. CASE user' = user
    BY <2>1 DEF AccountsTypeOK
  <2>2. CASE Stamp(call.uid, call.now)
    BY <1>1, <2>2, StampFacts
  <2> QED BY <2>1, <2>2 DEF UpdateLogin
<1>4. AccountsTypeOK'
  BY <1>2, <1>3 DEF AccountsTypeOK
<1>5. RowsOK'
  BY <1>2, <1>3 DEF RowsOK
<1>6. AccountsOK'
  BY <1>2, <1>3 DEF AccountsOK, MissingRowsWereSwept
<1>7. SignUpOK' /\ VerdictsOK'
  BY <1>2 DEF SignUpOK, VerdictsOK
<1>8. OrphansOK'
  <2>1. ASSUME NEW v \in user'
        PROVE  (\E w \in webAuth : w.userId = v.id) \/ v.creation_date \in broken
    <3>1. PICK u \in user : u.id = v.id /\ u.creation_date = v.creation_date
      BY <1>3
    <3> QED BY <1>1, <3>1 DEF OrphansOK, Inserting
  <2> QED BY <1>2, <2>1 DEF OrphansOK
<1> QED BY <1>4, <1>5, <1>6, <1>7, <1>8

(* The other steps leave the tables as they are.                           *)
LEMMA OtherInv ==
  ASSUME AccountsInv,
         \/ \E cr \in Credentials : Begin(cr)
         \/ Uncaught \/ Finish
         \/ call.step \in {"idle", "terminated"} /\ Reconnect
         \/ UNCHANGED accountVars
  PROVE  AccountsInv'
<1> USE DEF AccountsInv
<1>1. /\ UNCHANGED << tables, inserted, swept >> /\ broken \subseteq broken'
      /\ dbUp' \in BOOLEAN
  <2>1. UNCHANGED << tables, inserted, swept >> /\ broken \subseteq broken'
    BY DEF Begin, Uncaught, Finish, Reconnect, accountVars
  <2>2. dbUp' \in {dbUp, TRUE, FALSE}
    BY DEF Begin, Uncaught, Finish, Reconnect, accountVars
  <2>3. dbUp' \in BOOLEAN
    BY <2>2, Zenon DEF AccountsTypeOK
  <2> QED BY <2>1, <2>3
<1>2. RowsOK' /\ AccountsOK'
  BY <1>1 DEF RowsOK, AccountsOK, MissingRowsWereSwept, tables
<1>3. NoCall.step = "idle"
  BY DEF NoCall
<1>4. CASE UNCHANGED << call, broken >>
  BY <1>1, <1>2, <1>4
     DEF AccountsTypeOK, SignUpOK, OwnRowThere, OrphansOK, Inserting, IsOwn, VerdictsOK, Matching, Registered, tables
<1>5. ASSUME call.step \in {"idle", "returned", "terminated"}, broken' = broken,
             call' = NoCall \/ (call' \in Calls /\ call'.step \in {"select_auth", "insert_user"})
      PROVE  AccountsInv'
  <2>1. call' \in Calls \union {NoCall} /\ call'.step \in {"idle", "select_auth", "insert_user"}
    BY <1>3, <1>5
  <2>2. AccountsTypeOK'
    BY <1>1, <1>5, <2>1 DEF AccountsTypeOK, tables
  <2>3. SignUpOK' /\ VerdictsOK'
    BY <2>1 DEF SignUpOK, VerdictsOK
  <2>4. OrphansOK'
    BY <1>1, <1>5 DEF OrphansOK, Inserting, tables
  <2> QED BY <1>2, <2>2, <2>3, <2>4
<1>6. CASE Uncaught
  <2>1. call \in Calls
    BY <1>6, Running DEF Uncaught
  <2>2. call' \in Calls /\ call'.step = "terminated"
    BY <1>6, <2>1, ProceedFacts DEF Uncaught
  <2>3. /\ Inserting => broken' = broken \union {call.now}
        /\ broken' \subseteq broken \union {call.now}
    BY <1>6 DEF Uncaught, Inserting
  <2>4. AccountsTypeOK'
    BY <1>1, <2>1, <2>2, <2>3 DEF AccountsTypeOK, tables, Calls
  <2>5. SignUpOK' /\ VerdictsOK'
    BY <2>2 DEF SignUpOK, VerdictsOK
  <2>6. OrphansOK'
    BY <1>1, <2>3 DEF OrphansOK, IsOwn, tables
  <2> QED BY <1>2, <2>4, <2>5, <2>6
<1>7. ASSUME NEW cr \in Credentials, Begin(cr)
      PROVE  call' \in Calls /\ call'.step \in {"select_auth", "insert_user"}
  BY <1>7, AccountsAssumption DEF Begin, Calls, Busy
<1>8. ASSUME NEW cr \in Credentials, Begin(cr) PROVE AccountsInv'
  <2>1. call.step = "idle" /\ broken' = broken
    BY <1>8 DEF Begin
  <2> QED BY <1>5, <1>7, <1>8, <2>1
<1>9. CASE Finish
  <2>1. call.step = "returned" /\ broken' = broken /\ call' = NoCall
    BY <1>9 DEF Finish
  <2> QED BY <1>5, <2>1
<1>10. CASE call.step \in {"idle", "terminated"} /\ Reconnect
  <2>1. call.step \in {"idle", "terminated"} /\ broken' = broken /\ call' = NoCall
    BY <1>10 DEF Reconnect
  <2> QED BY <1>5, <2>1
<1>11. CASE UNCHANGED accountVars
  BY <1>4, <1>11 DEF accountVars
<1> QED BY <1>6, <1>8, <1>9, <1>10, <1>11

LEMMA AccountStepInv ==
  ASSUME AccountsInv, AccountStep
  PROVE  AccountsInv'
BY InsertUserInv, SelectUserInv, InsertAuthInv, DeleteUserInv, SelectAuthInv, UpdateLoginInv, OtherInv
   DEF AccountStep, Statement

-----------------------------------------------------------------------------
(* The process: connections, requests and answers.                         *)

(* What TypeOK says of the running function, and: there is somebody to     *)
(* accept, and a function is running or was terminated only where main is  *)
(* said to be.                                                             *)
ProcessOK ==
  /\ pc = "call" => /\ call.step \notin {"idle", "terminated"} /\ request # NoRequest
                    /\ call.of = [action |-> request.action, email |-> request.username,
                                  password |-> request.password]
  /\ pc \notin {"call", "ended"} => call = NoCall /\ request = NoRequest
  /\ pc = "accept" => backlog # << >>
  /\ pc = "ended" => call.step \in {"idle", "terminated"}

(* The type invariant, strengthened.                                       *)
ITypeOK == AccountsInv /\ ServerTypeOK /\ ProcessOK

Stream == Seq(Requests \union {Remainder})

-----------------------------------------------------------------------------
(* Requests.                                                               *)

LEMMA RequestIsNoRemainder ==
  ASSUME NEW m \in Requests \union {Remainder}
  PROVE  /\ m.type = "Request" <=> m # Remainder
         /\ m.type = "Request" <=> m \in Requests
BY DEF Requests, Remainder

(* What a peer sends is a request.                                         *)
LEMMA RequestType ==
  ASSUME NEW e \in Emails, NEW p \in Passwords, NEW c \in Conns, NEW n \in Nat,
         NEW r \in {LoginRequest(e, p, c, n), SignUpRequest(e, p, c, n)}
  PROVE  r \in Requests /\ r.by = c /\ r.number = n
BY DEF LoginRequest, SignUpRequest, Requests

LEMMA AnswerType ==
  ASSUME NEW r \in Requests, NEW ok \in BOOLEAN
  PROVE  /\ AnswerOf(r, ok) \in Answers
         /\ AnswerOf(r, ok).by = r.by /\ AnswerOf(r, ok).number = r.number
BY DEF AnswerOf, Requests, Answers

(* What stays in a stream are its requests after the n-th, perhaps behind  *)
(* the remainder of that one.                                              *)
LEMMA StillUnreadFacts ==
  ASSUME NEW s \in Stream, NEW n \in 1 .. Len(s), NEW cut \in BOOLEAN
  PROVE  \E d \in {0, 1} :
           LET t == StillUnread(s, n, cut) IN
           /\ t \in Stream
           /\ Len(t) = Len(s) - n + d
           /\ \A k \in 1 .. Len(t) : t[k] = IF k <= d THEN Remainder ELSE s[n + k - d]
<1> DEFINE S == Requests \union {Remainder}
           rest == SubSeq(s, n + 1, Len(s))
           first == IF cut THEN << Remainder >> ELSE << >>
           d == IF cut THEN 1 ELSE 0
<1>1. Len(s) \in Nat /\ n \in Nat /\ n <= Len(s) /\ n + 1 \in 1 .. Len(s) + 1 /\ Len(s) \in 0 .. Len(s)
  BY LenProperties DEF Stream
<1>2. /\ rest \in Seq(S) /\ Len(rest) = Len(s) - n
      /\ \A j \in 1 .. Len(s) - n : rest[j] = s[n + j]
  <2> HIDE DEF S
  <2>1. /\ SubSeq(s, n + 1, Len(s)) \in Seq(S)
        /\ Len(SubSeq(s, n + 1, Len(s))) = IF n + 1 <= Len(s) THEN Len(s) - (n + 1) + 1 ELSE 0
        /\ \A j \in 1 .. Len(s) - (n + 1) + 1 : SubSeq(s, n + 1, Len(s))[j] = s[n + 1 + j - 1]
    BY <1>1, PartOfSeq DEF Stream, S
  <2>2. \A j \in 1 .. Len(s) - n : j \in 1 .. Len(s) - (n + 1) + 1 /\ n + 1 + j - 1 = n + j
    BY <1>1
  <2> QED BY <1>1, <2>1, <2>2
<1>3. /\ first \in Seq(S) /\ Len(first) = d /\ d \in {0, 1}
      /\ \A j \in 1 .. d : first[j] = Remainder
  <2>1. Remainder \in S
    OBVIOUS
  <2> HIDE DEF S
  <2>2. CASE cut
    <3>1. first = << Remainder >> /\ d = 1
      BY <2>2
    <3> HIDE DEF first, d
    <3> QED BY <2>1, <3>1
  <2>3. CASE ~ cut
    <3>1. first = << >> /\ d = 0
      BY <2>3
    <3> HIDE DEF first, d
    <3> QED BY <3>1
  <2> QED BY <2>2, <2>3
<1>4. StillUnread(s, n, cut) = first \o rest
  BY DEF StillUnread
<1> HIDE DEF S, rest, first, d
<1>5. /\ first \o rest \in Seq(S) /\ Len(first \o rest) = Len(first) + Len(rest)
      /\ \A j \in 1 .. Len(first) + Len(rest) :
           (first \o rest)[j] = IF j <= Len(first) THEN first[j] ELSE rest[j - Len(first)]
  <2>1. first \in Seq(S) /\ rest \in Seq(S)
    BY <1>2, <1>3
  <2> QED BY <2>1, ConcatProperties
<1>6. Len(first) + Len(rest) = Len(s) - n + d
  BY <1>1, <1>2, <1>3
<1>7. ASSUME NEW j \in 1 .. Len(s) - n + d
      PROVE  (first \o rest)[j] = IF j <= d THEN Remainder ELSE s[n + j - d]
  <2>1. CASE j <= d
    <3>1. j \in 1 .. d
      BY <1>1, <1>3, <2>1
    <3> QED BY <1>3, <1>5, <1>6, <2>1, <3>1
  <2>2. CASE ~ (j <= d)
    <3>1. j - d \in 1 .. Len(s) - n /\ n + (j - d) = n + j - d
      BY <1>1, <1>3, <2>2
    <3>2. (first \o rest)[j] = rest[j - d]
      BY <1>3, <1>5, <1>6, <2>2
    <3>3. rest[j - d] = s[n + (j - d)]
      BY <1>2, <3>1
    <3> QED BY <2>2, <3>1, <3>2, <3>3
  <2> QED BY <2>1, <2>2
<1>8. Len(first \o rest) = Len(s) - n + d
  BY <1>5, <1>6
<1>9. first \o rest \in Stream
  BY <1>5 DEF Stream, S
<1> DEFINE t == StillUnread(s, n, cut)
<1>10. t = first \o rest
  BY <1>4
<1> HIDE DEF t
<1>11. /\ t \in Stream /\ Len(t) = Len(s) - n + d
       /\ \A k \in 1 .. Len(t) : t[k] = IF k <= d THEN Remainder ELSE s[n + k - d]
  BY <1>7, <1>8, <1>9, <1>10
<1> QED BY <1>3, <1>11 DEF t

(* The request that is processed is the last one received.                 *)
LEMMA ServedFacts ==
  ASSUME NEW s \in Stream, NEW n \in 1 .. Len(s), NEW cut \in BOOLEAN,
         Parses(SubSeq(s, 1, n), cut)
  PROVE  ReadRequests(SubSeq(s, 1, n)) = s[n] /\ s[n] \in Requests
<1>1. Len(s) \in Nat /\ 1 \in 1 .. Len(s) + 1 /\ n \in 0 .. Len(s) /\ 1 <= n
  BY LenProperties DEF Stream
<1>2. /\ Len(SubSeq(s, 1, n)) = IF 1 <= n THEN n - 1 + 1 ELSE 0
      /\ \A j \in 1 .. n - 1 + 1 : SubSeq(s, 1, n)[j] = s[1 + j - 1]
  BY <1>1, PartOfSeq DEF Stream
<1>3. Len(SubSeq(s, 1, n)) = n /\ n \in 1 .. n - 1 + 1 /\ 1 + n - 1 = n
  BY <1>1, <1>2
<1>4. SubSeq(s, 1, n)[n] = s[n]
  BY <1>2, <1>3
<1>5. s[n] \in Requests \union {Remainder}
  BY ElementOfSeq DEF Stream
<1>6. s[n].type = "Request"
  BY <1>1, <1>3, <1>4 DEF Parses
<1> QED BY <1>3, <1>4, <1>5, <1>6, RequestIsNoRemainder DEF ReadRequests

-----------------------------------------------------------------------------
(* Types.  A step of the server is one of AccountProofs, keeps the types   *)
(* of the server and runs functions only where it should.                  *)
Sound == AccountStep /\ ServerTypeOK' /\ ProcessOK'

LEMMA InitOK == Init => ITypeOK
<1> SUFFICES ASSUME Init PROVE ITypeOK
  OBVIOUS
<1>1. /\ user = {} /\ webAuth = {} /\ nextId = 1 /\ dbUp = TRUE
      /\ call = NoCall /\ call.step = "idle" /\ inserted = {} /\ swept = {} /\ broken = {}
  BY DEF Init, AccountsInit, NoCall
<1>2. AccountsInv
  BY <1>1 DEF AccountsInv, AccountsTypeOK, RowsOK, AccountsOK, MissingRowsWereSwept,
              SignUpOK, OrphansOK, VerdictsOK
<1>3. /\ << >> \in Seq(Conns) /\ << >> \in Seq(Answers)
      /\ << >> \in Seq(Requests \union {Remainder})
  OBVIOUS
<1>4. /\ pc = "top" /\ i = 1 /\ isOn = TRUE /\ listening = TRUE
      /\ clientArray = << >> /\ acceptSocket = NoSocket /\ readSet = {}
      /\ request = NoRequest
      /\ backlog = << >> /\ link = [c \in Conns |-> "idle"]
      /\ inbound = [c \in Conns |-> << >>] /\ outbound = [c \in Conns |-> << >>]
      /\ sent = [c \in Conns |-> 0]
      /\ accepted = << >> /\ ended = {} /\ escaped = FALSE
  BY DEF Init
<1>5. ServerTypeOK
  <2>1. /\ link \in [Conns -> {"idle", "open", "fin", "rst"}] /\ sent \in [Conns -> Nat]
        /\ inbound \in [Conns -> Seq(Requests \union {Remainder})]
        /\ outbound \in [Conns -> Seq(Answers)]
    BY <1>3, <1>4
  <2>2. isOn \in BOOLEAN /\ listening \in BOOLEAN /\ escaped \in BOOLEAN
    BY <1>4, Zenon
  <2>3. clientArray \in Seq(Conns) /\ backlog \in Seq(Conns) /\ accepted \in Seq(Conns)
    BY <1>3, <1>4
  <2>4. /\ pc = "top" /\ i \in Nat \ {0} /\ acceptSocket = NoSocket /\ readSet = {}
        /\ request = NoRequest /\ ended = {}
    BY <1>4
  <2> QED BY <2>1, <2>2, <2>3, <2>4 DEF ServerTypeOK
<1>6. ProcessOK
  BY <1>1, <1>4 DEF ProcessOK
<1> QED BY <1>2, <1>5, <1>6 DEF ITypeOK

(* The entries of ClientArray.                                             *)
LEMMA ClientRange ==
  ASSUME ServerTypeOK
  PROVE  /\ Range(clientArray) = {clientArray[k] : k \in 1 .. Len(clientArray)}
         /\ Range(clientArray) \subseteq Conns
<1>1. clientArray \in Seq(Conns)
  BY DEF ServerTypeOK
<1>2. Range(clientArray) = {clientArray[k] : k \in 1 .. Len(clientArray)}
  BY <1>1, RangeEquality
<1>3. \A k \in 1 .. Len(clientArray) : clientArray[k] \in Conns
  BY <1>1, ElementOfSeq
<1> QED BY <1>2, <1>3

(* closeServer.                                                            *)
LEMMA CloseServerTypes ==
  ASSUME ServerTypeOK, CloseServer
  PROVE  /\ isOn' = FALSE /\ listening' = FALSE /\ backlog' = << >>
         /\ backlog' \in Seq(Conns) /\ link' \in [Conns -> {"idle", "open", "fin", "rst"}]
         /\ inbound' \in [Conns -> Seq(Requests \union {Remainder})]
<1>1. << >> \in Seq(Conns) /\ << >> \in Seq(Requests \union {Remainder})
  OBVIOUS
<1> QED BY <1>1 DEF CloseServer

(* The peers.                                                              *)
LEMMA EnvironmentSound ==
  ASSUME ITypeOK, Environment
  PROVE  Sound
<1> USE DEF ITypeOK
<1>1. ASSUME NEW c \in Conns, Connect(c) PROVE Sound
  <2>1. UNCHANGED << accountVars, loopVars, history, inbound, outbound, sent >> /\ backlog' = Append(backlog, c)
    BY <1>1 DEF Connect
  <2>2. backlog' \in Seq(Conns) /\ backlog' # << >>
    <3>1. backlog \in Seq(Conns)
      BY DEF ServerTypeOK
    <3> QED BY <2>1, <3>1, AppendProperties
  <2>3. ServerTypeOK'
    BY <1>1, <2>1, <2>2 DEF ServerTypeOK, Connect, loopVars, history
  <2> QED BY <2>1, <2>2, <2>3 DEF Sound, AccountStep, ProcessOK, loopVars, accountVars
<1>2. ASSUME NEW c \in Conns, PeerSend(c) PROVE Sound
  <2>1. /\ UNCHANGED << accountVars, loopVars, history, backlog, link, outbound >>
        /\ sent' = [sent EXCEPT ![c] = @ + 1]
    BY <1>2 DEF PeerSend
  <2>2. sent' \in [Conns -> Nat] /\ sent'[c] \in Nat
    BY <2>1 DEF ServerTypeOK
  <2>3. PICK r \in Requests : inbound' = [inbound EXCEPT ![c] = Append(@, r)]
    BY <1>2, <2>2, RequestType DEF PeerSend
  <2>4. Append(inbound[c], r) \in Seq(Requests \union {Remainder})
    BY AppendProperties DEF ServerTypeOK
  <2>5. ServerTypeOK'
    BY <2>1, <2>2, <2>3, <2>4 DEF ServerTypeOK, loopVars, history
  <2> QED BY <2>1, <2>5 DEF Sound, AccountStep, ProcessOK, loopVars, accountVars
<1>3. ASSUME NEW c \in Conns, PeerEnds(c) PROVE Sound
  <2>1. /\ UNCHANGED << accountVars, loopVars, backlog, outbound, sent, accepted, escaped >>
        /\ ended' = ended \union {c}
        /\ link' \in [Conns -> {"idle", "open", "fin", "rst"}]
    BY <1>3 DEF PeerEnds, ServerTypeOK
  <2>2. inbound' = inbound \/ inbound' = [inbound EXCEPT ![c] = << >>]
    BY <1>3 DEF PeerEnds
  <2>3. inbound' \in [Conns -> Seq(Requests \union {Remainder})]
    <3>1. << >> \in Seq(Requests \union {Remainder})
      OBVIOUS
    <3>2. inbound \in [Conns -> Seq(Requests \union {Remainder})]
      BY DEF ServerTypeOK
    <3> QED BY <2>2, <3>1, <3>2
  <2>4. ServerTypeOK'
    BY <2>1, <2>3 DEF ServerTypeOK, loopVars
  <2> QED BY <2>1, <2>4 DEF Sound, AccountStep, ProcessOK, loopVars, accountVars
<1>4. CASE Restart
  <2>1. /\ pc = "ended" /\ Reconnect /\ UNCHANGED << netVars, accepted, ended >> /\ escaped' = FALSE
        /\ pc' = "top" /\ i' = 1 /\ isOn' = TRUE /\ listening' = TRUE
        /\ clientArray' = << >> /\ acceptSocket' = NoSocket /\ readSet' = {} /\ request' = NoRequest
    BY <1>4 DEF Restart
  <2>2. call' = NoCall
    BY <2>1 DEF Reconnect
  <2>3. << >> \in Seq(Conns)
    OBVIOUS
  <2>4. ServerTypeOK'
    <3>1. isOn' \in BOOLEAN /\ listening' \in BOOLEAN /\ escaped' \in BOOLEAN
      BY <2>1, Zenon
    <3>2. clientArray' \in Seq(Conns) /\ i' \in Nat \ {0} /\ readSet' \subseteq Conns
      BY <2>1, <2>3
    <3> QED BY <2>1, <3>1, <3>2 DEF ServerTypeOK, netVars
  <2> QED BY <2>1, <2>2, <2>4 DEF Sound, AccountStep, ProcessOK
<1> QED BY <1>1, <1>2, <1>3, <1>4 DEF Environment

(* The top of main's loop.                                                 *)
LEMMA TopSound ==
  ASSUME ITypeOK, Exit \/ Select \/ Accept
  PROVE  Sound
<1> USE DEF ITypeOK
<1>1. CASE Exit
  <2>1. /\ pc = "top" /\ pc' = "ended" /\ CloseServer
        /\ UNCHANGED << accountVars, history, outbound, sent, i, clientArray, acceptSocket, readSet, request >>
    BY <1>1 DEF Exit
  <2>2. call = NoCall /\ call' = call /\ call.step = "idle"
    BY <2>1 DEF ProcessOK, accountVars, NoCall
  <2>3. ServerTypeOK'
    BY <2>1, CloseServerTypes DEF ServerTypeOK, history
  <2> QED BY <2>1, <2>2, <2>3 DEF Sound, AccountStep, ProcessOK
<1>2. CASE Select
  <2>1. /\ pc = "top" /\ escaped' \in BOOLEAN /\ isOn' = ~escaped'
        /\ pc' = IF backlog # << >> THEN "accept" ELSE "serve"
        /\ UNCHANGED << accountVars, netVars, i, listening, clientArray, acceptSocket, request, accepted, ended >>
    BY <1>2 DEF Select
  <2>2. readSet' \subseteq Range(clientArray)
    BY <1>2 DEF Select
  <2>3. Range(clientArray) \subseteq Conns
    BY ClientRange
  <2>4. ServerTypeOK'
    BY <2>1, <2>2, <2>3 DEF ServerTypeOK, netVars
  <2> QED BY <2>1, <2>4 DEF Sound, AccountStep, ProcessOK, netVars, accountVars
<1>3. CASE Accept
  <2>1. /\ pc = "accept" /\ backlog' = Tail(backlog) /\ pc' \in {"serve", "top"}
        /\ UNCHANGED << accountVars, i, isOn, listening, request, link, inbound, outbound, sent, ended, escaped >>
    BY <1>3 DEF Accept
  <2>2. backlog # << >> /\ Head(backlog) \in Conns /\ backlog' \in Seq(Conns)
    BY <2>1, HeadTailProperties DEF ProcessOK, ServerTypeOK
  <2>3. /\ clientArray' = clientArray \/ clientArray' = Append(clientArray, Head(backlog))
        /\ accepted' = accepted \/ accepted' = Append(accepted, Head(backlog))
        /\ acceptSocket' \in {Head(backlog), NoSocket} /\ readSet' \subseteq readSet
    BY <1>3 DEF Accept
  <2>4. clientArray' \in Seq(Conns) /\ accepted' \in Seq(Conns)
    <3>1. clientArray \in Seq(Conns) /\ accepted \in Seq(Conns)
      BY DEF ServerTypeOK
    <3>2. Append(clientArray, Head(backlog)) \in Seq(Conns) /\ Append(accepted, Head(backlog)) \in Seq(Conns)
      BY <2>2, <3>1, AppendProperties
    <3> QED BY <2>3, <3>1, <3>2
  <2>5. ServerTypeOK'
    BY <2>1, <2>2, <2>3, <2>4 DEF ServerTypeOK
  <2> QED BY <2>1, <2>5 DEF Sound, AccountStep, ProcessOK, accountVars
<1> QED BY <1>1, <1>2, <1>3

(* A turn of the loop is about an entry of ClientArray.                    *)
LEMMA TurnFacts ==
  ASSUME ServerTypeOK, NEW k, Turn(k)
  PROVE  /\ k \in 1 .. Len(clientArray) /\ clientArray[k] \in Conns
         /\ pc = "serve" /\ i' \in Nat \ {0}
<1>1. Len(clientArray) \in Nat /\ i \in Nat \ {0}
  BY LenProperties DEF ServerTypeOK
<1>2. k \in i .. Len(clientArray) /\ i' = k + 1 /\ pc = "serve"
  BY DEF Turn, Total
<1>3. k \in 1 .. Len(clientArray) /\ i' \in Nat \ {0}
  BY <1>1, <1>2
<1> QED BY <1>2, <1>3, ElementOfSeq DEF ServerTypeOK

(* The loop over the connections.                                          *)
LEMMA ServeSound ==
  ASSUME ITypeOK, EndServe \/ \E k \in 1 .. Total : ServeGone(k) \/ ServeRequest(k)
  PROVE  Sound
<1> USE DEF ITypeOK
<1>1. CASE EndServe
  <2>1. /\ pc = "serve" /\ pc' = "top" /\ i' = 1 /\ readSet' = {}
        /\ UNCHANGED << accountVars, netVars, history, isOn, listening, clientArray, acceptSocket, request >>
    BY <1>1 DEF EndServe
  <2> QED BY <2>1 DEF Sound, AccountStep, ProcessOK, ServerTypeOK, netVars, history, accountVars
<1>2. ASSUME NEW k, ServeGone(k) PROVE Sound
  <2>1. /\ Turn(k) /\ clientArray' = RemoveAt(clientArray, k)
        /\ UNCHANGED << accountVars, netVars, history, pc, isOn, listening, acceptSocket, readSet, request >>
    BY <1>2 DEF ServeGone, RemoveEntry
  <2>2. k \in 1 .. Len(clientArray) /\ i' \in Nat \ {0}
    BY <2>1, TurnFacts
  <2>3. clientArray' \in Seq(Conns)
    BY <2>1, <2>2, RemoveAtProperties DEF ServerTypeOK
  <2>4. ServerTypeOK'
    BY <2>1, <2>2, <2>3 DEF ServerTypeOK, netVars, history
  <2> QED BY <2>1, <2>4 DEF Sound, AccountStep, ProcessOK, netVars, accountVars
<1>3. ASSUME NEW k, ServeRequest(k) PROVE Sound
  <2> DEFINE c == clientArray[k]
  <2>1. /\ Turn(k)
        /\ UNCHANGED << history, isOn, listening, clientArray, acceptSocket, readSet, backlog, link, outbound, sent >>
    BY <1>3 DEF ServeRequest
  <2>2. c \in Conns /\ pc = "serve" /\ i' \in Nat \ {0}
    BY <2>1, TurnFacts
  <2>3. PICK n \in 1 .. Len(inbound[c]), cut \in BOOLEAN :
          /\ inbound' = [inbound EXCEPT ![c] = StillUnread(@, n, cut)]
          /\ IF Parses(SubSeq(inbound[c], 1, n), cut)
               THEN LET r == ReadRequests(SubSeq(inbound[c], 1, n)) IN
                    /\ request' = r /\ pc' = "call"
                    /\ Begin([action |-> r.action, email |-> r.username, password |-> r.password])
               ELSE UNCHANGED << accountVars, request, pc >>
    BY <1>3 DEF ServeRequest
  <2> HIDE DEF c
  <2>4. inbound[c] \in Stream /\ \A q \in Conns : inbound[q] \in Stream
    BY <2>2 DEF ServerTypeOK, Stream
  <2>5. StillUnread(inbound[c], n, cut) \in Stream
    BY <2>4, StillUnreadFacts
  <2>6. inbound' \in [Conns -> Seq(Requests \union {Remainder})]
    BY <2>2, <2>3, <2>5 DEF ServerTypeOK, Stream
  <2>7. CASE Parses(SubSeq(inbound[c], 1, n), cut)
    <3> DEFINE r == ReadRequests(SubSeq(inbound[c], 1, n))
               cr == [action |-> r.action, email |-> r.username, password |-> r.password]
    <3>1. r \in Requests
      BY <2>4, <2>7, ServedFacts
    <3>2. request' = r /\ pc' = "call" /\ Begin(cr)
      BY <2>3, <2>7
    <3>3. r # NoRequest /\ cr \in Credentials
      BY <3>1 DEF Requests, NoRequest, Credentials
    <3> HIDE DEF r
    <3>4. call'.of = cr /\ call'.step \in {"select_auth", "insert_user"}
      BY <3>2 DEF Begin
    <3>5. ServerTypeOK'
      BY <2>1, <2>2, <2>6, <3>1, <3>2 DEF ServerTypeOK, history
    <3>6. ProcessOK'
      BY <3>2, <3>3, <3>4 DEF ProcessOK
    <3> QED BY <3>2, <3>3, <3>5, <3>6 DEF Sound, AccountStep
  <2>8. CASE ~ Parses(SubSeq(inbound[c], 1, n), cut)
    <3>1. UNCHANGED << accountVars, request, pc >>
      BY <2>3, <2>8
    <3>2. ServerTypeOK'
      BY <2>1, <2>2, <2>6, <3>1 DEF ServerTypeOK, history
    <3> QED BY <2>1, <3>1, <3>2 DEF Sound, AccountStep, ProcessOK, accountVars
  <2> QED BY <2>7, <2>8
<1> QED BY <1>1, <1>2, <1>3

(* A statement goes on with the function it belongs to.                    *)
LEMMA StatementFacts ==
  ASSUME AccountsInv, Statement
  PROVE  /\ call.step \in Busy /\ call'.step \in Busy \union {"returned"}
         /\ call' \in Calls /\ call'.of = call.of
<1> USE DEF AccountsInv
<1>1. call.step \in Busy
  BY DEF Statement, InsertUser, SelectUser, InsertAuth, DeleteUser, SelectAuth, UpdateLogin, Busy
<1>2. call.step # "idle"
  BY <1>1 DEF Busy
<1>3. call \in Calls
  BY <1>2, Running
<1>4. \A s \in {"select_user", "insert_auth", "delete_user"} : s \in Busy
  BY DEF Busy
<1>5. CASE \E s \in {"select_user", "insert_auth", "delete_user"} : Proceed(s)
  BY <1>1, <1>3, <1>4, <1>5, ProceedFacts
<1>6. CASE Return(TRUE) \/ Return(FALSE)
  BY <1>1, <1>3, <1>6, ReturnFacts
<1>7. CASE InsertUser \/ InsertAuth \/ DeleteUser \/ UpdateLogin
  BY <1>5, <1>6, <1>7 DEF InsertUser, InsertAuth, DeleteUser, UpdateLogin
<1>8. CASE SelectUser
  <2>1. ASSUME NEW id \in LastId(OfSecond(call.now)),
               call' = [call EXCEPT !.step = "insert_auth", !.uid = id]
        PROVE  call' \in Calls /\ call'.of = call.of /\ call'.step \in Busy
    <3>1. id \in Nat
      BY <2>1 DEF LastId, OfSecond, AccountsTypeOK
    <3> QED BY <1>3, <2>1, <3>1 DEF Calls, Busy
  <2> QED BY <1>1, <1>5, <1>8, <2>1 DEF SelectUser
<1>9. CASE SelectAuth
  <2>1. ASSUME NEW w \in Matching(call.of.email, call.of.password),
               NEW now \in Seconds,
               call' = [call EXCEPT !.step = "update_login", !.uid = w.userId, !.now = now]
        PROVE  call' \in Calls /\ call'.of = call.of /\ call'.step \in Busy
    <3>1. w.userId \in Nat /\ now \in Nat
      BY AccountsAssumption DEF Matching, AccountsTypeOK
    <3> QED BY <1>3, <2>1, <3>1 DEF Calls, Busy
  <2> QED BY <1>1, <1>6, <1>9, <2>1 DEF SelectAuth
<1> QED BY <1>7, <1>8, <1>9 DEF Statement

(* The function's statements, its end and the answer.                      *)
LEMMA CallSound ==
  ASSUME ITypeOK, CallStep \/ Terminate \/ Answer
  PROVE  Sound
<1> USE DEF ITypeOK
<1>1. CASE CallStep
  <2>1. pc = "call" /\ Statement /\ UNCHANGED serverVars
    BY <1>1 DEF CallStep
  <2>2. call'.step \notin {"idle", "terminated"} /\ call'.of = call.of
    BY <2>1, StatementFacts DEF Busy
  <2>3. ServerTypeOK'
    BY <2>1 DEF ServerTypeOK, serverVars, loopVars, netVars, history
  <2>4. ProcessOK'
    BY <2>1, <2>2 DEF ProcessOK, serverVars, loopVars, netVars
  <2> QED BY <2>1, <2>3, <2>4 DEF Sound, AccountStep
<1>2. CASE Terminate
  <2>1. /\ pc' = "ended" /\ CloseServer /\ Uncaught
        /\ UNCHANGED << history, outbound, sent, i, clientArray, acceptSocket, readSet, request >>
    BY <1>2 DEF Terminate
  <2>2. call \in Calls
    BY <2>1, Running DEF AccountsInv, Uncaught
  <2>3. call'.step = "terminated"
    BY <2>1, <2>2, ProceedFacts DEF Uncaught
  <2>4. ServerTypeOK'
    BY <2>1, CloseServerTypes DEF ServerTypeOK, history
  <2> QED BY <2>1, <2>3, <2>4 DEF Sound, AccountStep, ProcessOK
<1>3. CASE Answer
  <2> DEFINE d == Addressee
             a == AnswerOf(request, call.ok)
  <2>1. /\ pc = "call" /\ Finish /\ pc' = "serve" /\ request' = NoRequest
        /\ UNCHANGED << sent, history, i, clientArray, acceptSocket, readSet >>
    BY <1>3 DEF Answer
  <2>2. call' = NoCall /\ call.step = "returned"
    BY <2>1 DEF Finish
  <2>3. call.ok \in BOOLEAN
    BY <2>2, Running DEF AccountsInv, Calls
  <2>4. a \in Answers
    BY <2>1, <2>3, AnswerType DEF ProcessOK, ServerTypeOK
  <2>5. \/ /\ d \in Range(clientArray) /\ outbound' = [outbound EXCEPT ![d] = Append(@, a)]
           /\ UNCHANGED << isOn, listening, backlog, link, inbound >>
        \/ /\ d \in Range(clientArray)
           /\ link' = [link EXCEPT ![d] = "rst"] /\ inbound' = [inbound EXCEPT ![d] = << >>]
           /\ UNCHANGED << isOn, listening, backlog, outbound >>
        \/ CloseServer /\ UNCHANGED outbound
    BY <1>3 DEF Answer
  <2>6. Range(clientArray) \subseteq Conns
    BY ClientRange
  <2> HIDE DEF d, a
  <2>7. outbound' \in [Conns -> Seq(Answers)]
    <3>1. ASSUME d \in Range(clientArray) PROVE Append(outbound[d], a) \in Seq(Answers)
      BY <2>4, <2>6, <3>1, AppendProperties DEF ServerTypeOK
    <3> QED BY <2>5, <2>6, <3>1 DEF ServerTypeOK
  <2>8. /\ backlog' \in Seq(Conns) /\ link' \in [Conns -> {"idle", "open", "fin", "rst"}]
        /\ inbound' \in [Conns -> Seq(Requests \union {Remainder})]
    <3>1. << >> \in Seq(Requests \union {Remainder})
      OBVIOUS
    <3> QED BY <2>5, <2>6, <3>1, CloseServerTypes DEF ServerTypeOK
  <2>9. isOn' \in {isOn, FALSE} /\ listening' \in {listening, FALSE}
    BY <2>5, CloseServerTypes
  <2>10. ServerTypeOK'
    <3>1. isOn' \in BOOLEAN /\ listening' \in BOOLEAN
      BY <2>9, Zenon DEF ServerTypeOK
    <3> QED BY <2>1, <2>7, <2>8, <3>1 DEF ServerTypeOK, history
  <2> QED BY <2>1, <2>2, <2>10 DEF Sound, AccountStep, ProcessOK
<1> QED BY <1>1, <1>2, <1>3

LEMMA NextSound ==
  ASSUME ITypeOK, [Next]_authVars
  PROVE  Sound
<1>1. CASE UNCHANGED authVars
  BY <1>1 DEF ITypeOK, Sound, AccountStep, ServerTypeOK, ProcessOK, authVars, serverVars, accountVars,
              loopVars, netVars, history
<1>2. CASE Next
  BY <1>2, EnvironmentSound, TopSound, ServeSound, CallSound DEF Next, ServerStep
<1> QED BY <1>1, <1>2

LEMMA NextOK == ITypeOK /\ [Next]_authVars => ITypeOK'
BY NextSound, AccountStepInv DEF Sound, ITypeOK

LEMMA TypeInvariant == Spec => []ITypeOK
BY InitOK, NextOK, PTL DEF Spec

-----------------------------------------------------------------------------
(* Where the answers go.  acceptSocket is the connection accepted last or  *)
(* none; what a connection has sent it has asked itself; and the request   *)
(* that is processed came from a connection that was accepted.             *)
LatestOK == acceptSocket \in Conns => accepted # << >> /\ acceptSocket = accepted[Len(accepted)]
EntriesAccepted == Range(clientArray) \subseteq Range(accepted)
OwnRequests ==
  \A c \in Conns : \A k \in 1 .. Len(inbound[c]) : inbound[c][k] \in Requests => inbound[c][k].by = c
AskerAccepted == request \in Requests => request.by \in Range(accepted)

ForwardOK == LatestOK /\ EntriesAccepted /\ OwnRequests /\ AskerAccepted /\ AnswersGoForward

(* accepted only grows.                                                    *)
AcceptedGrows ==
  \/ accepted' = accepted
  \/ \E c \in Conns : accepted' = Append(accepted, c)

LEMMA BeforeGrows ==
  ASSUME accepted \in Seq(Conns), AcceptedGrows, NEW c, NEW d, Before(c, d)
  PROVE  Before(c, d)'
<1>1. CASE accepted' = accepted
  BY <1>1 DEF Before
<1>2. ASSUME NEW e \in Conns, accepted' = Append(accepted, e)
      PROVE  Before(c, d)'
  <2>1. PICK j, k \in 1 .. Len(accepted) : j <= k /\ accepted[j] = c /\ accepted[k] = d
    BY DEF Before
  <2>2. /\ Len(Append(accepted, e)) = Len(accepted) + 1 /\ Len(accepted) \in Nat
        /\ \A m \in 1 .. Len(accepted) : Append(accepted, e)[m] = accepted[m]
    BY AppendProperties, LenProperties
  <2>3. j \in 1 .. Len(accepted') /\ k \in 1 .. Len(accepted')
    BY <1>2, <2>2
  <2> QED BY <1>2, <2>1, <2>2, <2>3 DEF Before
<1> QED BY <1>1, <1>2 DEF AcceptedGrows

(* A connection that was accepted was accepted no later than the last one. *)
LEMMA LastIsLatest ==
  ASSUME accepted \in Seq(Conns), accepted # << >>, NEW c \in Range(accepted)
  PROVE  Before(c, accepted[Len(accepted)])
<1>1. Range(accepted) = {accepted[j] : j \in 1 .. Len(accepted)}
  BY RangeEquality
<1>2. PICK j \in 1 .. Len(accepted) : accepted[j] = c
  BY <1>1
<1>3. Len(accepted) \in Nat
  BY LenProperties
<1>4. Len(accepted) \in 1 .. Len(accepted) /\ j <= Len(accepted)
  BY <1>3
<1> QED BY <1>2, <1>4 DEF Before

(* Steps that leave the answers alone and add no request of another.       *)
LEMMA ForwardKept ==
  ASSUME ServerTypeOK, ForwardOK, AcceptedGrows, OwnRequests', outbound' = outbound,
         \/ acceptSocket' = acceptSocket /\ accepted' = accepted
         \/ acceptSocket' = NoSocket
         \/ accepted' = Append(accepted, acceptSocket') /\ acceptSocket' \in Conns,
         Range(clientArray') \subseteq Range(accepted'),
         \/ request' = NoRequest
         \/ request' = request
         \/ request'.by \in Range(accepted)
  PROVE  ForwardOK'
<1>1. accepted \in Seq(Conns)
  BY DEF ServerTypeOK
<1>2. NoSocket \notin Conns /\ NoRequest \notin Requests
  BY ServerAssumption DEF NoRequest, Requests
<1>3. ASSUME NEW c \in Conns
      PROVE  /\ Range(Append(accepted, c)) = Range(accepted) \union {c}
             /\ Append(accepted, c) # << >> /\ Append(accepted, c)[Len(Append(accepted, c))] = c
  BY <1>1, AppendRange, AppendProperties
<1>4. Range(accepted) \subseteq Range(accepted')
  BY <1>3 DEF AcceptedGrows
<1>5. LatestOK'
  BY <1>2, <1>3 DEF ForwardOK, LatestOK
<1>6. AskerAccepted'
  BY <1>2, <1>4 DEF ForwardOK, AskerAccepted
<1>7. AnswersGoForward'
  BY <1>1, BeforeGrows DEF ForwardOK, AnswersGoForward
<1> QED BY <1>5, <1>6, <1>7 DEF ForwardOK, EntriesAccepted

(* Streams that lose messages keep to their connection's own.              *)
LEMMA OwnRequestsFewer ==
  ASSUME OwnRequests, \A c \in Conns : inbound'[c] = inbound[c] \/ inbound'[c] = << >>
  PROVE  OwnRequests'
<1> SUFFICES ASSUME NEW c \in Conns, NEW k \in 1 .. Len(inbound'[c]), inbound'[c][k] \in Requests
             PROVE  inbound'[c][k].by = c
  BY DEF OwnRequests
<1>1. CASE inbound'[c] = inbound[c]
  BY <1>1 DEF OwnRequests
<1>2. CASE inbound'[c] = << >>
  BY <1>2
<1> QED BY <1>1, <1>2

LEMMA EnvironmentForward ==
  ASSUME ITypeOK, ForwardOK, Environment
  PROVE  ForwardOK'
<1> USE DEF ITypeOK
<1>1. OwnRequests /\ Range(clientArray) \subseteq Range(accepted)
  BY DEF ForwardOK, EntriesAccepted
<1>2. ASSUME NEW c \in Conns, Connect(c) \/ PeerEnds(c) PROVE ForwardOK'
  <2>1. UNCHANGED << loopVars, outbound, accepted >>
    BY <1>2 DEF Connect, PeerEnds, history
  <2>2. \A q \in Conns : inbound'[q] = inbound[q] \/ inbound'[q] = << >>
    BY <1>2 DEF Connect, PeerEnds, ServerTypeOK
  <2>3. OwnRequests'
    BY <1>1, <2>2, OwnRequestsFewer
  <2> QED BY <1>1, <2>1, <2>3, ForwardKept DEF loopVars, AcceptedGrows
<1>3. ASSUME NEW c \in Conns, PeerSend(c) PROVE ForwardOK'
  <2>1. UNCHANGED << loopVars, outbound, accepted >> /\ sent' = [sent EXCEPT ![c] = @ + 1]
    BY <1>3 DEF PeerSend, history
  <2>2. sent'[c] \in Nat
    BY <2>1 DEF ServerTypeOK
  <2>3. PICK r \in Requests : r.by = c /\ inbound' = [inbound EXCEPT ![c] = Append(@, r)]
    <3>1. PICK e \in Emails, p \in Passwords :
            \E r \in {LoginRequest(e, p, c, sent'[c]), SignUpRequest(e, p, c, sent'[c])} :
              inbound' = [inbound EXCEPT ![c] = Append(@, r)]
      BY <1>3 DEF PeerSend
    <3>2. \A r \in {LoginRequest(e, p, c, sent'[c]), SignUpRequest(e, p, c, sent'[c])} :
            r \in Requests /\ r.by = c
      BY <2>2, RequestType
    <3> QED BY <3>1, <3>2
  <2>4. /\ Append(inbound[c], r) # << >> /\ Len(Append(inbound[c], r)) = Len(inbound[c]) + 1
        /\ \A k \in 1 .. Len(inbound[c]) : Append(inbound[c], r)[k] = inbound[c][k]
        /\ Append(inbound[c], r)[Len(inbound[c]) + 1] = r /\ Len(inbound[c]) \in Nat
    <3>1. inbound[c] \in Seq(Requests \union {Remainder})
      BY DEF ServerTypeOK
    <3> QED BY <3>1, AppendProperties, LenProperties
  <2>5. OwnRequests'
    <3>1. ASSUME NEW k \in 1 .. Len(inbound[c]) + 1, Append(inbound[c], r)[k] \in Requests
          PROVE  Append(inbound[c], r)[k].by = c
      <4>1. k \in 1 .. Len(inbound[c]) \/ k = Len(inbound[c]) + 1
        BY <2>4
      <4> QED BY <1>1, <2>3, <2>4, <3>1, <4>1 DEF OwnRequests
    <3>2. inbound'[c] = Append(inbound[c], r) /\ \A q \in Conns : q # c => inbound'[q] = inbound[q]
      BY <2>3 DEF ServerTypeOK
    <3> QED BY <1>1, <2>4, <3>1, <3>2 DEF OwnRequests
  <2> QED BY <1>1, <2>1, <2>5, ForwardKept DEF loopVars, AcceptedGrows
<1>4. CASE Restart
  <2>1. /\ UNCHANGED << inbound, outbound, accepted >> /\ clientArray' = << >>
        /\ acceptSocket' = NoSocket /\ request' = NoRequest
    BY <1>4 DEF Restart, netVars
  <2>2. Range(clientArray') = {}
    BY <2>1 DEF Range
  <2>3. OwnRequests'
    BY <1>1, <2>1 DEF OwnRequests
  <2> QED BY <2>1, <2>2, <2>3, ForwardKept DEF AcceptedGrows
<1> QED BY <1>2, <1>3, <1>4 DEF Environment

LEMMA TopForward ==
  ASSUME ITypeOK, ForwardOK, Exit \/ Select \/ EndServe \/ Accept
  PROVE  ForwardOK'
<1> USE DEF ITypeOK
<1>1. OwnRequests /\ Range(clientArray) \subseteq Range(accepted)
  BY DEF ForwardOK, EntriesAccepted
<1>2. CASE Exit \/ Select \/ EndServe
  <2>1. UNCHANGED << outbound, accepted, clientArray, acceptSocket, request >>
    BY <1>2 DEF Exit, Select, EndServe, history, netVars
  <2>2. \A q \in Conns : inbound'[q] = inbound[q] \/ inbound'[q] = << >>
    BY <1>2 DEF Exit, Select, EndServe, CloseServer, netVars
  <2>3. OwnRequests'
    BY <1>1, <2>2, OwnRequestsFewer
  <2> QED BY <1>1, <2>1, <2>3, ForwardKept DEF AcceptedGrows
<1>3. CASE Accept
  <2> DEFINE c == Head(backlog)
  <2>1. UNCHANGED << request, inbound, outbound >> /\ pc = "accept"
    BY <1>3 DEF Accept
  <2>2. OwnRequests'
    BY <1>1, <2>1 DEF OwnRequests
  <2>3. c \in Conns
    BY <2>1, HeadTailProperties DEF ProcessOK, ServerTypeOK
  <2>4. \/ /\ clientArray' = Append(clientArray, c) /\ acceptSocket' = c
           /\ accepted' = Append(accepted, c)
        \/ acceptSocket' = NoSocket /\ UNCHANGED << clientArray, accepted >>
    BY <1>3 DEF Accept
  <2> HIDE DEF c
  <2>5. clientArray \in Seq(Conns) /\ accepted \in Seq(Conns)
    BY DEF ServerTypeOK
  <2>6. /\ Range(Append(clientArray, c)) = Range(clientArray) \union {c}
        /\ Range(Append(accepted, c)) = Range(accepted) \union {c}
    BY <2>3, <2>5, AppendRange
  <2> QED BY <1>1, <2>1, <2>2, <2>3, <2>4, <2>6, ForwardKept DEF AcceptedGrows
<1> QED BY <1>2, <1>3

LEMMA ServeForward ==
  ASSUME ITypeOK, ForwardOK, \E k \in 1 .. Total : ServeGone(k) \/ ServeRequest(k)
  PROVE  ForwardOK'
<1> USE DEF ITypeOK
<1>1. OwnRequests /\ Range(clientArray) \subseteq Range(accepted) /\ clientArray \in Seq(Conns)
  BY DEF ForwardOK, EntriesAccepted, ServerTypeOK
<1>2. ASSUME NEW k, ServeGone(k) PROVE ForwardOK'
  <2>1. /\ Turn(k) /\ clientArray' = RemoveAt(clientArray, k)
        /\ UNCHANGED << inbound, outbound, accepted, acceptSocket, request >>
    BY <1>2 DEF ServeGone, RemoveEntry, netVars, history
  <2>2. k \in 1 .. Len(clientArray)
    BY <2>1, TurnFacts
  <2>3. Range(clientArray') \subseteq Range(clientArray)
    BY <1>1, <2>1, <2>2, RemoveAtRange, RangeEquality
  <2>4. OwnRequests'
    BY <1>1, <2>1 DEF OwnRequests
  <2> QED BY <1>1, <2>1, <2>3, <2>4, ForwardKept DEF AcceptedGrows
<1>3. ASSUME NEW k, ServeRequest(k) PROVE ForwardOK'
  <2> DEFINE c == clientArray[k]
  <2>1. Turn(k) /\ UNCHANGED << outbound, accepted, acceptSocket, clientArray >>
    BY <1>3 DEF ServeRequest, history
  <2>2. c \in Conns /\ c \in Range(clientArray)
    BY <2>1, TurnFacts, ClientRange
  <2>3. PICK n \in 1 .. Len(inbound[c]), cut \in BOOLEAN :
          /\ inbound' = [inbound EXCEPT ![c] = StillUnread(@, n, cut)]
          /\ IF Parses(SubSeq(inbound[c], 1, n), cut)
               THEN request' = ReadRequests(SubSeq(inbound[c], 1, n))
               ELSE request' = request
    BY <1>3 DEF ServeRequest
  <2> HIDE DEF c
  <2>4. inbound[c] \in Stream
    BY <2>2 DEF ServerTypeOK, Stream
  <2>5. \/ request' = request
        \/ request'.by = c
    <3>1. CASE Parses(SubSeq(inbound[c], 1, n), cut)
      <4>1. request' = inbound[c][n] /\ request' \in Requests
        BY <2>3, <2>4, <3>1, ServedFacts
      <4> QED BY <1>1, <2>2, <4>1 DEF OwnRequests
    <3> QED BY <2>3, <3>1
  <2>6. OwnRequests'
    <3> DEFINE t == StillUnread(inbound[c], n, cut)
    <3>1. PICK d \in {0, 1} :
            /\ Len(t) = Len(inbound[c]) - n + d
            /\ \A j \in 1 .. Len(t) : t[j] = IF j <= d THEN Remainder ELSE inbound[c][n + j - d]
      BY <2>4, StillUnreadFacts
    <3>2. inbound'[c] = t /\ \A q \in Conns : q # c => inbound'[q] = inbound[q]
      BY <2>2, <2>3 DEF ServerTypeOK
    <3> HIDE DEF t
    <3>3. Len(inbound[c]) \in Nat /\ Remainder \notin Requests
      BY <2>4, LenProperties DEF Stream, Remainder, Requests
    <3>4. ASSUME NEW j \in 1 .. Len(t), t[j] \in Requests PROVE t[j].by = c
      <4>1. ~ (j <= d)
        BY <3>1, <3>3, <3>4
      <4>2. n + j - d \in 1 .. Len(inbound[c])
        BY <3>1, <3>3, <4>1
      <4> QED BY <1>1, <2>2, <3>1, <3>4, <4>1, <4>2 DEF OwnRequests
    <3> QED BY <1>1, <3>2, <3>4 DEF OwnRequests
  <2> QED BY <1>1, <2>1, <2>2, <2>5, <2>6, ForwardKept DEF AcceptedGrows
<1> QED BY <1>2, <1>3

LEMMA CallForward ==
  ASSUME ITypeOK, ForwardOK, CallStep \/ Terminate \/ Answer
  PROVE  ForwardOK'
<1> USE DEF ITypeOK
<1>1. /\ OwnRequests /\ Range(clientArray) \subseteq Range(accepted)
      /\ accepted \in Seq(Conns) /\ Range(clientArray) \subseteq Conns
  BY ClientRange DEF ForwardOK, EntriesAccepted, ServerTypeOK
<1>2. /\ UNCHANGED << accepted, clientArray, acceptSocket >>
      /\ request' = request \/ request' = NoRequest
      /\ \A q \in Conns : inbound'[q] = inbound[q] \/ inbound'[q] = << >>
  <2>1. UNCHANGED << accepted, clientArray, acceptSocket >> /\ (request' = request \/ request' = NoRequest)
    BY DEF CallStep, Terminate, Answer, serverVars, loopVars, history
  <2>2. CASE CallStep \/ Terminate
    BY <2>1, <2>2 DEF CallStep, Terminate, CloseServer, serverVars, netVars
  <2>3. CASE Answer
    BY <2>1, <2>3 DEF Answer, CloseServer, ServerTypeOK
  <2> QED BY <2>1, <2>2, <2>3
<1>3. OwnRequests'
  BY <1>1, <1>2, OwnRequestsFewer
<1>4. CASE outbound' = outbound
  BY <1>1, <1>2, <1>3, <1>4, ForwardKept DEF AcceptedGrows
<1>5. CASE outbound' # outbound
  <2> DEFINE a == AnswerOf(request, call.ok)
             d == acceptSocket
  <2>1. /\ d \in Range(clientArray) /\ outbound' = [outbound EXCEPT ![d] = Append(@, a)]
        /\ pc = "call" /\ call.step = "returned"
    BY <1>5 DEF CallStep, Terminate, Answer, Finish, Addressee, serverVars, netVars
  <2>2. call.ok \in BOOLEAN /\ request \in Requests
    BY <2>1, Running DEF AccountsInv, Calls, ProcessOK, ServerTypeOK
  <2>3. a \in Answers /\ a.by = request.by
    BY <2>2, AnswerType
  <2>4. d \in Conns /\ outbound[d] \in Seq(Answers) /\ outbound \in [Conns -> Seq(Answers)]
    BY <1>1, <2>1 DEF ServerTypeOK
  <2> HIDE DEF a
  <2>5. Before(a.by, d)
    <3>1. accepted # << >> /\ d = accepted[Len(accepted)]
      BY <2>4 DEF ForwardOK, LatestOK
    <3>2. a.by \in Range(accepted)
      BY <2>2, <2>3 DEF ForwardOK, AskerAccepted
    <3> QED BY <1>1, <3>1, <3>2, LastIsLatest
  <2>6. /\ Len(Append(outbound[d], a)) = Len(outbound[d]) + 1 /\ Len(outbound[d]) \in Nat
        /\ \A k \in 1 .. Len(outbound[d]) : Append(outbound[d], a)[k] = outbound[d][k]
        /\ Append(outbound[d], a)[Len(outbound[d]) + 1] = a
    BY <2>3, <2>4, AppendProperties, LenProperties
  <2> HIDE DEF d
  <2>7. AnswersGoForward'
    <3>1. ASSUME NEW k \in 1 .. Len(outbound[d]) + 1
          PROVE  Before(Append(outbound[d], a)[k].by, d)
      <4>1. k \in 1 .. Len(outbound[d]) \/ k = Len(outbound[d]) + 1
        BY <2>6
      <4> QED BY <2>4, <2>5, <2>6, <4>1 DEF ForwardOK, AnswersGoForward
    <3>2. outbound'[d] = Append(outbound[d], a) /\ \A q \in Conns : q # d => outbound'[q] = outbound[q]
      BY <2>1, <2>4
    <3>3. \A q, f : Before(q, f) => Before(q, f)'
      BY <1>2 DEF Before
    <3>4. ASSUME NEW q \in Conns, NEW k \in 1 .. Len(outbound'[q])
          PROVE  Before(outbound'[q][k].by, q)
      <4>1. CASE q = d
        BY <2>6, <3>1, <3>2, <4>1
      <4>2. CASE q # d
        BY <3>2, <4>2 DEF ForwardOK, AnswersGoForward
      <4> QED BY <4>1, <4>2
    <3> QED BY <3>3, <3>4 DEF AnswersGoForward
  <2>8. LatestOK' /\ EntriesAccepted' /\ AskerAccepted'
    <3>1. NoRequest \notin Requests
      BY DEF NoRequest, Requests
    <3> QED BY <1>1, <1>2, <3>1 DEF ForwardOK, LatestOK, EntriesAccepted, AskerAccepted
  <2> QED BY <1>3, <2>7, <2>8 DEF ForwardOK
<1> QED BY <1>4, <1>5

LEMMA InitForward == Init => ForwardOK
<1> SUFFICES ASSUME Init PROVE ForwardOK
  OBVIOUS
<1>1. /\ acceptSocket = NoSocket /\ clientArray = << >> /\ request = NoRequest
      /\ inbound = [c \in Conns |-> << >>] /\ outbound = [c \in Conns |-> << >>]
  BY DEF Init
<1>2. NoSocket \notin Conns /\ NoRequest \notin Requests
  BY ServerAssumption DEF NoRequest, Requests
<1>3. Range(clientArray) = {}
  BY <1>1 DEF Range
<1> QED BY <1>1, <1>2, <1>3 DEF ForwardOK, LatestOK, EntriesAccepted, OwnRequests, AskerAccepted, AnswersGoForward

LEMMA NextForward == ITypeOK /\ ForwardOK /\ [Next]_authVars => ForwardOK'
<1> SUFFICES ASSUME ITypeOK, ForwardOK, [Next]_authVars PROVE ForwardOK'
  OBVIOUS
<1>1. CASE UNCHANGED authVars
  BY <1>1 DEF authVars, serverVars, loopVars, netVars, history, ForwardOK, LatestOK, EntriesAccepted,
              OwnRequests, AskerAccepted, AnswersGoForward, Before
<1>2. CASE Next
  BY <1>2, EnvironmentForward, TopForward, ServeForward, CallForward DEF Next, ServerStep
<1> QED BY <1>1, <1>2

-----------------------------------------------------------------------------
(* What can end the server.  While listenSocket is open, a connection of   *)
(* which the server knows is closed only if its peer has ended it; and the *)
(* connection accepted last is in ClientArray unless it has ended.         *)
ListenOK ==
  /\ isOn => listening
  /\ pc = "ended" => ~listening
  /\ ~listening => backlog = << >>
EndedOK ==
  /\ \A c \in Conns : link[c] = "fin" => c \in ended
  /\ listening => \A c \in Range(clientArray) \union Range(backlog) : link[c] = "rst" => c \in ended
LatestKnown ==
  listening /\ acceptSocket \in Conns => acceptSocket \in Range(clientArray) \union ended
EndOK ==
  /\ ListenOK /\ EndedOK /\ LatestKnown
  /\ pc = "accept" /\ ~isOn => escaped
  /\ EndHasCause

LEMMA EnvironmentEnd ==
  ASSUME ITypeOK, EndOK, Environment
  PROVE  EndOK'
<1> USE DEF ITypeOK
<1>1. /\ backlog \in Seq(Conns) /\ Range(clientArray) \subseteq Conns
      /\ link \in [Conns -> {"idle", "open", "fin", "rst"}]
      /\ ListenOK /\ EndedOK /\ LatestKnown /\ EndHasCause
  BY ClientRange DEF ServerTypeOK, EndOK
<1>2. Range(backlog) \subseteq Conns
  BY <1>1, RangeOfSeq
<1>3. ASSUME NEW c \in Conns, Connect(c) PROVE EndOK'
  <2>1. /\ listening /\ link' = [link EXCEPT ![c] = "open"] /\ backlog' = Append(backlog, c)
        /\ UNCHANGED << accountVars, loopVars, history, inbound, outbound, sent >>
    BY <1>3 DEF Connect
  <2>2. Range(backlog') = Range(backlog) \union {c}
    BY <1>1, <2>1, AppendRange
  <2>3. link'[c] = "open" /\ \A q \in Conns : q # c => link'[q] = link[q]
    BY <1>1, <2>1
  <2>4. ListenOK' /\ LatestKnown' /\ EndHasCause'
    BY <1>1, <2>1 DEF ListenOK, LatestKnown, EndHasCause, loopVars, history, accountVars
  <2>5. EndedOK'
    BY <1>1, <1>2, <2>1, <2>2, <2>3 DEF EndedOK, loopVars, history
  <2> QED BY <2>1, <2>4, <2>5 DEF EndOK, loopVars, history
<1>4. ASSUME NEW c \in Conns, PeerSend(c) PROVE EndOK'
  BY <1>4 DEF PeerSend, EndOK, ListenOK, EndedOK, LatestKnown, EndHasCause, loopVars, history, accountVars
<1>5. ASSUME NEW c \in Conns, PeerEnds(c) PROVE EndOK'
  <2>1. /\ ended' = ended \union {c}
        /\ UNCHANGED << accountVars, loopVars, backlog, outbound, sent, accepted, escaped >>
        /\ \A q \in Conns : q # c => link'[q] = link[q]
    BY <1>1, <1>5 DEF PeerEnds
  <2>2. ListenOK' /\ LatestKnown' /\ EndHasCause'
    BY <1>1, <2>1 DEF ListenOK, LatestKnown, EndHasCause, loopVars, accountVars
  <2>3. EndedOK'
    BY <1>1, <1>2, <2>1 DEF EndedOK, loopVars
  <2> QED BY <2>1, <2>2, <2>3 DEF EndOK, loopVars
<1>6. CASE Restart
  <2>1. /\ pc = "ended" /\ UNCHANGED << link, backlog, ended >> /\ pc' = "top" /\ isOn' = TRUE
        /\ listening' = TRUE /\ clientArray' = << >> /\ acceptSocket' = NoSocket
    BY <1>6 DEF Restart, netVars
  <2>2. backlog = << >> /\ Range(clientArray') = {} /\ Range(backlog') = {}
    BY <1>1, <2>1 DEF ListenOK, Range
  <2>3. NoSocket \notin Conns
    BY ServerAssumption
  <2> QED BY <1>1, <2>1, <2>2, <2>3 DEF EndOK, ListenOK, EndedOK, LatestKnown, EndHasCause
<1> QED BY <1>3, <1>4, <1>5, <1>6 DEF Environment

LEMMA TopEnd ==
  ASSUME ITypeOK, EndOK, Exit \/ Select \/ EndServe \/ Accept
  PROVE  EndOK'
<1> USE DEF ITypeOK
<1>1. /\ backlog \in Seq(Conns) /\ clientArray \in Seq(Conns) /\ Range(clientArray) \subseteq Conns
      /\ link \in [Conns -> {"idle", "open", "fin", "rst"}]
      /\ ListenOK /\ EndedOK /\ LatestKnown /\ EndHasCause
  BY ClientRange DEF ServerTypeOK, EndOK
<1>2. CASE Exit
  <2>1. /\ pc = "top" /\ ~isOn /\ pc' = "ended" /\ CloseServer
        /\ UNCHANGED << accountVars, history, acceptSocket >>
    BY <1>2 DEF Exit
  <2>2. /\ isOn' = FALSE /\ listening' = FALSE /\ backlog' = << >>
        /\ link' = [c \in Conns |-> IF link[c] = "idle" THEN "idle" ELSE "rst"]
    BY <2>1 DEF CloseServer
  <2>3. EndHasCause'
    BY <1>1, <2>1 DEF EndHasCause, accountVars, history
  <2> QED BY <2>1, <2>2, <2>3 DEF EndOK, ListenOK, EndedOK, LatestKnown
<1>3. CASE Select
  <2>1. /\ isOn /\ isOn' = ~escaped' /\ pc' \in {"accept", "serve"}
        /\ UNCHANGED << accountVars, netVars, listening, clientArray, acceptSocket, ended >>
    BY <1>3 DEF Select
  <2> QED BY <1>1, <2>1 DEF EndOK, ListenOK, EndedOK, LatestKnown, EndHasCause, netVars
<1>4. CASE EndServe
  BY <1>1, <1>4 DEF EndServe, EndOK, ListenOK, EndedOK, LatestKnown, EndHasCause, netVars, history, accountVars
<1>5. CASE Accept
  <2> DEFINE c == Head(backlog)
  <2>1. /\ pc = "accept" /\ backlog' = Tail(backlog) /\ pc' \in {"serve", "top"}
        /\ UNCHANGED << accountVars, isOn, listening, link, ended, escaped >>
    BY <1>5 DEF Accept
  <2>2. backlog # << >>
    BY <2>1 DEF ProcessOK
  <2>3. c \in Conns /\ c \in Range(backlog) /\ Range(Tail(backlog)) \subseteq Range(backlog)
    <3>1. /\ Len(Tail(backlog)) = Len(backlog) - 1 /\ Tail(backlog) \in Seq(Conns) /\ c \in Conns
          /\ \A j \in 1 .. Len(Tail(backlog)) : Tail(backlog)[j] = backlog[j + 1]
          /\ Len(backlog) \in Nat /\ Len(backlog) # 0 /\ c = backlog[1]
      BY <1>1, <2>2, HeadTailProperties, LenProperties, EmptySeq
    <3>2. Range(backlog) = {backlog[j] : j \in 1 .. Len(backlog)}
      BY <1>1, RangeEquality
    <3>3. \A t \in Seq(Conns) : Range(t) = {t[j] : j \in 1 .. Len(t)}
      BY RangeEquality
    <3>4. Range(Tail(backlog)) = {Tail(backlog)[j] : j \in 1 .. Len(Tail(backlog))}
      BY <3>1, <3>3
    <3> HIDE DEF c
    <3> QED BY <3>1, <3>2, <3>4
  <2>4. \/ clientArray' = Append(clientArray, c) /\ acceptSocket' = c
        \/ acceptSocket' = NoSocket /\ clientArray' = clientArray
    BY <1>5 DEF Accept
  <2> HIDE DEF c
  <2>5. Range(Append(clientArray, c)) = Range(clientArray) \union {c}
    BY <1>1, <2>3, AppendRange
  <2>6. NoSocket \notin Conns
    BY ServerAssumption
  <2>7. LatestKnown'
    BY <2>4, <2>5, <2>6 DEF LatestKnown
  <2>8. EndedOK'
    BY <1>1, <2>1, <2>3, <2>4, <2>5 DEF EndedOK
  <2>9. ListenOK'
    BY <1>1, <2>1, <2>2 DEF ListenOK
  <2>10. ~isOn => escaped
    BY <2>1 DEF EndOK
  <2> QED BY <2>1, <2>7, <2>8, <2>9, <2>10 DEF EndOK, EndHasCause
<1> QED BY <1>2, <1>3, <1>4, <1>5

LEMMA ServeEnd ==
  ASSUME ITypeOK, EndOK, \E k \in 1 .. Total : ServeGone(k) \/ ServeRequest(k)
  PROVE  EndOK'
<1> USE DEF ITypeOK
<1>1. /\ clientArray \in Seq(Conns) /\ Range(clientArray) \subseteq Conns
      /\ ListenOK /\ EndedOK /\ LatestKnown /\ EndHasCause
  BY ClientRange DEF ServerTypeOK, EndOK
<1>2. ASSUME NEW k, ServeGone(k) PROVE EndOK'
  <2>1. /\ Turn(k) /\ clientArray' = RemoveAt(clientArray, k)
        /\ UNCHANGED << accountVars, netVars, history, pc, isOn, listening, acceptSocket >>
        /\ link[clientArray[k]] \in {"rst", "fin"}
    BY <1>2 DEF ServeGone, RemoveEntry
  <2>2. k \in 1 .. Len(clientArray) /\ pc = "serve"
    BY <2>1, TurnFacts
  <2>3. /\ Range(clientArray') \subseteq Range(clientArray) /\ clientArray[k] \in Range(clientArray)
        /\ Range(clientArray) \subseteq Range(clientArray') \union {clientArray[k]}
    BY <1>1, <2>1, <2>2, RemoveAtRange, RangeEquality
  <2>4. listening => clientArray[k] \in ended
    BY <1>1, <2>1, <2>3 DEF EndedOK
  <2>5. LatestKnown' /\ EndedOK' /\ ListenOK' /\ EndHasCause'
    BY <1>1, <2>1, <2>3, <2>4
       DEF LatestKnown, EndedOK, ListenOK, EndHasCause, netVars, history, accountVars
  <2> QED BY <2>1, <2>2, <2>5 DEF EndOK
<1>3. ASSUME NEW k, ServeRequest(k) PROVE EndOK'
  <2>1. /\ Turn(k) /\ pc' \in {pc, "call"}
        /\ UNCHANGED << isOn, listening, clientArray, acceptSocket, backlog, link, ended, escaped >>
        /\ call' = call \/ call.step = "idle"
    BY <1>3 DEF ServeRequest, history, Begin, accountVars
  <2>2. pc = "serve"
    BY <2>1, TurnFacts
  <2> QED BY <1>1, <2>1, <2>2 DEF EndOK, LatestKnown, EndedOK, ListenOK, EndHasCause
<1> QED BY <1>2, <1>3

LEMMA CallEnd ==
  ASSUME ITypeOK, EndOK, CallStep \/ Terminate \/ Answer
  PROVE  EndOK'
<1> USE DEF ITypeOK
<1>1. /\ Range(clientArray) \subseteq Conns /\ link \in [Conns -> {"idle", "open", "fin", "rst"}]
      /\ acceptSocket \in Conns \union {NoSocket}
      /\ ListenOK /\ EndedOK /\ LatestKnown /\ EndHasCause
  BY ClientRange DEF ServerTypeOK, EndOK
<1>2. CASE CallStep
  <2>1. pc = "call" /\ UNCHANGED serverVars /\ call.step # "terminated"
    BY <1>2, StatementFacts DEF CallStep, Busy
  <2> QED BY <1>1, <2>1
          DEF EndOK, LatestKnown, EndedOK, ListenOK, EndHasCause, serverVars, loopVars, netVars, history
<1>3. ASSUME CloseServer, EndHasCause', pc' # "accept", UNCHANGED history PROVE EndOK'
  <2>1. /\ isOn' = FALSE /\ listening' = FALSE /\ backlog' = << >>
        /\ link' = [c \in Conns |-> IF link[c] = "idle" THEN "idle" ELSE "rst"]
    BY <1>3 DEF CloseServer
  <2> QED BY <1>3, <2>1 DEF EndOK, ListenOK, EndedOK, LatestKnown
<1>4. CASE Terminate
  <2>1. pc' = "ended" /\ CloseServer /\ Uncaught /\ UNCHANGED history
    BY <1>4 DEF Terminate
  <2>2. call \in Calls
    BY <2>1, Running DEF AccountsInv, Uncaught
  <2>3. call'.step = "terminated"
    BY <2>1, <2>2, ProceedFacts DEF Uncaught
  <2>4. EndHasCause'
    BY <2>3 DEF EndHasCause
  <2> QED BY <1>3, <2>1, <2>4
<1>5. CASE Answer
  <2> DEFINE d == acceptSocket
  <2>1. /\ call.step = "returned" /\ pc' = "serve"
        /\ UNCHANGED << history, clientArray, acceptSocket >>
    BY <1>5 DEF Answer, Finish
  <2>2. CASE UNCHANGED << isOn, listening, backlog, link >>
    BY <1>1, <2>1, <2>2 DEF EndOK, LatestKnown, EndedOK, ListenOK, EndHasCause, history
  <2>3. CASE /\ d \in Range(clientArray) /\ link[d] = "fin"
             /\ link' = [link EXCEPT ![d] = "rst"] /\ UNCHANGED << isOn, listening, backlog >>
    <3>1. d \in ended
      BY <1>1, <2>3 DEF EndedOK
    <3>2. EndedOK'
      <4>1. \A q \in Conns : link'[q] # link[q] => q \in ended /\ link'[q] = "rst"
        BY <1>1, <2>3, <3>1
      <4>2. \A q : q \in Range(clientArray) \union Range(backlog) => q \in Conns
        BY <1>1, RangeOfSeq DEF ServerTypeOK
      <4> QED BY <1>1, <2>1, <2>3, <4>1, <4>2 DEF EndedOK, history
    <3>3. LatestKnown' /\ ListenOK' /\ EndHasCause'
      BY <1>1, <2>1, <2>3 DEF LatestKnown, ListenOK, EndHasCause, history
    <3> QED BY <2>1, <3>2, <3>3 DEF EndOK
  <2>4. CASE (d \in Range(clientArray) => link[d] = "rst" \/ SendMayBlock) /\ CloseServer
    <3>1. ASSUME isOn, d # NoSocket, ~SendMayBlock PROVE d \in ended
      <4>1. listening /\ d \in Conns
        BY <1>1, <3>1 DEF ListenOK
      <4> QED BY <1>1, <2>4, <3>1, <4>1 DEF LatestKnown, EndedOK
    <3>2. EndHasCause'
      BY <1>1, <2>1, <3>1 DEF EndHasCause, history
    <3> QED BY <1>3, <2>1, <2>4, <3>2
  <2> QED BY <1>5, <2>2, <2>3, <2>4 DEF Answer, Addressee
<1> QED BY <1>2, <1>4, <1>5

LEMMA InitEnd == Init => EndOK
<1> SUFFICES ASSUME Init PROVE EndOK
  OBVIOUS
<1>1. /\ pc = "top" /\ isOn = TRUE /\ listening = TRUE /\ clientArray = << >> /\ backlog = << >>
      /\ acceptSocket = NoSocket /\ link = [c \in Conns |-> "idle"]
  BY DEF Init
<1>2. NoSocket \notin Conns /\ Range(clientArray) = {} /\ Range(backlog) = {}
  BY <1>1, ServerAssumption DEF Range
<1> QED BY <1>1, <1>2 DEF EndOK, ListenOK, EndedOK, LatestKnown, EndHasCause

LEMMA NextEnd == ITypeOK /\ EndOK /\ [Next]_authVars => EndOK'
<1> SUFFICES ASSUME ITypeOK, EndOK, [Next]_authVars PROVE EndOK'
  OBVIOUS
<1>1. CASE UNCHANGED authVars
  BY <1>1 DEF authVars, serverVars, accountVars, loopVars, netVars, history,
              EndOK, ListenOK, EndedOK, LatestKnown, EndHasCause
<1>2. CASE Next
  BY <1>2, EnvironmentEnd, TopEnd, ServeEnd, CallEnd DEF Next, ServerStep
<1> QED BY <1>1, <1>2

-----------------------------------------------------------------------------
(* Whatever the chat servers, the database and the operator do, the auth   *)
(* server's state keeps its type, and a database function is running       *)
(* exactly while a request is processed, for that request's credentials.   *)
THEOREM AuthTypesCorrect == Spec => []TypeOK
<1>1. ITypeOK => TypeOK
  BY DEF ITypeOK, AccountsInv, ProcessOK, TypeOK
<1> QED BY <1>1, TypeInvariant, PTL

(* However many sign-ups happen in one second, are refused or are broken   *)
(* off, the row that createUser takes for its own is nobody else's.        *)
THEOREM AccountsOwnRows == Spec => []OwnRows
<1>1. ITypeOK => OwnRows
  BY DEF ITypeOK, AccountsInv, SignUpOK, OwnRowThere, IsOwn, OwnRows
<1> QED BY <1>1, TypeInvariant, PTL

(* Only a failed sign-up of the very same second takes an account's row.   *)
THEOREM RowsOnlySwept == Spec => []MissingRowsWereSwept
<1>1. ITypeOK => MissingRowsWereSwept
  BY DEF ITypeOK, AccountsInv, AccountsOK
<1> QED BY <1>1, TypeInvariant, PTL

(* A refused sign-up leaves no row behind unless it was broken off.        *)
THEOREM OrphansExplained == Spec => []OrphansWereBroken
<1>1. ITypeOK => OrphansWereBroken
  BY DEF ITypeOK, AccountsInv, OrphansOK, OrphansWereBroken, Inserting, IsOwn, SigningUp
<1> QED BY <1>1, TypeInvariant, PTL

(* Whoever asks, and however connections come and go, an answer is sent to *)
(* the asker or to a connection accepted after it, never to an older one.  *)
THEOREM AnswersForward == Spec => []AnswersGoForward
<1>1. ForwardOK => AnswersGoForward
  BY DEF ForwardOK
<1> QED BY <1>1, InitOK, NextOK, InitForward, NextForward, PTL DEF Spec

(* Without Escape the service is given up only over the chat server that   *)
(* connected last: it has ended or does not read, or its accept failed; or *)
(* an exception was not caught.                                            *)
THEOREM EndExplained == Spec => []EndHasCause
<1>1. EndOK => EndHasCause
  BY DEF EndOK
<1> QED BY <1>1, InitOK, NextOK, InitEnd, NextEnd, PTL DEF Spec

=============================================================================
