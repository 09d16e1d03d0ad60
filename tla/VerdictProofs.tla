--------------------------- MODULE VerdictProofs ---------------------------
(***************************************************************************)
(* The verdicts of the auth server: for any addresses, passwords and       *)
(* connections they are those of the abstract store of accounts, and no    *)
(* request is answered twice.                                              *)
(***************************************************************************)
EXTENDS AuthServerProofs

-----------------------------------------------------------------------------
(* The database functions implement the store.                             *)

(* createUser and authenticateUser run for requests of their own kind.     *)
ActionsOK ==
  /\ call.step \in {"insert_user", "select_user", "insert_auth", "delete_user"} => call.of.action = "SIGN_UP"
  /\ call.step \in {"select_auth", "update_login"} => call.of.action = "LOGIN"

(* The variables of the store.                                             *)
Accounts == {<< w.email, w.password >> : w \in webAuth}
Reply ==
  IF call.step = "returned"
    THEN [action |-> call.of.action, email |-> call.of.email, password |-> call.of.password, ok |-> call.ok]
    ELSE NoCall

LEMMA AccountOf ==
  ASSUME AccountsTypeOK, NEW e \in Emails, NEW p \in Passwords
  PROVE  /\ << e, p >> \in Accounts <=> Matching(e, p) # {}
         /\ (\E q \in Passwords : << e, q >> \in Accounts) <=> Registered(e)
<1>1. \A w \in webAuth : w.email \in Emails /\ w.password \in Passwords
  BY DEF AccountsTypeOK
<1>2. \A q : << e, q >> \in Accounts <=> \E w \in webAuth : w.email = e /\ w.password = q
  BY DEF Accounts
<1>3. << e, p >> \in Accounts <=> Matching(e, p) # {}
  BY <1>2 DEF Matching
<1>4. (\E q \in Passwords : << e, q >> \in Accounts) <=> Registered(e)
  BY <1>1, <1>2 DEF Registered
<1> QED BY <1>3, <1>4

LEMMA ActionsKept ==
  ASSUME AccountsInv, ActionsOK, AccountStep
  PROVE  ActionsOK'
<1> USE DEF AccountsInv
<1>1. CASE UNCHANGED call
  BY <1>1 DEF ActionsOK
<1>2. CASE call' = NoCall
  BY <1>2 DEF ActionsOK, NoCall
<1>3. ASSUME NEW cr \in Credentials, Begin(cr) PROVE ActionsOK'
  BY <1>3 DEF Begin, ActionsOK, Credentials
<1>4. CASE Uncaught
  <2>1. call \in Calls
    BY <1>4, Running DEF Uncaught
  <2>2. call'.step = "terminated"
    BY <1>4, <2>1, ProceedFacts DEF Uncaught
  <2> QED BY <2>2 DEF ActionsOK
<1>5. CASE Statement
  <2>1. call \in Calls /\ call'.of = call.of /\ call'.step \in Busy \union {"returned"}
    BY <1>5, StatementFacts, Running DEF Busy
  <2>2. \A s : Proceed(s) => call'.step = s
    BY <2>1 DEF Proceed, Calls
  <2>3. \A ok : Return(ok) => call'.step = "returned"
    BY <2>1 DEF Return, Calls
  <2>4. CASE InsertUser \/ InsertAuth \/ DeleteUser \/ UpdateLogin
    BY <2>1, <2>2, <2>3, <2>4 DEF InsertUser, InsertAuth, DeleteUser, UpdateLogin, ActionsOK
  <2>5. CASE SelectUser
    <3>1. call.step = "select_user" /\ call'.step = "insert_auth"
      BY <2>1, <2>2, <2>5 DEF SelectUser, Calls
    <3> QED BY <2>1, <3>1 DEF ActionsOK
  <2>6. CASE SelectAuth
    <3>1. call.step = "select_auth" /\ call'.step \in {"returned", "update_login"}
      BY <2>1, <2>3, <2>6 DEF SelectAuth, Calls
    <3> QED BY <2>1, <3>1 DEF ActionsOK
  <2> QED BY <1>5, <2>4, <2>5, <2>6 DEF Statement
<1> QED BY <1>1, <1>2, <1>3, <1>4, <1>5 DEF AccountStep, Finish, Reconnect, accountVars

(* What the steps that give a verdict or make an account are to the store. *)
LEMMA StoreSteps ==
  ASSUME AccountsTypeOK, Reply = NoCall, NEW e \in Emails, NEW p \in Passwords,
         \/ /\ ~Registered(e) /\ Accounts' = Accounts \union {<< e, p >>}
            /\ \/ Reply' = [action |-> "SIGN_UP", email |-> e, password |-> p, ok |-> TRUE]
               \/ DbFaults /\ Reply' = NoCall
         \/ /\ Registered(e) \/ DbFaults
            /\ Accounts' = Accounts
            /\ Reply' = [action |-> "SIGN_UP", email |-> e, password |-> p, ok |-> FALSE]
         \/ /\ Matching(e, p) # {} /\ Accounts' = Accounts
            /\ Reply' = [action |-> "LOGIN", email |-> e, password |-> p, ok |-> TRUE]
         \/ /\ Matching(e, p) = {} /\ Accounts' = Accounts
            /\ Reply' = [action |-> "LOGIN", email |-> e, password |-> p, ok |-> FALSE]
  PROVE  Store!StoreNext
<1>1. << e, p >> \in Accounts <=> Matching(e, p) # {}
  BY AccountOf
<1>2. (\E q \in Passwords : << e, q >> \in Accounts) <=> Registered(e)
  BY AccountOf
<1>3. Store!MakeAccount(e, p) <=>
        /\ Reply = NoCall /\ ~ (\E q \in Passwords : << e, q >> \in Accounts)
        /\ Accounts' = Accounts \union {<< e, p >>}
        /\ \/ Reply' = [action |-> "SIGN_UP", email |-> e, password |-> p, ok |-> TRUE]
           \/ DbFaults /\ Reply' = NoCall
  BY DEF Store!MakeAccount, Store!Taken, Store!Verdict, Accounts, Reply
<1>4. Store!RefuseAccount(e, p) <=>
        /\ Reply = NoCall /\ ((\E q \in Passwords : << e, q >> \in Accounts) \/ DbFaults)
        /\ Reply' = [action |-> "SIGN_UP", email |-> e, password |-> p, ok |-> FALSE]
        /\ Accounts' = Accounts
  BY DEF Store!RefuseAccount, Store!Taken, Store!Verdict, Accounts, Reply
<1>5. Store!JudgeLogin(e, p) <=>
        /\ Reply = NoCall
        /\ Reply' = [action |-> "LOGIN", email |-> e, password |-> p, ok |-> << e, p >> \in Accounts]
        /\ Accounts' = Accounts
  BY DEF Store!JudgeLogin, Store!Verdict, Accounts, Reply
<1>6. /\ Matching(e, p) # {} => (<< e, p >> \in Accounts) = TRUE
      /\ Matching(e, p) = {} => (<< e, p >> \in Accounts) = FALSE
  BY <1>1
<1>7. Store!MakeAccount(e, p) \/ Store!RefuseAccount(e, p) \/ Store!JudgeLogin(e, p) => Store!StoreNext
  BY DEF Store!StoreNext
<1>8. CASE /\ ~Registered(e) /\ Accounts' = Accounts \union {<< e, p >>}
           /\ \/ Reply' = [action |-> "SIGN_UP", email |-> e, password |-> p, ok |-> TRUE]
              \/ DbFaults /\ Reply' = NoCall
  BY <1>2, <1>3, <1>8, <1>7
<1>9. CASE /\ Registered(e) \/ DbFaults
           /\ Accounts' = Accounts
           /\ Reply' = [action |-> "SIGN_UP", email |-> e, password |-> p, ok |-> FALSE]
  BY <1>2, <1>4, <1>9, <1>7
<1>10. CASE /\ Matching(e, p) # {} /\ Accounts' = Accounts
           /\ Reply' = [action |-> "LOGIN", email |-> e, password |-> p, ok |-> TRUE]
  BY <1>5, <1>6, <1>10, <1>7
<1>11. CASE /\ Matching(e, p) = {} /\ Accounts' = Accounts
            /\ Reply' = [action |-> "LOGIN", email |-> e, password |-> p, ok |-> FALSE]
  BY <1>5, <1>6, <1>11, <1>7
<1> QED BY <1>8, <1>9, <1>10, <1>11

(* A returning function gives its verdict.                                 *)
LEMMA ReplyOfReturn ==
  ASSUME call \in Calls, NEW ok \in BOOLEAN, Return(ok)
  PROVE  Reply' = [action |-> call.of.action, email |-> call.of.email, password |-> call.of.password, ok |-> ok]
BY ReturnFacts DEF Reply

(* Each statement is a step of the store or none.                          *)
LEMMA StatementIsStore ==
  ASSUME AccountsInv, ActionsOK, Statement
  PROVE  Store!StoreNext \/ (Accounts' = Accounts /\ Reply' = Reply)
<1> USE DEF AccountsInv
<1> DEFINE e == call.of.email
           p == call.of.password
<1>1. /\ call \in Calls /\ call.step \in Busy /\ e \in Emails /\ p \in Passwords
      /\ Reply = NoCall /\ call'.step \in Busy \union {"returned"}
  BY StatementFacts, Running DEF Busy, Calls, Credentials, Reply
<1>2. /\ \A s : Proceed(s) => call'.step = s
      /\ \A ok : Return(ok) => call'.step = "returned"
  BY <1>1 DEF Proceed, Return, Calls
<1>3. call'.step # "returned" => Reply' = NoCall
  BY DEF Reply
<1>4. /\ Return(TRUE) => Reply' = [action |-> call.of.action, email |-> e, password |-> p, ok |-> TRUE]
      /\ Return(FALSE) => Reply' = [action |-> call.of.action, email |-> e, password |-> p, ok |-> FALSE]
  BY <1>1, ReplyOfReturn
<1>5. webAuth' = webAuth => Accounts' = Accounts
  BY DEF Accounts
<1>6. AddAccount => Accounts' = Accounts \union {<< e, p >>}
  <2> DEFINE w == [email |-> call.of.email, password |-> call.of.password, userId |-> call.uid]
  <2>1. w.email = e /\ w.password = p
    OBVIOUS
  <2>2. AddAccount => webAuth' = webAuth \union {w}
    BY DEF AddAccount, WebAuthRow
  <2> HIDE DEF w, e, p
  <2> QED BY <2>1, <2>2 DEF Accounts
<1>7. CASE InsertUser
  <2>1. call.step = "insert_user" /\ webAuth' = webAuth /\ (Proceed("select_user") \/ (Return(FALSE) /\ DbFaults))
    BY <1>7 DEF InsertUser, Rejected, Lost
  <2> HIDE DEF e, p
  <2>2. CASE Proceed("select_user")
    BY <1>1, <1>2, <1>3, <1>5, <2>1, <2>2
  <2>3. CASE Return(FALSE) /\ DbFaults
    <3>1. Reply' = [action |-> "SIGN_UP", email |-> e, password |-> p, ok |-> FALSE]
      BY <1>4, <2>1, <2>3 DEF ActionsOK
    <3> QED BY <1>1, <1>5, <2>1, <2>3, <3>1, StoreSteps
  <2> QED BY <2>1, <2>2, <2>3
<1>8. CASE SelectUser
  <2>1. webAuth' = webAuth /\ call'.step = "insert_auth"
    BY <1>1, <1>2, <1>8 DEF SelectUser, tables, Calls
  <2> QED BY <1>1, <1>3, <1>5, <2>1
<1>9. CASE InsertAuth
  <2>1. /\ call.step = "insert_auth"
        /\ \/ Return(TRUE) /\ ~Registered(e) /\ AddAccount
           \/ Proceed("delete_user") /\ webAuth' = webAuth
           \/ Proceed("delete_user") /\ ~Registered(e) /\ AddAccount /\ DbFaults
    BY <1>9 DEF InsertAuth, Rejected, Lost, Unique, Registered
  <2> HIDE DEF e, p
  <2>2. CASE Return(TRUE) /\ ~Registered(e) /\ AddAccount
    <3>1. Reply' = [action |-> "SIGN_UP", email |-> e, password |-> p, ok |-> TRUE]
      BY <1>4, <2>1, <2>2 DEF ActionsOK
    <3> QED BY <1>1, <1>6, <2>2, <3>1, StoreSteps
  <2>3. CASE Proceed("delete_user") /\ webAuth' = webAuth
    BY <1>1, <1>2, <1>3, <1>5, <2>3
  <2>4. CASE Proceed("delete_user") /\ ~Registered(e) /\ AddAccount /\ DbFaults
    <3>1. Reply' = NoCall
      BY <1>2, <1>3, <2>4
    <3> QED BY <1>1, <1>6, <2>4, <3>1, StoreSteps
  <2> QED BY <2>1, <2>2, <2>3, <2>4
<1>10. CASE DeleteUser
  <2>1. call.step = "delete_user" /\ webAuth' = webAuth /\ Return(FALSE)
    BY <1>10 DEF DeleteUser
  <2>2. Registered(e) \/ DbFaults
    BY <2>1 DEF VerdictsOK
  <2> HIDE DEF e, p
  <2>3. Reply' = [action |-> "SIGN_UP", email |-> e, password |-> p, ok |-> FALSE]
    BY <1>4, <2>1 DEF ActionsOK
  <2> QED BY <1>1, <1>5, <2>1, <2>2, <2>3, StoreSteps
<1>11. CASE SelectAuth
  <2>1. /\ call.step = "select_auth" /\ webAuth' = webAuth
        /\ \/ Matching(e, p) = {} /\ Return(FALSE)
           \/ call'.step = "update_login"
    BY <1>1, <1>11 DEF SelectAuth, tables, Calls
  <2> HIDE DEF e, p
  <2>2. CASE Matching(e, p) = {} /\ Return(FALSE)
    <3>1. Reply' = [action |-> "LOGIN", email |-> e, password |-> p, ok |-> FALSE]
      BY <1>4, <2>1, <2>2 DEF ActionsOK
    <3> QED BY <1>1, <1>5, <2>1, <2>2, <3>1, StoreSteps
  <2>3. CASE call'.step = "update_login"
    BY <1>1, <1>3, <1>5, <2>1, <2>3
  <2> QED BY <2>1, <2>2, <2>3
<1>12. CASE UpdateLogin
  <2>1. call.step = "update_login" /\ webAuth' = webAuth /\ Return(TRUE)
    BY <1>12 DEF UpdateLogin
  <2>2. Matching(e, p) # {}
    BY <2>1 DEF VerdictsOK
  <2> HIDE DEF e, p
  <2>3. Reply' = [action |-> "LOGIN", email |-> e, password |-> p, ok |-> TRUE]
    BY <1>4, <2>1 DEF ActionsOK
  <2> QED BY <1>1, <1>5, <2>1, <2>2, <2>3, StoreSteps
<1> QED BY <1>7, <1>8, <1>9, <1>10, <1>11, <1>12 DEF Statement

LEMMA AccountStepIsStore ==
  ASSUME AccountsInv, ActionsOK, AccountStep
  PROVE  Store!StoreNext \/ UNCHANGED Store!storeVars
<1> USE DEF AccountsInv
<1>1. ASSUME Accounts' = Accounts, Reply' = Reply PROVE UNCHANGED Store!storeVars
  BY <1>1 DEF Store!storeVars, Accounts, Reply
<1>2. CASE Statement
  BY <1>1, <1>2, StatementIsStore
<1>3. CASE Finish
  <2>1. call.step = "returned" /\ call' = NoCall /\ webAuth' = webAuth
    BY <1>3 DEF Finish, tables
  <2>2. Reply # NoCall /\ Reply' = NoCall /\ Accounts' = Accounts
    BY <2>1 DEF Reply, NoCall, Accounts
  <2>3. Store!TakeReply
    BY <2>2 DEF Store!TakeReply, Reply, Accounts
  <2> QED BY <2>3 DEF Store!StoreNext
<1>4. ASSUME webAuth' = webAuth, call.step # "returned", call'.step # "returned"
      PROVE  UNCHANGED Store!storeVars
  <2>1. Accounts' = Accounts /\ Reply' = Reply
    BY <1>4 DEF Accounts, Reply
  <2> QED BY <1>1, <2>1
<1>5. ASSUME NEW cr \in Credentials, Begin(cr) PROVE UNCHANGED Store!storeVars
  <2>1. webAuth' = webAuth /\ call.step = "idle" /\ call'.step \in {"select_auth", "insert_user"}
    BY <1>5 DEF Begin, tables
  <2> QED BY <1>4, <2>1
<1>6. CASE Uncaught
  <2>1. call \in Calls /\ webAuth' = webAuth /\ call.step # "returned"
    BY <1>6, Running DEF Uncaught, tables
  <2>2. call'.step = "terminated"
    BY <1>6, <2>1, ProceedFacts DEF Uncaught
  <2> QED BY <1>4, <2>1, <2>2
<1>7. CASE call.step \in {"idle", "terminated"} /\ Reconnect
  <2>1. webAuth' = webAuth /\ call.step # "returned" /\ call'.step = "idle"
    BY <1>7 DEF Reconnect, tables, NoCall
  <2> QED BY <1>4, <2>1
<1>8. CASE UNCHANGED accountVars
  <2>1. webAuth' = webAuth /\ call' = call
    BY <1>8 DEF accountVars, tables
  <2>2. Accounts' = Accounts /\ Reply' = Reply
    BY <2>1 DEF Accounts, Reply
  <2> QED BY <1>1, <2>2
<1> QED BY <1>2, <1>3, <1>5, <1>6, <1>7, <1>8 DEF AccountStep

(* For any addresses, passwords, connections and failures of the database, *)
(* and although other sign-ups of the same second, the death of the        *)
(* process and its restart may come between the statements of one function,*)
(* the verdicts are those of the store of accounts.                        *)
THEOREM VerdictsOfTheStore == Spec => ImplementsAccountStore
<1>1. Init => Store!StoreInit
  BY DEF Init, AccountsInit, NoCall, Store!StoreInit
<1>2. Init => ActionsOK
  BY DEF Init, AccountsInit, NoCall, ActionsOK
<1>3. ITypeOK /\ ActionsOK /\ [Next]_authVars => ActionsOK'
  BY NextSound, ActionsKept DEF Sound, ITypeOK
<1>4. ITypeOK /\ ActionsOK /\ [Next]_authVars => [Store!StoreNext]_(Store!storeVars)
  BY NextSound, AccountStepIsStore DEF Sound, ITypeOK
<1>5. Spec => [](ITypeOK /\ ActionsOK)
  BY <1>2, <1>3, InitOK, NextOK, PTL DEF Spec
<1> QED BY <1>1, <1>4, <1>5, PTL DEF Spec, ImplementsAccountStore, Store!StoreSpec

-----------------------------------------------------------------------------
(* No request is answered twice.                                           *)

(* The requests of a stream are numbered upwards, and none has a number    *)
(* that its connection has not yet given.                                  *)
NumberedOK ==
  \A c \in Conns : \A k \in 1 .. Len(inbound[c]) :
    inbound[c][k] \in Requests =>
      /\ inbound[c][k].number <= sent[c]
      /\ \A j \in 1 .. k - 1 : inbound[c][j] \in Requests => inbound[c][j].number < inbound[c][k].number

(* c has given the number n, and only higher ones are still to be read.    *)
Past(c, n) ==
  /\ n <= sent[c]
  /\ \A k \in 1 .. Len(inbound[c]) : inbound[c][k] \in Requests => n < inbound[c][k].number

PastOK ==
  /\ request \in Requests => Past(request.by, request.number)
  /\ \A d \in Conns : \A k \in 1 .. Len(outbound[d]) :
       /\ Past(outbound[d][k].by, outbound[d][k].number)
       /\ request \in Requests /\ request.by = outbound[d][k].by => outbound[d][k].number < request.number

OnceOK == NumberedOK /\ PastOK /\ AnsweredOnce

(* What a step that sends no request may do to a stream: its requests are  *)
(* some of the former ones in their order.                                 *)
Thinned(t, s) ==
  \E shift \in [1 .. Len(t) -> 1 .. Len(s)] :
    \A k \in 1 .. Len(t) : t[k] \in Requests =>
      /\ t[k] = s[shift[k]]
      /\ \A j \in 1 .. k - 1 : t[j] \in Requests => shift[j] < shift[k]

LEMMA SameIsThinned ==
  ASSUME NEW s \in Stream
  PROVE  Thinned(s, s)
<1> DEFINE shift == [k \in 1 .. Len(s) |-> k]
<1>1. shift \in [1 .. Len(s) -> 1 .. Len(s)] /\ Len(s) \in Nat
  BY LenProperties DEF Stream
<1>2. \A k \in 1 .. Len(s) : s[k] = s[shift[k]] /\ \A j \in 1 .. k - 1 : j \in 1 .. Len(s) /\ shift[j] < shift[k]
  BY <1>1
<1> HIDE DEF shift
<1> QED BY <1>1, <1>2 DEF Thinned

LEMMA EmptyIsThinned ==
  ASSUME NEW s
  PROVE  Thinned(<< >>, s)
<1>1. [k \in {} |-> k] \in [1 .. Len(<< >>) -> 1 .. Len(s)] /\ 1 .. Len(<< >>) = {}
  OBVIOUS
<1> QED BY <1>1 DEF Thinned

LEMMA UnreadIsThinned ==
  ASSUME NEW s \in Stream, NEW n \in 1 .. Len(s), NEW cut \in BOOLEAN
  PROVE  /\ Thinned(StillUnread(s, n, cut), s)
         /\ \A k \in 1 .. Len(StillUnread(s, n, cut)) : StillUnread(s, n, cut)[k] \in Requests =>
              \E m \in n + 1 .. Len(s) : StillUnread(s, n, cut)[k] = s[m]
<1> DEFINE t == StillUnread(s, n, cut)
<1>1. PICK d \in {0, 1} :
        /\ Len(t) = Len(s) - n + d
        /\ \A k \in 1 .. Len(t) : t[k] = IF k <= d THEN Remainder ELSE s[n + k - d]
  BY StillUnreadFacts
<1> HIDE DEF t
<1>2. Len(s) \in Nat /\ n <= Len(s) /\ n \in Nat /\ n # 0 /\ Remainder \notin Requests
  BY LenProperties DEF Stream, Remainder, Requests
<1> DEFINE shift == [k \in 1 .. Len(t) |-> n + k - d]
<1>3. ASSUME NEW k \in 1 .. Len(t) PROVE n + k - d \in 1 .. Len(s)
  BY <1>1, <1>2
<1>4. ASSUME NEW k \in 1 .. Len(t), t[k] \in Requests
      PROVE  t[k] = s[n + k - d] /\ n + k - d \in n + 1 .. Len(s)
  <2>1. ~ (k <= d)
    BY <1>1, <1>2, <1>4
  <2> QED BY <1>1, <1>2, <2>1
<1>5. shift \in [1 .. Len(t) -> 1 .. Len(s)] /\ \A k \in 1 .. Len(t) : shift[k] = n + k - d
  BY <1>3
<1> HIDE DEF shift
<1>6. ASSUME NEW k \in 1 .. Len(t), NEW j \in 1 .. k - 1 PROVE shift[j] < shift[k]
  <2>1. j \in 1 .. Len(t) /\ n + j - d < n + k - d
    BY <1>1, <1>2
  <2> QED BY <1>5, <2>1
<1>7. Thinned(t, s)
  BY <1>4, <1>5, <1>6 DEF Thinned
<1> QED BY <1>4, <1>7 DEF t

(* A number that is past stays past.                                       *)
LEMMA PastKept ==
  ASSUME ServerTypeOK, NEW c \in Conns, NEW n \in Nat, Past(c, n), sent' = sent,
         Thinned(inbound'[c], inbound[c])
  PROVE  Past(c, n)'
<1>1. PICK shift \in [1 .. Len(inbound'[c]) -> 1 .. Len(inbound[c])] :
        \A k \in 1 .. Len(inbound'[c]) : inbound'[c][k] \in Requests => inbound'[c][k] = inbound[c][shift[k]]
  BY DEF Thinned
<1>2. \A k \in 1 .. Len(inbound'[c]) : shift[k] \in 1 .. Len(inbound[c])
  BY <1>1
<1> QED BY <1>1, <1>2 DEF Past

LEMMA NumberedKept ==
  ASSUME ServerTypeOK, NumberedOK, sent' = sent, \A c \in Conns : Thinned(inbound'[c], inbound[c])
  PROVE  NumberedOK'
<1> SUFFICES ASSUME NEW c \in Conns, NEW k \in 1 .. Len(inbound'[c]), inbound'[c][k] \in Requests
             PROVE  /\ inbound'[c][k].number <= sent[c]
                    /\ \A j \in 1 .. k - 1 : inbound'[c][j] \in Requests => inbound'[c][j].number < inbound'[c][k].number
  BY DEF NumberedOK
<1> DEFINE s == inbound[c]
           t == inbound'[c]
<1>1. PICK shift \in [1 .. Len(t) -> 1 .. Len(s)] :
        \A m \in 1 .. Len(t) : t[m] \in Requests =>
          /\ t[m] = s[shift[m]]
          /\ \A j \in 1 .. m - 1 : t[j] \in Requests => shift[j] < shift[m]
  BY DEF Thinned
<1>2. /\ Len(s) \in Nat /\ sent[c] \in Nat
      /\ \A m \in 1 .. Len(t) : shift[m] \in 1 .. Len(s)
  <2>1. s \in Seq(Requests \union {Remainder}) /\ sent[c] \in Nat
    BY DEF ServerTypeOK
  <2> QED BY <1>1, <2>1, LenProperties
<1> HIDE DEF s, t
<1>3. \A m \in 1 .. Len(s) : s[m] \in Requests =>
        /\ s[m].number <= sent[c]
        /\ \A j \in 1 .. m - 1 : s[j] \in Requests => s[j].number < s[m].number
  BY DEF NumberedOK, s
<1>4. k \in 1 .. Len(t) /\ t[k] \in Requests /\ t[k] = s[shift[k]] /\ shift[k] \in 1 .. Len(s)
  BY <1>1, <1>2 DEF t
<1>5. ASSUME NEW j \in 1 .. k - 1, t[j] \in Requests PROVE t[j].number < t[k].number
  <2>1. j \in 1 .. Len(t)
    <3>1. k \in 1 .. Len(t) /\ k \in Int /\ j < k
      BY <1>4
    <3> QED BY <3>1
  <2>2. t[j] = s[shift[j]] /\ shift[j] \in 1 .. Len(s) /\ shift[j] < shift[k]
    BY <1>1, <1>2, <1>4, <1>5, <2>1
  <2>3. shift[j] \in 1 .. shift[k] - 1
    BY <1>2, <1>4, <2>2
  <2> QED BY <1>3, <1>4, <1>5, <2>2, <2>3
<1>6. t[k].number <= sent[c]
  BY <1>3, <1>4
<1> QED BY <1>5, <1>6 DEF t

(* Steps that send and answer nothing and begin with no request.           *)
LEMMA OnceKept ==
  ASSUME ServerTypeOK, OnceOK, sent' = sent, outbound' = outbound,
         \A c \in Conns : Thinned(inbound'[c], inbound[c]),
         request' = request \/ request' = NoRequest
  PROVE  OnceOK'
<1>1. NumberedOK'
  BY NumberedKept DEF OnceOK
<1>2. NoRequest \notin Requests /\ \A r \in Requests : r.by \in Conns /\ r.number \in Nat
  BY DEF NoRequest, Requests
<1>3. \A d \in Conns : \A k \in 1 .. Len(outbound[d]) :
        outbound[d][k].by \in Conns /\ outbound[d][k].number \in Nat
  <2>1. ASSUME NEW d \in Conns, NEW k \in 1 .. Len(outbound[d])
        PROVE  outbound[d][k] \in Answers
    <3>1. outbound[d] \in Seq(Answers)
      BY DEF ServerTypeOK
    <3> QED BY <3>1, ElementOfSeq
  <2> QED BY <2>1 DEF Answers
<1>4. PastOK'
  BY <1>2, <1>3, PastKept DEF OnceOK, PastOK
<1>5. AnsweredOnce'
  BY DEF OnceOK, AnsweredOnce
<1> QED BY <1>1, <1>4, <1>5 DEF OnceOK

LEMMA LostIsThinned ==
  ASSUME ServerTypeOK, NEW c \in Conns, inbound'[c] = inbound[c] \/ inbound'[c] = << >>
  PROVE  Thinned(inbound'[c], inbound[c])
<1>1. inbound[c] \in Stream
  BY DEF ServerTypeOK, Stream
<1> QED BY <1>1, SameIsThinned, EmptyIsThinned

LEMMA PeerSendOnce ==
  ASSUME ITypeOK, OnceOK, NEW c \in Conns, PeerSend(c)
  PROVE  OnceOK'
<1> USE DEF ITypeOK
<1>1. UNCHANGED << loopVars, outbound >> /\ sent' = [sent EXCEPT ![c] = @ + 1]
  BY DEF PeerSend
<1>2. /\ sent[c] \in Nat /\ sent'[c] = sent[c] + 1 /\ sent'[c] \in Nat
      /\ \A q \in Conns : q # c => sent'[q] = sent[q]
  BY <1>1 DEF ServerTypeOK
<1>3. PICK r \in Requests : r.number = sent[c] + 1 /\ inbound' = [inbound EXCEPT ![c] = Append(@, r)]
  <2>1. PICK e \in Emails, p \in Passwords :
          \E r \in {LoginRequest(e, p, c, sent'[c]), SignUpRequest(e, p, c, sent'[c])} :
            inbound' = [inbound EXCEPT ![c] = Append(@, r)]
    BY DEF PeerSend
  <2>2. \A r \in {LoginRequest(e, p, c, sent'[c]), SignUpRequest(e, p, c, sent'[c])} :
          r \in Requests /\ r.number = sent'[c]
    BY <1>2, RequestType
  <2> QED BY <1>2, <2>1, <2>2
<1> DEFINE s == inbound[c]
           t == Append(s, r)
<1>4. /\ Len(t) = Len(s) + 1 /\ Len(s) \in Nat /\ t[Len(s) + 1] = r
      /\ \A k \in 1 .. Len(s) : t[k] = s[k]
  <2>1. s \in Seq(Requests \union {Remainder})
    BY DEF ServerTypeOK
  <2> QED BY <2>1, AppendProperties, LenProperties
<1>5. inbound'[c] = t /\ \A q \in Conns : q # c => inbound'[q] = inbound[q]
  BY <1>3 DEF ServerTypeOK
<1> HIDE DEF t
<1>6. ASSUME NEW k \in 1 .. Len(t) PROVE (k \in 1 .. Len(s) /\ t[k] = s[k]) \/ (k = Len(s) + 1 /\ t[k] = r)
  BY <1>4
<1>7. \A m \in 1 .. Len(s) : s[m] \in Requests =>
        /\ s[m].number <= sent[c] /\ s[m].number \in Nat
        /\ \A j \in 1 .. m - 1 : s[j] \in Requests => s[j].number < s[m].number
  BY DEF OnceOK, NumberedOK, Requests
<1>8. NumberedOK'
  <2>1. ASSUME NEW k \in 1 .. Len(t), t[k] \in Requests
        PROVE  /\ t[k].number <= sent'[c]
               /\ \A j \in 1 .. k - 1 : t[j] \in Requests => t[j].number < t[k].number
    <3>1. CASE k \in 1 .. Len(s)
      <4>1. t[k].number <= sent'[c]
        BY <1>2, <1>4, <1>7, <2>1, <3>1
      <4>2. \A j \in 1 .. k - 1 : t[j] = s[j]
        BY <1>4, <3>1
      <4> QED BY <1>4, <1>7, <2>1, <3>1, <4>1, <4>2
    <3>2. CASE k = Len(s) + 1
      <4>1. \A j \in 1 .. k - 1 : j \in 1 .. Len(s) /\ t[j] = s[j]
        BY <1>4, <3>2
      <4>2. t[k].number = sent[c] + 1
        BY <1>3, <1>4, <3>2
      <4>3. ASSUME NEW j \in 1 .. k - 1, t[j] \in Requests PROVE t[j].number < t[k].number
        <5>1. t[j].number <= sent[c] /\ t[j].number \in Nat
          BY <1>7, <4>1, <4>3
        <5> QED BY <1>2, <4>2, <5>1
      <4> QED BY <1>2, <4>2, <4>3
    <3> QED BY <1>6, <3>1, <3>2
  <2> HIDE DEF s
  <2> QED BY <1>2, <1>5, <2>1 DEF OnceOK, NumberedOK
<1>9. ASSUME NEW q \in Conns, NEW n \in Nat, Past(q, n) PROVE Past(q, n)'
  <2>1. CASE q # c
    BY <1>2, <1>5, <1>9, <2>1 DEF Past
  <2>2. CASE q = c
    <3>1. n <= sent[c] /\ \A k \in 1 .. Len(s) : s[k] \in Requests => n < s[k].number
      BY <1>9, <2>2 DEF Past
    <3>2. ASSUME NEW k \in 1 .. Len(t), t[k] \in Requests PROVE n < t[k].number
      BY <1>2, <1>3, <1>6, <3>1, <3>2
    <3>3. n <= sent'[c]
      BY <1>2, <3>1
    <3> QED BY <1>5, <2>2, <3>2, <3>3 DEF Past
  <2> QED BY <2>1, <2>2
<1>10. PastOK'
  <2>1. \A a \in Requests : a.by \in Conns /\ a.number \in Nat
    BY DEF Requests
  <2>2. ASSUME NEW d \in Conns, NEW k \in 1 .. Len(outbound[d])
        PROVE  outbound[d][k].by \in Conns /\ outbound[d][k].number \in Nat
    <3>1. outbound[d] \in Seq(Answers)
      BY DEF ServerTypeOK
    <3>2. outbound[d][k] \in Answers
      BY <3>1, ElementOfSeq
    <3> QED BY <3>2 DEF Answers
  <2> QED BY <1>1, <1>9, <2>1, <2>2 DEF OnceOK, PastOK, loopVars
<1>11. AnsweredOnce'
  BY <1>1 DEF OnceOK, AnsweredOnce
<1> QED BY <1>8, <1>10, <1>11 DEF OnceOK

LEMMA ServeRequestOnce ==
  ASSUME ITypeOK, ForwardOK, OnceOK, NEW k \in 1 .. Total, ServeRequest(k)
  PROVE  OnceOK'
<1> USE DEF ITypeOK
<1>1. Turn(k) /\ UNCHANGED << outbound, sent >>
  BY DEF ServeRequest
<1>2. PICK c \in Conns : c = clientArray[k]
  BY <1>1, TurnFacts
<1>3. PICK n \in 1 .. Len(inbound[c]), cut \in BOOLEAN :
        /\ inbound' = [inbound EXCEPT ![c] = StillUnread(@, n, cut)]
        /\ IF Parses(SubSeq(inbound[c], 1, n), cut)
             THEN request' = ReadRequests(SubSeq(inbound[c], 1, n))
             ELSE request' = request
  BY <1>2 DEF ServeRequest
<1> DEFINE s == inbound[c]
           t == StillUnread(s, n, cut)
<1>4. s \in Stream
  BY <1>2 DEF ServerTypeOK, Stream
<1>5. /\ Thinned(t, s)
      /\ \A m \in 1 .. Len(t) : t[m] \in Requests => \E j \in n + 1 .. Len(s) : t[m] = s[j]
  BY <1>4, UnreadIsThinned
<1>6. inbound'[c] = t /\ \A q \in Conns : q # c => inbound'[q] = inbound[q]
  BY <1>2, <1>3 DEF ServerTypeOK
<1> HIDE DEF t
<1>7. \A q \in Conns : Thinned(inbound'[q], inbound[q])
  <2>1. \A q \in Conns : inbound[q] \in Stream
    BY DEF ServerTypeOK, Stream
  <2> QED BY <1>5, <1>6, <2>1, SameIsThinned
<1>8. CASE request' = request
  BY <1>1, <1>7, <1>8, OnceKept
<1>9. CASE Parses(SubSeq(s, 1, n), cut)
  <2>1. request' = s[n] /\ s[n] \in Requests
    BY <1>3, <1>4, <1>9, ServedFacts
  <2>2. s[n].by = c /\ s[n].number \in Nat /\ Len(s) \in Nat
    BY <1>2, <1>4, <2>1, LenProperties DEF ForwardOK, OwnRequests, Requests, Stream
  <2>3. NumberedOK'
    BY <1>1, <1>7, NumberedKept DEF OnceOK
  <2> PICK v \in Nat : v = s[n].number
    BY <2>2
  <2>4. Past(c, v)'
    <3>1. v <= sent[c]
      BY <1>2, <2>1 DEF OnceOK, NumberedOK
    <3>2. ASSUME NEW m \in 1 .. Len(t), t[m] \in Requests PROVE v < t[m].number
      <4>1. PICK j \in n + 1 .. Len(s) : t[m] = s[j]
        BY <1>5, <3>2
      <4>2. j \in 1 .. Len(s) /\ n \in 1 .. j - 1
        BY <2>2, <4>1
      <4> QED BY <1>2, <2>1, <3>2, <4>1, <4>2 DEF OnceOK, NumberedOK
    <3> HIDE DEF s
    <3> QED BY <1>1, <1>6, <3>1, <3>2 DEF Past
  <2>5. ASSUME NEW d \in Conns, NEW m \in 1 .. Len(outbound[d])
        PROVE  /\ Past(outbound[d][m].by, outbound[d][m].number)'
               /\ outbound[d][m].by = c => outbound[d][m].number < s[n].number
    <3> DEFINE a == outbound[d][m]
    <3>1. a.by \in Conns /\ a.number \in Nat
      <4>1. outbound[d] \in Seq(Answers)
        BY DEF ServerTypeOK
      <4>2. a \in Answers
        BY <4>1, ElementOfSeq
      <4> QED BY <4>2 DEF Answers
    <3>2. Past(a.by, a.number)
      BY DEF OnceOK, PastOK
    <3>3. Past(outbound[d][m].by, outbound[d][m].number)'
      <4>1. a' = a
        BY <1>1
      <4> HIDE DEF a
      <4>2. \A q \in Conns, w \in Nat : Past(q, w) => Past(q, w)'
        BY <1>1, <1>7, PastKept
      <4>3. Past(a.by, a.number)'
        <5>1. ASSUME NEW q \in Conns, NEW w \in Nat, q = a.by, w = a.number PROVE Past(a.by, a.number)'
          BY <3>2, <4>1, <4>2, <5>1 DEF Past
        <5> QED BY <3>1, <5>1
      <4> QED BY <4>3 DEF a
    <3>4. a.by = c => a.number < s[n].number
      BY <2>1, <3>2 DEF Past
    <3> QED BY <3>3, <3>4
  <2>6. PastOK'
    <3>1. request'.by = c /\ request'.number = v
      BY <2>1, <2>2
    <3>2. Past(request.by, request.number)'
      BY <2>4, <3>1 DEF Past
    <3>3. ASSUME NEW d \in Conns, NEW m \in 1 .. Len(outbound'[d])
          PROVE  /\ Past(outbound[d][m].by, outbound[d][m].number)'
                 /\ request'.by = outbound'[d][m].by => outbound'[d][m].number < request'.number
      BY <1>1, <2>5, <3>1
    <3> QED BY <3>2, <3>3 DEF PastOK
  <2>7. AnsweredOnce'
    BY <1>1 DEF OnceOK, AnsweredOnce
  <2> QED BY <2>3, <2>6, <2>7 DEF OnceOK
<1> QED BY <1>3, <1>8, <1>9

(* The answer to the request that is processed is its first.               *)
LEMMA AnswerOnce ==
  ASSUME ITypeOK, ForwardOK, OnceOK, Answer, outbound' # outbound
  PROVE  OnceOK'
<1> USE DEF ITypeOK
<1>1. PICK d \in Conns : d = acceptSocket /\ d \in Range(clientArray)
  BY ClientRange DEF Answer, Addressee
<1>2. PICK a : a = AnswerOf(request, call.ok)
  OBVIOUS
<1>3. /\ outbound' = [outbound EXCEPT ![d] = Append(@, a)] /\ UNCHANGED << inbound, sent >>
      /\ request' = NoRequest /\ pc = "call" /\ call.step = "returned"
  BY <1>1, <1>2 DEF Answer, Addressee, Finish
<1>4. call.ok \in BOOLEAN /\ request \in Requests
  BY <1>3, Running DEF AccountsInv, Calls, ProcessOK, ServerTypeOK
<1>5. a \in Answers /\ a.by = request.by /\ a.number = request.number
  BY <1>2, <1>4, AnswerType
<1>6. /\ \A q \in Conns : outbound[q] \in Seq(Answers) /\ Len(outbound[q]) \in Nat
      /\ Append(outbound[d], a) # << >> /\ Len(Append(outbound[d], a)) = Len(outbound[d]) + 1
      /\ \A k \in 1 .. Len(outbound[d]) : Append(outbound[d], a)[k] = outbound[d][k]
      /\ Append(outbound[d], a)[Len(outbound[d]) + 1] = a
  <2>1. \A q \in Conns : outbound[q] \in Seq(Answers)
    BY DEF ServerTypeOK
  <2> QED BY <1>5, <2>1, AppendProperties, LenProperties
<1>7. outbound'[d] = Append(outbound[d], a) /\ \A q \in Conns : q # d => outbound'[q] = outbound[q]
  BY <1>3 DEF ServerTypeOK
<1>8. ASSUME NEW q \in Conns, NEW k \in 1 .. Len(outbound'[q])
      PROVE  \/ k \in 1 .. Len(outbound[q]) /\ outbound'[q][k] = outbound[q][k]
             \/ q = d /\ k = Len(outbound[d]) + 1 /\ outbound'[q][k] = a
  <2>1. CASE q # d
    BY <1>7, <2>1
  <2>2. CASE q = d
    <3>1. k \in 1 .. Len(outbound[d]) + 1
      BY <1>6, <1>7, <2>2
    <3>2. k \in 1 .. Len(outbound[d]) \/ k = Len(outbound[d]) + 1
      BY <1>6, <3>1
    <3> QED BY <1>6, <1>7, <2>2, <3>2
  <2> QED BY <2>1, <2>2
<1>9. ASSUME NEW q \in Conns, NEW k \in 1 .. Len(outbound[q])
      PROVE  /\ outbound[q][k].number \in Nat
             /\ outbound[q][k].by = a.by => outbound[q][k].number < a.number
  <2>1. outbound[q][k] \in Answers
    BY <1>6, ElementOfSeq
  <2> QED BY <1>4, <1>5, <2>1 DEF OnceOK, PastOK, Answers
<1>10. NumberedOK'
  BY <1>3 DEF OnceOK, NumberedOK
<1>11. PastOK'
  <2>1. NoRequest \notin Requests
    BY DEF NoRequest, Requests
  <2>2. ASSUME NEW q \in Conns, NEW k \in 1 .. Len(outbound'[q])
        PROVE  Past(outbound[q][k].by, outbound[q][k].number)'
    <3>1. CASE k \in 1 .. Len(outbound[q]) /\ outbound'[q][k] = outbound[q][k]
      BY <1>3, <3>1 DEF OnceOK, PastOK, Past
    <3>2. CASE outbound'[q][k] = a
      BY <1>3, <1>4, <1>5, <3>2 DEF OnceOK, PastOK, Past
    <3> QED BY <1>8, <3>1, <3>2
  <2> QED BY <1>3, <2>1, <2>2 DEF PastOK
<1>12. AnsweredOnce'
  <2> SUFFICES ASSUME NEW q \in Conns, NEW f \in Conns,
                      NEW j \in 1 .. Len(outbound'[q]), NEW k \in 1 .. Len(outbound'[f]),
                      q # f \/ j # k, outbound'[q][j].by = outbound'[f][k].by
               PROVE  /\ outbound'[q][j].number # outbound'[f][k].number
                      /\ q = f /\ j < k => outbound'[q][j].number < outbound'[f][k].number
    BY DEF AnsweredOnce
  <2>1. CASE /\ j \in 1 .. Len(outbound[q]) /\ outbound'[q][j] = outbound[q][j]
             /\ k \in 1 .. Len(outbound[f]) /\ outbound'[f][k] = outbound[f][k]
    BY <2>1 DEF OnceOK, AnsweredOnce
  <2>2. CASE /\ j \in 1 .. Len(outbound[q]) /\ outbound'[q][j] = outbound[q][j]
             /\ outbound'[f][k] = a
    <3>1. outbound[q][j].number \in Nat /\ outbound[q][j].number < a.number /\ a.number \in Nat
      BY <1>5, <1>9, <2>2 DEF Answers
    <3> QED BY <2>2, <3>1
  <2>3. CASE /\ q = d /\ j = Len(outbound[d]) + 1 /\ outbound'[q][j] = a
             /\ k \in 1 .. Len(outbound[f]) /\ outbound'[f][k] = outbound[f][k]
    <3>1. outbound[f][k].number \in Nat /\ outbound[f][k].number < a.number /\ a.number \in Nat
      BY <1>5, <1>9, <2>3 DEF Answers
    <3>2. ~ (q = f /\ j < k)
      BY <1>6, <2>3
    <3> QED BY <2>3, <3>1, <3>2
  <2> QED BY <1>8, <2>1, <2>2, <2>3
<1> QED BY <1>10, <1>11, <1>12 DEF OnceOK

LEMMA InitOnce == Init => OnceOK
<1> SUFFICES ASSUME Init PROVE OnceOK
  OBVIOUS
<1>1. /\ inbound = [c \in Conns |-> << >>] /\ outbound = [c \in Conns |-> << >>]
      /\ request = NoRequest /\ NoRequest \notin Requests
  BY DEF Init, NoRequest, Requests
<1> QED BY <1>1 DEF OnceOK, NumberedOK, PastOK, AnsweredOnce

LEMMA NextOnce == ITypeOK /\ ForwardOK /\ OnceOK /\ [Next]_authVars => OnceOK'
<1> SUFFICES ASSUME ITypeOK, ForwardOK, OnceOK, [Next]_authVars PROVE OnceOK'
  OBVIOUS
<1>1. ServerTypeOK
  BY DEF ITypeOK
<1>2. ASSUME sent' = sent, outbound' = outbound, request' = request \/ request' = NoRequest,
             \A c \in Conns : inbound'[c] = inbound[c] \/ inbound'[c] = << >>
      PROVE  OnceOK'
  <2>1. \A c \in Conns : Thinned(inbound'[c], inbound[c])
    BY <1>1, <1>2, LostIsThinned
  <2> QED BY <1>1, <1>2, <2>1, OnceKept
<1>3. CASE UNCHANGED authVars
  BY <1>2, <1>3 DEF authVars, serverVars, loopVars, netVars
<1>4. CASE Restart \/ \E c \in Conns : Connect(c) \/ PeerEnds(c)
  <2>1. sent' = sent /\ outbound' = outbound /\ (request' = request \/ request' = NoRequest)
    BY <1>4 DEF Restart, Connect, PeerEnds, serverVars, loopVars, netVars
  <2>2. \A c \in Conns : inbound'[c] = inbound[c] \/ inbound'[c] = << >>
    BY <1>1, <1>4 DEF Restart, Connect, PeerEnds, serverVars, netVars, ServerTypeOK
  <2> QED BY <1>2, <2>1, <2>2
<1>5. ASSUME NEW c \in Conns, PeerSend(c) PROVE OnceOK'
  BY <1>5, PeerSendOnce
<1>6. CASE Exit \/ Select \/ Accept \/ EndServe \/ CallStep \/ Terminate
  <2>1. sent' = sent /\ outbound' = outbound /\ request' = request
    BY <1>6 DEF Exit, Select, Accept, EndServe, CallStep, Terminate, serverVars, loopVars, netVars
  <2>2. \A c \in Conns : inbound'[c] = inbound[c] \/ inbound'[c] = << >>
    BY <1>6 DEF Exit, Select, Accept, EndServe, CallStep, Terminate, CloseServer, serverVars, netVars
  <2> QED BY <1>2, <2>1, <2>2
<1>7. CASE Answer
  <2>1. sent' = sent /\ request' = NoRequest
    BY <1>7 DEF Answer
  <2>2. \A c \in Conns : inbound'[c] = inbound[c] \/ inbound'[c] = << >>
    BY <1>1, <1>7 DEF Answer, CloseServer, ServerTypeOK
  <2> QED BY <1>2, <1>7, <2>1, <2>2, AnswerOnce
<1>8. ASSUME NEW k \in 1 .. Total, ServeGone(k) PROVE OnceOK'
  BY <1>2, <1>8 DEF ServeGone, netVars
<1>9. ASSUME NEW k \in 1 .. Total, ServeRequest(k) PROVE OnceOK'
  BY <1>9, ServeRequestOnce
<1> QED BY <1>3, <1>4, <1>5, <1>6, <1>7, <1>8, <1>9 DEF Next, ServerStep, Environment

(* Wherever the answers go, and however requests are merged, cut or        *)
(* repeated, no request gets two of them, and they keep the order of the   *)
(* requests.                                                               *)
THEOREM AnsweredAtMostOnce == Spec => []AnsweredOnce
<1>1. OnceOK => AnsweredOnce
  BY DEF OnceOK
<1> QED BY <1>1, InitOK, NextOK, InitForward, NextForward, InitOnce, NextOnce, PTL DEF Spec
=============================================================================
