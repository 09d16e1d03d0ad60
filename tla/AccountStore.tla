---------------------------- MODULE AccountStore ----------------------------
(***************************************************************************)
(* What the database functions of the auth server promise: an e-mail       *)
(* address gets at most one account, for ever and with one password; a     *)
(* login succeeds exactly when the account is there with that password at  *)
(* the moment the verdict is given; a sign-up that succeeded has made its  *)
(* account, and one that is refused has made none, for which the address   *)
(* must be taken unless the database may fail.                             *)
(***************************************************************************)
CONSTANTS Emails, Passwords,
          Faulty,    \* whether the database may fail
          NoReply    \* no verdict at the moment

VARIABLES accounts,  \* pairs of an address and its password
          reply      \* the verdict just given

storeVars == << accounts, reply >>

Verdict(a, e, p, ok) == [action |-> a, email |-> e, password |-> p, ok |-> ok]

Taken(e) == \E p \in Passwords : << e, p >> \in accounts

StoreInit == accounts = {} /\ reply = NoReply

(* The answer may get lost; the account is made all the same.              *)
MakeAccount(e, p) ==
  /\ reply = NoReply /\ ~Taken(e)
  /\ accounts' = accounts \union {<< e, p >>}
  /\ \/ reply' = Verdict("SIGN_UP", e, p, TRUE)
     \/ Faulty /\ reply' = NoReply

RefuseAccount(e, p) ==
  /\ reply = NoReply /\ (Taken(e) \/ Faulty)
  /\ reply' = Verdict("SIGN_UP", e, p, FALSE)
  /\ UNCHANGED accounts

JudgeLogin(e, p) ==
  /\ reply = NoReply
  /\ reply' = Verdict("LOGIN", e, p, << e, p >> \in accounts)
  /\ UNCHANGED accounts

TakeReply ==
  /\ reply # NoReply /\ reply' = NoReply
  /\ UNCHANGED accounts

StoreNext ==
  \/ TakeReply
  \/ \E e \in Emails, p \in Passwords :
       MakeAccount(e, p) \/ RefuseAccount(e, p) \/ JudgeLogin(e, p)

StoreSpec == StoreInit /\ [][StoreNext]_storeVars
=============================================================================
