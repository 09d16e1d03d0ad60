---------------------------- MODULE AuthProtocol ----------------------------
(***************************************************************************)
(* The messages between the chat server and the auth server                *)
(* (AuthProtocol/AuthProtocol.cpp, protobuffer/source).                    *)
(*                                                                         *)
(* Protobuf messages carry no delimiter: parsing the concatenation of      *)
(* several of them gives their merge, in which the last value of a field   *)
(* wins (external: the proto2 wire format).  readAuthMessage is given all  *)
(* the bytes of one recv.                                                  *)
(***************************************************************************)
EXTENDS Sequences, Integers

(* `by' is not a field of the message: it records which connection's       *)
(* credentials the request or the answer is about.                         *)
Request(u, c) == [type |-> "Request", username |-> u, by |-> c]

(* writeLoginOK, writeSignUpOK / writeLoginError, writeSignUpError.        *)
ResponseOK(u, c)    == [type |-> "ResponseOK",    username |-> u, by |-> c]
ResponseError(u, c) == [type |-> "ResponseError", username |-> u, by |-> c]

(* The same with all that the auth server reads of a request: the action   *)
(* and the password; `number' is not a field either but tells c's requests *)
(* apart.                                                                  *)
LoginRequest(u, p, c, n) ==
  [type |-> "Request", action |-> "LOGIN", username |-> u, password |-> p, by |-> c, number |-> n]
SignUpRequest(u, p, c, n) == [LoginRequest(u, p, c, n) EXCEPT !.action = "SIGN_UP"]

(* What the auth server answers to such a request.                         *)
AnswerOf(req, ok) ==
  [type |-> IF ok THEN "ResponseOK" ELSE "ResponseError",
   action |-> req.action, username |-> req.username, by |-> req.by, number |-> req.number]

(* readAuthMessage on the bytes of one or more requests.                   *)
ReadRequests(rs) == rs[Len(rs)]

(* readAuthMessage on the bytes of one or more responses.  ResponseError   *)
(* is tried first and its required fields are there as soon as one of the  *)
(* merged responses is an error; the username is the last one's.           *)
ReadOKFirst(rs) ==                                                 \* mutant
  [rs[Len(rs)] EXCEPT !.type =
     IF \E k \in 1 .. Len(rs) : rs[k].type = "ResponseOK"
       THEN "ResponseOK"
       ELSE "ResponseError"]
ReadResponses(rs) ==
  [rs[Len(rs)] EXCEPT !.type =
     IF \E k \in 1 .. Len(rs) : rs[k].type = "ResponseError"
       THEN "ResponseError"
       ELSE "ResponseOK"]
=============================================================================
