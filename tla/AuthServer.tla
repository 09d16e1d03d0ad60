----------------------------- MODULE AuthServer -----------------------------
(***************************************************************************)
(* The auth server (AuthServer/AuthServer.cpp, theMain.cpp): one thread    *)
(* that polls the keyboard, selects, accepts at most one connection, reads *)
(* from every connection that select marked and, before it reads from the  *)
(* next one, calls a database function and sends the verdict.  Its peers   *)
(* are chat servers; they and the network move at any time.                *)
(*                                                                         *)
(* A connection stands for its peer.  A socket's number is given out again *)
(* only by accept, which then sets acceptSocket too: acceptSocket, which   *)
(* keeps the number of a socket that RemoveClient has closed, is the       *)
(* connection here.  There are fewer connections than FD_SETSIZE.          *)
(***************************************************************************)
EXTENDS UserAccounts, AuthProtocol, SequencesExt

CONSTANTS
  Conns,            \* connections that may be made to port 5160
  NoSocket,         \* INVALID_SOCKET
  MaxSends,         \* bound: how many requests each peer sends
  Endings,          \* how each peer may end: "fin", "rst"
  MaxBatch,         \* bound: requests returned by one recv
  MayCut,           \* whether a recv may end inside a request
  SendMayBlock,     \* whether a peer's receive window may be full
  Operator,         \* whether somebody presses Escape
  Restarts          \* whether somebody starts the program again

ASSUME ServerAssumption ==
  /\ NoSocket \notin Conns /\ MaxSends \in [Conns -> Nat] /\ MaxBatch \in Nat \ {0}
  /\ Endings \in [Conns -> SUBSET {"fin", "rst"}]
  /\ {MayCut, SendMayBlock, Operator, Restarts} \subseteq BOOLEAN

VARIABLES
  pc, i,            \* where main and recieveMessage are; the loop variable
  isOn, listening,  \* is_on; whether listenSocket is open
  clientArray,      \* ClientArray[0 .. TotalClients - 1]
  acceptSocket,     \* the member: the connection accepted last
  readSet,          \* ReadSet as select left it
  request,          \* the request that processMessage is at
  backlog, link, inbound, outbound, sent,  \* as in ChatServer
  accepted,         \* history: the connections in the order of their accept
  ended,            \* history: connections that their peers have ended
  escaped           \* history: whether Escape was pressed

loopVars   == << pc, i, isOn, listening, clientArray, acceptSocket, readSet, request >>
netVars    == << backlog, link, inbound, outbound, sent >>
history    == << accepted, ended, escaped >>
serverVars == << loopVars, netVars, history >>
authVars   == << serverVars, accountVars >>

Total == Len(clientArray)
NoRequest == [type |-> "none"]
Remainder == [type |-> "remainder"]   \* the rest of a request that was cut

(* main is at its loop: init has succeeded.                                *)
Init ==
  /\ AccountsInit
  /\ pc = "top" /\ i = 1 /\ isOn = TRUE /\ listening = TRUE
  /\ clientArray = << >> /\ acceptSocket = NoSocket /\ readSet = {}
  /\ request = NoRequest
  /\ backlog = << >> /\ link = [c \in Conns |-> "idle"]
  /\ inbound = [c \in Conns |-> << >>] /\ outbound = [c \in Conns |-> << >>]
  /\ sent = [c \in Conns |-> 0]
  /\ accepted = << >> /\ ended = {} /\ escaped = FALSE

-----------------------------------------------------------------------------
(* The peers.                                                              *)

Connect(c) ==
  /\ listening /\ link[c] = "idle"
  /\ link' = [link EXCEPT ![c] = "open"] /\ backlog' = Append(backlog, c)
  /\ UNCHANGED << accountVars, loopVars, history, inbound, outbound, sent >>

(* AuthClient::sendMessage with what processMessages of the chat server    *)
(* makes of a LOGIN.                                                       *)
PeerSend(c) ==
  /\ link[c] = "open" /\ sent[c] < MaxSends[c]
  /\ sent' = [sent EXCEPT ![c] = @ + 1]
  /\ \E e \in Emails, p \in Passwords :
       \E r \in {LoginRequest(e, p, c, sent'[c]), SignUpRequest(e, p, c, sent'[c])} :
         inbound' = [inbound EXCEPT ![c] = Append(@, r)]
  /\ UNCHANGED << accountVars, loopVars, history, backlog, link, outbound >>

PeerEnds(c) ==
  /\ \/ /\ "fin" \in Endings[c] /\ link[c] = "open" /\ link' = [link EXCEPT ![c] = "fin"]
        /\ UNCHANGED inbound
     \/ /\ "rst" \in Endings[c] /\ link[c] \in {"open", "fin"} /\ link' = [link EXCEPT ![c] = "rst"]
        /\ inbound' = [inbound EXCEPT ![c] = << >>]
  /\ ended' = ended \union {c}
  /\ UNCHANGED << accountVars, loopVars, backlog, outbound, sent, accepted, escaped >>

-----------------------------------------------------------------------------
(* The loop of main.                                                       *)

(* closeServer: WSACleanup closes every socket of the process.             *)
CloseServer ==
  /\ isOn' = FALSE /\ listening' = FALSE /\ backlog' = << >>
  /\ link' = [c \in Conns |-> IF link[c] = "idle" THEN "idle" ELSE "rst"]
  /\ inbound' = [c \in Conns |-> << >>]

Exit ==
  /\ pc = "top" /\ ~isOn /\ pc' = "ended" /\ CloseServer
  /\ UNCHANGED << accountVars, history, outbound, sent, i, clientArray, acceptSocket, readSet, request >>

Readable(c) == inbound[c] # << >> \/ link[c] # "open"

(* key_listen, then select; listenSocket is marked when somebody waits.    *)
Select ==
  /\ pc = "top" /\ isOn
  /\ escaped' \in (IF Operator THEN BOOLEAN ELSE {FALSE}) /\ isOn' = ~escaped'
  /\ readSet' = {c \in Range(clientArray) : Readable(c)}
  /\ pc' = IF backlog # << >> THEN "accept" ELSE "serve"
  /\ UNCHANGED << accountVars, netVars, i, listening, clientArray, acceptSocket, request, accepted, ended >>

(* accept overwrites acceptSocket whether it succeeds or not; when it      *)
(* fails, what select has marked is left for the next round.               *)
Accept ==
  LET c == Head(backlog) IN
  /\ pc = "accept" /\ backlog' = Tail(backlog)
  /\ \/ /\ clientArray' = Append(clientArray, c) /\ acceptSocket' = c
        /\ accepted' = Append(accepted, c)
        /\ pc' = "serve" /\ UNCHANGED readSet
     \/ /\ link[c] = "rst"
        /\ acceptSocket' = NoSocket /\ pc' = "top" /\ readSet' = {}
        /\ UNCHANGED << clientArray, accepted >>
  /\ UNCHANGED << accountVars, i, isOn, listening, request, link, inbound, outbound, sent, ended, escaped >>

-----------------------------------------------------------------------------
(* The loop over the connections.                                          *)

(* Iteration k is the next one that has something to do.                   *)
Turn(k) ==
  /\ pc = "serve" /\ k \in i .. Total
  /\ clientArray[k] \in readSet
  /\ \A j \in i .. k - 1 : clientArray[j] \notin readSet
  /\ i' = k + 1

(* WSARecv fails or returns 0 bytes: RemoveClient.  The array moves up     *)
(* under the loop variable.                                                *)
RemoveEntry(k) == clientArray' = RemoveAt(clientArray, k)

ServeGone(k) ==
  LET c == clientArray[k] IN
  /\ Turn(k)
  /\ \/ link[c] = "rst"
     \/ link[c] = "fin" /\ inbound[c] = << >>
  /\ RemoveEntry(k)
  /\ UNCHANGED << accountVars, netVars, history, pc, isOn, listening, acceptSocket, readSet, request >>

(* What stays in the stream when WSARecv has taken n requests, of the last *)
(* one perhaps its first bytes only.                                       *)
UnreadAgain(s, n, cut) == SubSeq(s, n, Len(s))                     \* mutant
StillUnread(s, n, cut) ==
  (IF cut THEN << Remainder >> ELSE << >>) \o SubSeq(s, n + 1, Len(s))

(* Nothing can be parsed of bytes that a part of a request is among.       *)
Parses(rs, cut) == ~cut /\ \A k \in 1 .. Len(rs) : rs[k].type = "Request"

(* WSARecv and processMessage: the last of the requests received together  *)
(* is the one that counts.                                                 *)
ServeRequest(k) ==
  LET c == clientArray[k] IN
  /\ Turn(k) /\ link[c] # "rst"
  /\ \E n \in 1 .. Len(inbound[c]), cut \in (IF MayCut THEN BOOLEAN ELSE {FALSE}) :
       LET rs == SubSeq(inbound[c], 1, n) IN
       /\ n <= MaxBatch /\ (cut => rs[n].type = "Request")
       /\ inbound' = [inbound EXCEPT ![c] = StillUnread(@, n, cut)]
       /\ IF Parses(rs, cut)
            THEN LET r == ReadRequests(rs) IN
                 /\ request' = r /\ pc' = "call"
                 /\ Begin([action |-> r.action, email |-> r.username, password |-> r.password])
            ELSE UNCHANGED << accountVars, request, pc >>
  /\ UNCHANGED << history, isOn, listening, clientArray, acceptSocket, readSet, backlog, link, outbound, sent >>

(* createUser or authenticateUser.                                         *)
CallStep ==
  /\ pc = "call" /\ Statement
  /\ UNCHANGED serverVars

(* An uncaught exception ends the process; the system closes its sockets.  *)
Terminate ==
  /\ pc = "call" /\ Uncaught
  /\ pc' = "ended" /\ CloseServer
  /\ UNCHANGED << history, outbound, sent, i, clientArray, acceptSocket, readSet, request >>

(* sendMessage: the answer goes to acceptSocket, whoever has asked.  The   *)
(* first bytes to a peer that has closed are taken, and reset it; when     *)
(* they are not taken the whole server is closed.                          *)
FirstClient == IF Total = 0 THEN NoSocket ELSE clientArray[1]      \* mutant
Addressee == acceptSocket

Answer ==
  LET d == Addressee
      a == AnswerOf(request, call.ok) IN
  /\ pc = "call" /\ Finish
  /\ pc' = "serve" /\ request' = NoRequest
  /\ \/ /\ d \in Range(clientArray) /\ link[d] = "open"
        /\ outbound' = [outbound EXCEPT ![d] = Append(@, a)]
        /\ UNCHANGED << isOn, listening, backlog, link, inbound >>
     \/ /\ d \in Range(clientArray) /\ link[d] = "fin"
        /\ link' = [link EXCEPT ![d] = "rst"] /\ inbound' = [inbound EXCEPT ![d] = << >>]
        /\ UNCHANGED << isOn, listening, backlog, outbound >>
     \/ /\ d \in Range(clientArray) => (link[d] = "rst" \/ SendMayBlock)
        /\ CloseServer /\ UNCHANGED outbound
  /\ UNCHANGED << sent, history, i, clientArray, acceptSocket, readSet >>

EndServeAtI ==                                                     \* mutant
  /\ pc = "serve" /\ \A k \in i .. Total : clientArray[k] \notin readSet
  /\ pc' = "top" /\ readSet' = {}
  /\ UNCHANGED << accountVars, netVars, history, i, isOn, listening, clientArray, acceptSocket, request >>
EndServe ==
  /\ pc = "serve" /\ \A k \in i .. Total : clientArray[k] \notin readSet
  /\ pc' = "top" /\ i' = 1 /\ readSet' = {}
  /\ UNCHANGED << accountVars, netVars, history, isOn, listening, clientArray, acceptSocket, request >>

-----------------------------------------------------------------------------
(* The program is started again, after Escape or after its death.          *)
Restart ==
  /\ Restarts /\ pc = "ended"
  /\ Reconnect
  /\ pc' = "top" /\ i' = 1 /\ isOn' = TRUE /\ listening' = TRUE
  /\ clientArray' = << >> /\ acceptSocket' = NoSocket /\ readSet' = {}
  /\ request' = NoRequest
  /\ UNCHANGED << netVars, accepted, ended >> /\ escaped' = FALSE

ServerStep ==
  \/ Exit \/ Select \/ Accept \/ EndServe \/ CallStep \/ Terminate \/ Answer
  \/ \E k \in 1 .. Total : ServeGone(k) \/ ServeRequest(k)

Environment ==
  \/ Restart
  \/ \E c \in Conns : Connect(c) \/ PeerSend(c) \/ PeerEnds(c)

Next == ServerStep \/ Environment

Spec == Init /\ [][Next]_authVars

(* The server's thread keeps running: select waits for at most a second,   *)
(* sockets do not block, and a statement ends or throws.                   *)
FairSpec == Spec /\ WF_authVars(ServerStep)

-----------------------------------------------------------------------------
(* Types.                                                                  *)

Requests == [type : {"Request"}, action : {"LOGIN", "SIGN_UP"}, username : Emails,
             password : Passwords, by : Conns, number : Nat]
Answers  == [type : {"ResponseOK", "ResponseError"}, action : {"LOGIN", "SIGN_UP"},
             username : Emails, by : Conns, number : Nat]

ServerTypeOK ==
  /\ pc \in {"top", "accept", "serve", "call", "ended"}
  /\ i \in Nat \ {0} /\ isOn \in BOOLEAN /\ listening \in BOOLEAN
  /\ clientArray \in Seq(Conns) /\ acceptSocket \in Conns \union {NoSocket}
  /\ readSet \subseteq Conns /\ request \in Requests \union {NoRequest}
  /\ backlog \in Seq(Conns) /\ link \in [Conns -> {"idle", "open", "fin", "rst"}]
  /\ inbound \in [Conns -> Seq(Requests \union {Remainder})]
  /\ outbound \in [Conns -> Seq(Answers)] /\ sent \in [Conns -> Nat]
  /\ accepted \in Seq(Conns) /\ ended \subseteq Conns /\ escaped \in BOOLEAN

(* The type invariant; a function of SQLFunctions.cpp is running exactly   *)
(* while processMessage is, for the credentials of its request.            *)
TypeOK ==
  /\ AccountsTypeOK /\ ServerTypeOK
  /\ pc = "call" => /\ call.step # "idle" /\ request # NoRequest
                    /\ call.of = [action |-> request.action, email |-> request.username,
                                  password |-> request.password]
  /\ pc \notin {"call", "ended"} => call = NoCall /\ request = NoRequest

-----------------------------------------------------------------------------
(* Properties.                                                             *)

(* An answer goes to the connection accepted last.  So it never reaches a  *)
(* connection older than the asker's, and with one chat server connected   *)
(* since the start every answer reaches the asker.                         *)
Before(c, d) ==
  \E j, k \in 1 .. Len(accepted) : j <= k /\ accepted[j] = c /\ accepted[k] = d
AnswersGoForward ==
  \A d \in Conns : \A k \in 1 .. Len(outbound[d]) : Before(outbound[d][k].by, d)

(* No request is answered twice, on whichever connections, and a           *)
(* connection gets the answers to one asker in the order of the requests.  *)
AnsweredOnce ==
  \A d, f \in Conns : \A j \in 1 .. Len(outbound[d]), k \in 1 .. Len(outbound[f]) :
    LET a == outbound[d][j]
        b == outbound[f][k] IN
    << d, j >> # << f, k >> /\ a.by = b.by =>
      a.number # b.number /\ (d = f /\ j < k => a.number < b.number)

(* closeServer is called, Escape aside, only when the chat server that     *)
(* connected last has gone, its accept has failed or it does not read:     *)
(* whatever the others do, they cannot end the service for it.             *)
EndHasCause ==
  ~isOn /\ ~escaped =>
    \/ acceptSocket = NoSocket \/ acceptSocket \in ended
    \/ SendMayBlock
    \/ call.step = "terminated"

(* The verdicts are those of an abstract store of accounts, although each  *)
(* of them takes up to three statements that may fail and that the death   *)
(* of the process may separate.                                            *)
Store == INSTANCE AccountStore WITH
  Faulty   <- DbFaults,
  NoReply  <- NoCall,
  accounts <- {<< w.email, w.password >> : w \in webAuth},
  reply    <- IF call.step = "returned"
                THEN [action |-> call.of.action, email |-> call.of.email,
                      password |-> call.of.password, ok |-> call.ok]
                ELSE NoCall
ImplementsAccountStore == Store!StoreSpec

(* Whatever the database, the other connections and the removals do, what  *)
(* a connected chat server has sent is read unless the server ends.        *)
Live == pc # "ended" /\ listening
RequestsAreRead ==
  \A c \in Conns :
    Live /\ link[c] \in {"open", "fin"} /\ inbound[c] # << >> ~> ~Live \/ inbound[c] = << >>
=============================================================================
