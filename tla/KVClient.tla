------------------------------- MODULE KVClient -------------------------------
(***************************************************************************)
(* One session of the client CLI (src/client/main.cpp with KVClient,       *)
(* src/client/kvclient.cpp) against the server's side of its connection    *)
(* (KVServer::onConnection, onMessage, handleRequest and                   *)
(* Codec::encodeResponse).                                                 *)
(*                                                                         *)
(* The client sends one command line and then makes one recv(); what that  *)
(* recv returns is whatever part of the server's reply stream has arrived,  *)
(* modelled at the granularity of whole reply lines: a nonempty prefix of   *)
(* the replies sent and not yet read, except that recv() takes at most     *)
(* 4095 bytes, so it may stop inside a reply line longer than that (a GET  *)
(* of a value in LongValues): it then returns the line's front and leaves  *)
(* the rest, a REST piece, at the head of the stream.  The session uses    *)
(* one key; the store holds its value or NoValue.  A reply is a record    *)
(* [st, msg]; its wire text is encodeResponse's "+OK msg", "-NOT_FOUND",  *)
(* "+PONG", "+BYE", and the greeting "+WELCOME ReactorKV Server".          *)
(***************************************************************************)
EXTENDS Integers, Sequences

CONSTANTS
    Values,   \* values the user may PUT
    LongValues, \* those whose "+OK value" line is longer than one recv takes
    NoValue,  \* the key is absent from the store
    MaxCmds   \* REPL lines the user types before EOF

ASSUME NoValue \notin Values /\ LongValues \subseteq Values /\ MaxCmds \in Nat

(* REPL commands that reach the network, each with its PUT value or NoValue. *)
Commands == {[op |-> o, val |-> NoValue] : o \in {"PING", "GET", "DEL", "EXISTS", "SIZE", "CLEAR"}}
            \cup {[op |-> "PUT", val |-> v] : v \in Values}
Requests == Commands \cup {[op |-> "QUIT", val |-> NoValue]}

(* What the user may type at the REPL: a command, or PUT with no value. *)
UserLines == Commands \cup {[op |-> "PUT", val |-> ""]}

Msgs == Values \cup {"", "cut", "CREATED", "UPDATED", "DELETED", "CLEARED", "0", "1", "ReactorKV Server"}
Replies == [st : {"OK", "NOT_FOUND", "PONG", "BYE", "WELCOME", "REST"}, msg : Msgs]

VARIABLES
    cpc,       \* client: "connect", "ping0", "recv0", "repl", "recv", "bye", "recvbye", "done"
    connected, \* connect() succeeded (sockfd_ >= 0)
    cur,       \* the REPL command whose reply the client awaits
    ncmds,     \* REPL commands typed so far
    exitCode,  \* main()'s return value once decided, else -1
    toServer,  \* request lines sent and not yet consumed by onMessage
    toClient,  \* reply lines sent by the server and not yet recv'd
    accepted,  \* the server has established the connection
    shut,      \* the server has shut down its write side after QUIT
    store,     \* the key's value in the store
    sent,      \* history: every reply line the server sent, in order
    log        \* history: each REPL command with what main() printed for it

vars == <<cpc, connected, cur, ncmds, exitCode, toServer, toClient, accepted,
          shut, store, sent, log>>

-----------------------------------------------------------------------------
(* The first byte encodeResponse (and the greeting) puts on a reply line; *)
(* the rest of a cut line starts inside the value.                        *)
Sign(r) == CASE r.st = "NOT_FOUND" -> "-" [] r.st = "REST" -> "v" [] OTHER -> "+"

(* Response::ok / notFound / pong / bye built by handleRequest for a      *)
(* request against the store, and the store after it.                     *)
HandleRequest(req, s) ==
    CASE req.op = "PUT"    -> <<[st |-> "OK", msg |-> IF s = NoValue THEN "CREATED" ELSE "UPDATED"], req.val>>
      [] req.op = "GET"    -> <<IF s = NoValue THEN [st |-> "NOT_FOUND", msg |-> ""]
                                               ELSE [st |-> "OK", msg |-> s], s>>
      [] req.op = "DEL"    -> <<IF s = NoValue THEN [st |-> "NOT_FOUND", msg |-> ""]
                                               ELSE [st |-> "OK", msg |-> "DELETED"], NoValue>>
      [] req.op = "EXISTS" -> <<[st |-> "OK", msg |-> IF s = NoValue THEN "0" ELSE "1"], s>>
      [] req.op = "SIZE"   -> <<[st |-> "OK", msg |-> IF s = NoValue THEN "0" ELSE "1"], s>>
      [] req.op = "CLEAR"  -> <<[st |-> "OK", msg |-> "CLEARED"], NoValue>>
      [] req.op = "PING"   -> <<[st |-> "PONG", msg |-> ""], s>>
      [] req.op = "QUIT"   -> <<[st |-> "BYE", msg |-> ""], s>>

(* parseResponse's success: the received text is nonempty and starts      *)
(* with '+'.  rs is the sequence of reply lines one recv returned.         *)
ParseOk(rs) == rs # <<>> /\ Sign(rs[1]) = "+"

(* The text of a reply line other than "+OK msg", without its CR-LF. *)
LineText(r) == CASE r.st = "NOT_FOUND" -> "-NOT_FOUND"
                 [] r.st = "PONG"      -> "+PONG"
                 [] r.st = "BYE"       -> "+BYE"
                 [] r.st = "WELCOME"   -> "+WELCOME ReactorKV Server"
                 [] r.st = "REST"      -> "value bytes"

(* parseResponse's value: after "+OK " when the text starts with it,      *)
(* else the whole first line, up to the last byte that is not CR or LF;   *)
(* later reply lines stay glued on behind it.                             *)
ParseValue(rs) == [head |-> IF rs[1].st = "OK" THEN rs[1].msg ELSE LineText(rs[1]),
                   rest |-> Tail(rs)]

(* std::stoi(value): the leading decimal digits, if there are any. *)
Numerals == {"0", "1"}
StoiOk(rs) == ParseValue(rs).head \in Numerals

(* Mutant: main() without its check that PUT has a key and a value. *)
UsableAll(c) == TRUE

(* main(): PUT with an empty key or value prints the usage line and sends *)
(* nothing.                                                                *)
Usable(c) == ~(c.op = "PUT" /\ c.val = "")

(* Mutant: ping() accepts any nonempty reply. *)
PingNoCheck(rs) == rs # <<>>

(* ping(): response.find("PONG") != npos, anywhere in the received text. *)
PingOk(rs) == \E i \in DOMAIN rs : rs[i].st = "PONG"

(* What main() prints for a REPL command when its recv returned rs. *)
Shown(c, rs) ==
    CASE c.op = "PING"   -> IF PingOk(rs) THEN "PONG" ELSE "error"
      [] c.op = "PUT"    -> IF ParseOk(rs) THEN "OK" ELSE "error"
      [] c.op = "CLEAR"  -> IF ParseOk(rs) THEN "OK" ELSE "error"
      [] c.op = "GET"    -> IF ParseOk(rs) THEN ParseValue(rs) ELSE "nil"
      [] c.op = "DEL"    -> IF ParseOk(rs) THEN "1" ELSE "0"
      [] c.op = "EXISTS" -> IF ParseOk(rs) /\ ParseValue(rs) = [head |-> "1", rest |-> <<>>]
                              THEN "1" ELSE "0"
      [] c.op = "SIZE"   -> IF ParseOk(rs) /\ StoiOk(rs) THEN ParseValue(rs).head ELSE "error"

Init ==
    /\ cpc = "connect"
    /\ connected = FALSE
    /\ cur = [op |-> "PING", val |-> NoValue]
    /\ ncmds = 0
    /\ exitCode = -1
    /\ toServer = <<>>
    /\ toClient = <<>>
    /\ accepted = FALSE
    /\ shut = FALSE
    /\ store \in Values \cup {NoValue}   \* loadData may have restored the key
    /\ sent = <<>>
    /\ log = <<>>

-----------------------------------------------------------------------------
(* Client actions.  sendCommand is a send() step followed by a blocking   *)
(* recv() step; in between the server runs.                               *)

(* main(): client.connect(); on failure print the error and return 1      *)
(* (sockfd_ stays -1, so ~KVClient sends nothing).                         *)
Connect ==
    /\ cpc = "connect"
    /\ \/ /\ connected' = TRUE
          /\ cpc' = "ping0"
          /\ UNCHANGED exitCode
       \/ /\ cpc' = "done"
          /\ exitCode' = 1
          /\ UNCHANGED connected
    /\ UNCHANGED <<cur, ncmds, toServer, toClient, accepted, shut, store, sent, log>>

(* sendCommand's send(): the command line goes out, in the startup ping    *)
(* (ping0), a REPL line (repl) or disconnect()'s QUIT (bye).  A REPL line  *)
(* that fails main()'s usage check is consumed without a send.            *)
Send ==
    /\ \/ /\ cpc = "ping0"
          /\ toServer' = Append(toServer, [op |-> "PING", val |-> NoValue])
          /\ cpc' = "recv0"
          /\ UNCHANGED <<cur, ncmds>>
       \/ /\ cpc = "repl"
          /\ ncmds < MaxCmds
          /\ \E c \in UserLines :
               \/ /\ Usable(c)
                  /\ toServer' = Append(toServer, c)
                  /\ cur' = c
                  /\ cpc' = "recv"
               \/ /\ ~Usable(c)
                  /\ UNCHANGED <<toServer, cur, cpc>>
          /\ ncmds' = ncmds + 1
       \/ /\ cpc = "bye"
          /\ toServer' = Append(toServer, [op |-> "QUIT", val |-> NoValue])
          /\ cpc' = "recvbye"
          /\ UNCHANGED <<cur, ncmds>>
    /\ UNCHANGED <<connected, exitCode, toClient, accepted, shut, store, sent, log>>

(* The REPL reads QUIT or EXIT, or EOF: the loop ends, main() calls        *)
(* disconnect() and will return 0.                                          *)
Quit ==
    /\ cpc = "repl"
    /\ cpc' = "bye"
    /\ exitCode' = 0
    /\ UNCHANGED <<connected, cur, ncmds, toServer, toClient, accepted, shut, store, sent, log>>

(* A reply line longer than recv()'s 4095 bytes, and its two pieces when *)
(* a recv stops inside it: "+OK " and the value's first bytes, and the    *)
(* value's remaining bytes with the CR-LF.                               *)
Long(r) == r.st = "OK" /\ r.msg \in LongValues
CutFront == [st |-> "OK", msg |-> "cut"]
CutRest == [st |-> "REST", msg |-> ""]

(* sendCommand's recv(): it returns the reply lines that have arrived (a   *)
(* nonempty prefix of those in flight, the last possibly cut after 4095    *)
(* bytes), or "" at EOF after the server's shutdown.  After the startup   *)
(* ping, main() goes on to the REPL if ping()  *)
(* saw PONG and otherwise prints "Server not responding" and returns 1,    *)
(* whereupon ~KVClient's disconnect() still sends QUIT.  A REPL command     *)
(* prints its outcome; disconnect() closes the socket.                     *)
Recv ==
    /\ cpc \in {"recv0", "recv", "recvbye"}
    /\ \E n \in 0 .. Len(toClient), cut \in BOOLEAN :
         /\ n = 0 /\ ~cut => toClient = <<>> /\ shut
         /\ cut => n < Len(toClient) /\ Long(toClient[n + 1])
         /\ LET rs == SubSeq(toClient, 1, n) \o (IF cut THEN <<CutFront>> ELSE <<>>) IN
            /\ toClient' = IF cut THEN <<CutRest>> \o SubSeq(toClient, n + 2, Len(toClient))
                           ELSE SubSeq(toClient, n + 1, Len(toClient))
            /\ \/ /\ cpc = "recv0" /\ PingOk(rs)
                  /\ cpc' = "repl"
                  /\ UNCHANGED <<exitCode, log>>
               \/ /\ cpc = "recv0" /\ ~PingOk(rs)
                  /\ cpc' = "bye"
                  /\ exitCode' = 1
                  /\ UNCHANGED log
               \/ /\ cpc = "recv"
                  /\ log' = Append(log, [cmd |-> cur, shown |-> Shown(cur, rs)])
                  /\ cpc' = "repl"
                  /\ UNCHANGED exitCode
               \/ /\ cpc = "recvbye"
                  /\ cpc' = "done"
                  /\ UNCHANGED <<exitCode, log>>
    /\ UNCHANGED <<connected, cur, ncmds, toServer, accepted, shut, store, sent>>

-----------------------------------------------------------------------------
(* Server actions on this connection. *)

(* onConnection: once the connection is established the server sends     *)
(* the greeting before it reads any request.                               *)
Accept ==
    /\ connected /\ ~accepted
    /\ accepted' = TRUE
    /\ toClient' = Append(toClient, [st |-> "WELCOME", msg |-> "ReactorKV Server"])
    /\ sent' = Append(sent, [st |-> "WELCOME", msg |-> "ReactorKV Server"])
    /\ UNCHANGED <<cpc, connected, cur, ncmds, exitCode, toServer, shut, store, log>>

(* onMessage: parse the next request line, handleRequest, sendResponse;    *)
(* QUIT shuts down the write side and stops reading.                       *)
Serve ==
    /\ accepted /\ ~shut /\ toServer # <<>>
    /\ LET out == HandleRequest(Head(toServer), store) IN
       /\ toServer' = Tail(toServer)
       /\ store' = out[2]
       /\ toClient' = Append(toClient, out[1])
       /\ sent' = Append(sent, out[1])
       /\ shut' = (Head(toServer).op = "QUIT")
    /\ UNCHANGED <<cpc, connected, cur, ncmds, exitCode, accepted, log>>

Client == Connect \/ Send \/ Quit \/ Recv
Server == Accept \/ Serve

Next == Client \/ Server

Spec == Init /\ [][Next]_vars

-----------------------------------------------------------------------------
TypeOK ==
    /\ cpc \in {"connect", "ping0", "recv0", "repl", "recv", "bye", "recvbye", "done"}
    /\ connected \in BOOLEAN /\ accepted \in BOOLEAN /\ shut \in BOOLEAN
    /\ cur \in Requests
    /\ ncmds \in 0 .. MaxCmds
    /\ exitCode \in {-1, 0, 1}
    /\ toServer \in Seq(Requests)
    /\ toClient \in Seq(Replies) /\ sent \in Seq(Replies)
    /\ store \in Values \cup {NoValue}

(* Every REPL command prints the outcome of the server's reply to that    *)
(* command: the i-th command's recv returns exactly the reply to the i-th *)
(* request after the greeting and the startup PING, never the greeting or  *)
(* a neighbour's reply glued on.  This relies on the startup ping()        *)
(* (main.cpp) swallowing the unread +WELCOME.                              *)
ShowsOwnReply ==
    \A i \in DOMAIN log :
        i + 2 \in DOMAIN sent => log[i].shown = Shown(log[i].cmd, <<sent[i + 2]>>)

(* A client whose connect() succeeded reaches the REPL: main() never      *)
(* returns 1 with "Server not responding" from a live server.             *)
ConnectedClientStarts == ~(connected /\ exitCode = 1)

=============================================================================
