------------------------------- MODULE Codec --------------------------------
(***************************************************************************)
(* Request framing and parsing: Codec::parseRequest and Codec::parseLine   *)
(* (src/src/protocol/codec.h), driven by the loop of KVServer::onMessage    *)
(* (src/src/server/kv_server.cpp) over the bytes of one input buffer.       *)
(*                                                                         *)
(* The conversion is what is checked, so bytes are modelled one by one:    *)
(* a byte is a one-character string, except the control bytes, which are   *)
(* the names SP (' '), TAB ('\t'), CR ('\r') and LF ('\n').  The buffer     *)
(* is chosen once in Init from the set Buffers; each step of the loop      *)
(* parses one request off its front.                                       *)
(*                                                                         *)
(* The reference definitions (Spec...) state the framing and tokenising    *)
(* rules of spec.md 4.8 independently of the code's algorithm.             *)
(***************************************************************************)
EXTENDS Naturals, FiniteSets, Sequences, SequencesExt, TLC

CONSTANTS
    Buffers,    \* the input buffers to parse, sequences of bytes
    Upper       \* ::toupper on the bytes that occur: a function byte -> byte

SP == "SP"
TAB == "TAB"
CR == "CR"
LF == "LF"

(* std::isspace, on the bytes that occur. *)
Space == {SP, TAB, CR, LF}

(* CommandType (message.h). *)
Commands == {"kUnknown", "kPut", "kGet", "kDel", "kExists", "kSize",
             "kClear", "kPing", "kQuit"}

(* The command words parseLine compares the upper-cased first token       *)
(* with, and the command each one selects.                                *)
CommandWords ==
    (<<"P","U","T">> :> "kPut") @@ (<<"S","E","T">> :> "kPut")
    @@ (<<"G","E","T">> :> "kGet")
    @@ (<<"D","E","L">> :> "kDel") @@ (<<"D","E","L","E","T","E">> :> "kDel")
    @@ (<<"E","X","I","S","T","S">> :> "kExists")
    @@ (<<"S","I","Z","E">> :> "kSize") @@ (<<"D","B","S","I","Z","E">> :> "kSize")
    @@ (<<"C","L","E","A","R">> :> "kClear")
    @@ (<<"F","L","U","S","H","D","B">> :> "kClear")
    @@ (<<"P","I","N","G">> :> "kPing")
    @@ (<<"Q","U","I","T">> :> "kQuit") @@ (<<"E","X","I","T">> :> "kQuit")

(* The arguments each command needs after the command word. *)
Arity(cmd) ==
    CASE cmd = "kPut" -> 2
      [] cmd \in {"kGet", "kDel", "kExists"} -> 1
      [] OTHER -> 0

(* Request(): the default command kUnknown and empty key and value. *)
NoRequest == [cmd |-> "kUnknown", key |-> <<>>, value |-> <<>>]

VARIABLES
    input,      \* the buffer as it arrived
    buf,        \* inputBuffer_: the bytes not yet retrieved
    reqs,       \* the requests parsed so far, in order
    done        \* onMessage has returned

vars == <<input, buf, reqs, done>>

-----------------------------------------------------------------------------
(* std::search and std::string::find: the first position at which pat   *)
(* occurs in s, 0 if it does not (nullptr, npos).  IndexFirstSubSeq of    *)
(* SequencesExt says the same but enumerates every subsequence.           *)
Find(pat, s) ==
    LET at == {i \in 1 .. Len(s) + 1 - Len(pat) : SubSeq(s, i, i + Len(pat) - 1) = pat}
    IN  IF at = {} THEN 0 ELSE Min(at)

(* Buffer::findCRLF *)
FindCRLF(b) == Find(<<CR, LF>>, b)

(* memchr(peek(), '\n', readableBytes()). *)
FindLF(b) == SelectInSeq(b, LAMBDA ch : ch = LF)

(* lineEnd: the earlier of the two, or 0 if there is no line yet. *)
LineEnd(b) ==
    LET crlf == FindCRLF(b)
        lf   == FindLF(b)
    IN  CASE crlf # 0 /\ lf # 0 -> IF crlf < lf THEN crlf ELSE lf
          [] crlf # 0 -> crlf
          [] OTHER -> lf

(* Fault-injected variant: bytesToSkip always lineLen + 1, leaving the   *)
(* '\n' of a "\r\n" in the buffer.                                        *)
BytesToSkipOne(b, le) == le

(* bytesToSkip: past "\r\n" if lineEnd points at it, else past one byte. *)
BytesToSkip(b, le) ==
    IF b[le] = CR /\ le + 1 <= Len(b) /\ b[le + 1] = LF THEN le + 1 ELSE le

(* Codec::split: istringstream >> token, the maximal runs of non-space. *)
RECURSIVE Split(_)
Split(s) ==
    IF s = <<>> THEN <<>>
    ELSE IF s[1] \in Space THEN Split(Tail(s))
    ELSE LET sp  == SelectInSeq(s, LAMBDA ch : ch \in Space)
             len == IF sp = 0 THEN Len(s) ELSE sp - 1
         IN  <<SubSeq(s, 1, len)>> \o Split(SubSeq(s, len + 1, Len(s)))

(* Codec::toUpper *)
ToUpper(w) == [i \in DOMAIN w |-> IF w[i] \in DOMAIN Upper THEN Upper[w[i]] ELSE w[i]]

(* The value of a PUT: from line.find(key) + key.size(), past any spaces, *)
(* to the end of the line.                                                 *)
ValueOf(line, key) ==
    LET from == Find(key, line) + Len(key)
        v    == SelectInSubSeq(line, from, Len(line), LAMBDA ch : ch \notin Space)
    IN  IF v = 0 THEN <<>> ELSE SubSeq(line, v, Len(line))

(* Codec::parseLine: the first token selects the command; a command with *)
(* too few tokens, or an unknown word, is kUnknown.                       *)
ParseLine(line) ==
    LET parts == Split(line)
        word  == IF parts = <<>> THEN <<>> ELSE ToUpper(parts[1])
        cmd   == IF word \in DOMAIN CommandWords THEN CommandWords[word] ELSE "kUnknown"
    IN  IF parts = <<>> \/ Len(parts) < Arity(cmd) + 1 THEN NoRequest
        ELSE [cmd   |-> cmd,
              key   |-> IF Arity(cmd) > 0 THEN parts[2] ELSE <<>>,
              value |-> IF cmd = "kPut" THEN ValueOf(line, parts[2]) ELSE <<>>]

(* Codec::parseRequest: nothing if no line is complete; otherwise the     *)
(* line without its terminator and one trailing '\r', the request parsed  *)
(* from it, and the buffer after retrieve(bytesToSkip).                   *)
ParseRequest(b) ==
    LET le   == LineEnd(b)
        raw  == SubSeq(b, 1, le - 1)
        line == IF raw # <<>> /\ Last(raw) = CR THEN Front(raw) ELSE raw
    IN  IF le = 0 THEN [ok |-> FALSE]
        ELSE [ok   |-> TRUE,
              req  |-> ParseLine(line),
              line |-> line,
              rest |-> SubSeq(b, BytesToSkip(b, le) + 1, Len(b))]

Init ==
    /\ input \in Buffers
    /\ buf = input
    /\ reqs = <<>>
    /\ done = FALSE

(* Fault-injected variant: the loop of onMessage without the break      *)
(* after QUIT.                                                            *)
OnMessageStepNoBreak ==
    /\ ~done
    /\ buf # <<>>
    /\ ParseRequest(buf).ok
    /\ reqs' = Append(reqs, ParseRequest(buf).req)
    /\ buf' = ParseRequest(buf).rest
    /\ UNCHANGED <<input, done>>

(* One iteration of the while loop of onMessage: a request is parsed,    *)
(* handled and answered; after QUIT the loop breaks.                      *)
OnMessageStep ==
    /\ ~done
    /\ buf # <<>>
    /\ ParseRequest(buf).ok
    /\ LET p == ParseRequest(buf) IN
       /\ reqs' = Append(reqs, p.req)
       /\ buf' = p.rest
       /\ done' = (p.req.cmd = "kQuit")
    /\ UNCHANGED input

(* The loop ends when the buffer is empty or holds no complete line. *)
OnMessageReturn ==
    /\ ~done
    /\ buf = <<>> \/ ~ParseRequest(buf).ok
    /\ done' = TRUE
    /\ UNCHANGED <<input, buf, reqs>>

Next == OnMessageStep \/ OnMessageReturn

Spec == Init /\ [][Next]_vars

-----------------------------------------------------------------------------
(* The reference: spec.md 4.8.  A line ends at the first LF; its text is   *)
(* what precedes the LF minus one trailing CR; the tokens are the maximal  *)
(* runs of non-whitespace; the value of a PUT starts at the first          *)
(* non-whitespace byte after the key token and runs to the end of the line.*)
SpecLine(b) ==
    LET raw == SubSeq(b, 1, FindLF(b) - 1)
    IN  IF raw # <<>> /\ Last(raw) = CR THEN Front(raw) ELSE raw

(* The positions where a token starts, and where the token at i ends. *)
TokenStarts(line) ==
    {i \in 1 .. Len(line) : line[i] \notin Space /\ (i = 1 \/ line[i - 1] \in Space)}

TokenEnd(line, i) ==
    CHOOSE e \in i .. Len(line) :
        /\ \A j \in i .. e : line[j] \notin Space
        /\ e = Len(line) \/ line[e + 1] \in Space

SpecTokens(line) ==
    LET st == SetToSortSeq(TokenStarts(line), <)
    IN  [k \in DOMAIN st |-> SubSeq(line, st[k], TokenEnd(line, st[k]))]

(* The value after the key token, the second token of the line. *)
SpecValue(line) ==
    LET st   == SetToSortSeq(TokenStarts(line), <)
        from == TokenEnd(line, st[2]) + 1
        rest == {j \in from .. Len(line) : line[j] \notin Space}
    IN  IF rest = {} THEN <<>> ELSE SubSeq(line, Min(rest), Len(line))

SpecRequest(line) ==
    LET t    == SpecTokens(line)
        word == IF t = <<>> THEN <<>> ELSE ToUpper(t[1])
        cmd  == IF word \in DOMAIN CommandWords THEN CommandWords[word] ELSE "kUnknown"
    IN  IF t = <<>> \/ Len(t) < Arity(cmd) + 1 THEN NoRequest
        ELSE [cmd   |-> cmd,
              key   |-> IF Arity(cmd) > 0 THEN t[2] ELSE <<>>,
              value |-> IF cmd = "kPut" THEN SpecValue(line) ELSE <<>>]

(* The requests the spec's parsing loop takes from b, up to and including *)
(* a QUIT, and the bytes it leaves.                                        *)
RECURSIVE SpecParse(_)
SpecParse(b) ==
    IF FindLF(b) = 0 THEN [reqs |-> <<>>, rest |-> b]
    ELSE LET r    == SpecRequest(SpecLine(b))
             tail == SubSeq(b, FindLF(b) + 1, Len(b))
         IN  IF r.cmd = "kQuit" THEN [reqs |-> <<r>>, rest |-> tail]
             ELSE LET s == SpecParse(tail)
                  IN  [reqs |-> <<r>> \o s.reqs, rest |-> s.rest]

-----------------------------------------------------------------------------
(* The number of LF bytes in b: no more requests than lines. *)
LFCount(b) == Cardinality({i \in DOMAIN b : b[i] = LF})

TypeOK ==
    /\ input \in Seq(STRING)     \* one of Buffers: no step changes it
    /\ IsSuffix(buf, input)
    /\ Len(reqs) <= LFCount(input)
    /\ \A i \in DOMAIN reqs : reqs[i].cmd \in Commands
    /\ done \in BOOLEAN

(* onMessage frames the input as spec.md 4.8 says: when it returns, the   *)
(* commands and keys it parsed are those of the spec's lines, up to and   *)
(* including a QUIT, and what it left in inputBuffer_ is exactly what     *)
(* follows them: no line is lost, merged, split, or taken past a QUIT,    *)
(* whatever mix of "\r\n", "\n" and stray '\r' ends the lines.           *)
FramingAsSpec ==
    done =>
      LET s == SpecParse(input) IN
      /\ Len(reqs) = Len(s.reqs)
      /\ \A i \in DOMAIN reqs : /\ reqs[i].cmd = s.reqs[i].cmd
                                /\ reqs[i].key = s.reqs[i].key
      /\ buf = s.rest

(* The value parseLine stores for a PUT is the one spec.md 4.8 defines:   *)
(* the rest of the line from the first non-space byte after the key      *)
(* token, internal spacing kept.                                          *)
PutValueAsSpec ==
    done =>
      LET s == SpecParse(input) IN
      \A i \in DOMAIN reqs :
          reqs[i].cmd = "kPut" => reqs[i].value = s.reqs[i].value

=============================================================================
