--------------------------- MODULE HttpConnection ---------------------------
(***************************************************************************)
(* One persistent connection: process_server_socket_core and               *)
(* Server::process_request, which read requests from a stream of bytes and *)
(* write an answer to each.  The client sends the messages of a script; a  *)
(* message is cut into units: its request line, its header fields, the     *)
(* empty line, pieces of its body and, if that is chunked, the last chunk. *)
(* The stream is the units of all messages in order, and the socket, the   *)
(* stream's read buffer and the parser are three positions in it.          *)
(*                                                                         *)
(* The client frames its messages as it declares them, but may send lines  *)
(* and headers the server cannot parse, may pipeline, hang up at any unit, *)
(* or be too slow for a timeout.                                           *)
(***************************************************************************)
EXTENDS Integers, SequencesExt, FiniteSets

CONSTANTS
  Scripts,       \* bound: the sequences of messages the client may send
  KeepAliveMax,  \* keep_alive_max_count_
  MaxPayload,    \* payload_max_length_, in units of a body
  RangeMaxCount, \* CPPHTTPLIB_RANGE_MAX_COUNT
  Lengths        \* bound: the lengths of a handler's response body

(* What parse_range_header lets through: <<first, last>>, with -1 for what  *)
(* the client left out.                                                     *)
RangeSpec ==
  { r \in ({-1} \cup Nat) \X ({-1} \cup Nat) :
      r # <<-1, -1>> /\ (r[2] # -1 => r[1] <= r[2]) }

(* A message of the client.  keep is its Connection header; frame is how    *)
(* its body is declared and body its pieces; line and head are whether these*)
(* can be parsed; refuse is the status with which its headers are refused,  *)
(* or 0; route is whether a handler is there for it.  form is its content:  *)
(* fine; unreadable, in a coding the build lacks or multipart without a     *)
(* boundary; broken, multipart that cannot be parsed; or long, more than    *)
(* url-encoded forms may have.                                              *)
Message ==
  [line : BOOLEAN, head : BOOLEAN, old : BOOLEAN,
   keep : {"default", "close", "keep-alive"},
   frame : {"none", "length", "chunked", "both", "other"}, body : Nat,
   form : {"fine", "unreadable", "broken", "long"}, expect : BOOLEAN, refuse : {0, 400, 414, 416},
   ranges : Seq(RangeSpec), route : BOOLEAN]

(* Only a message that declares a body has one: the client frames its       *)
(* messages as it says.                                                     *)
ASSUME ConnectionAssumption ==
  /\ Scripts \subseteq Seq(Message)
  /\ \A s \in Scripts : \A k \in DOMAIN s : s[k].frame = "none" => s[k].body = 0
  /\ KeepAliveMax \in Nat \ {0}
  /\ MaxPayload \in Nat
  /\ RangeMaxCount \in Nat
  /\ Lengths \subseteq Nat

VARIABLES
  script, stream,  \* the messages, and their units; these do not change
  sent,            \* units the client has sent
  taken,           \* units recv() has taken from the socket
  used,            \* units the parser has used; used .. taken is the buffer
  hungup,          \* the client sends no more
  early,           \* the client has sent a request before its predecessor's
                   \* answer, or after an answer that announces the end
  stage,           \* where the server's thread is
  spoiled,         \* the request line being read begins with a piece of a body
  req,             \* the message whose request line was read
  got,             \* units of its body read
  count,           \* process_server_socket_core's count
  continued,       \* the last request for which a 100 was sent
  answers,         \* the responses written
  late             \* a timeout has ended a read

clientVars == <<script, stream, sent, hungup, early>>
parser     == <<spoiled, req, got>>
vars == <<clientVars, taken, used, stage, parser, count, continued, answers, late>>

(* A faulty variant of Framed: a chunked body goes unread. *)
FramedByLength(m) == m.frame = "length" /\ m.body > 0

Chunked(m) == m.frame = "chunked"

Framed(m) == Chunked(m) \/ (m.frame = "length" /\ m.body > 0)

Persistent(m) == m.keep # "close" /\ (m.old => m.keep = "keep-alive")

Units(m) ==
  <<"line", "field", "end">> \o [i \in 1 .. m.body |-> "data"]
    \o (IF m.frame \in {"chunked", "both"} THEN <<"last">> ELSE <<>>)

StreamOf(s) ==
  FlattenSeq([k \in DOMAIN s |->
    [i \in DOMAIN Units(s[k]) |-> [of |-> k, kind |-> Units(s[k])[i]]]])

Init ==
  /\ script \in Scripts
  /\ stream = StreamOf(script)
  /\ sent = 0 /\ taken = 0 /\ used = 0
  /\ hungup = FALSE /\ early = FALSE /\ late = FALSE
  /\ stage = "waiting" /\ spoiled = FALSE /\ req = 0 /\ got = 0
  /\ count = KeepAliveMax
  /\ continued = 0 /\ answers = <<>>

Answered(k) == \E i \in DOMAIN answers : answers[i].to = k
Closing     == \E i \in DOMAIN answers : answers[i].close

-----------------------------------------------------------------------------
(* The client.                                                             *)

(* A request follows the answer to the one before, unless the client       *)
(* pipelines, and may be under way when an answer announces the end; a     *)
(* body announced by Expect follows the 100 or an answer.                  *)
Send ==
  /\ stage # "closed" /\ ~hungup /\ sent < Len(stream)
  /\ LET u == stream[sent + 1]
     IN /\ u.kind \in {"data", "last"} /\ script[u.of].expect
             => continued >= u.of \/ Answered(u.of)
        /\ early' = (early \/ (u.kind = "line"
                               /\ (Len(answers) < u.of - 1 \/ Closing)))
  /\ sent' = sent + 1
  /\ UNCHANGED <<script, stream, hungup, taken, used, stage, parser, count,
                 continued, answers, late>>

HangUp ==
  /\ stage # "closed" /\ ~hungup
  /\ hungup' = TRUE
  /\ UNCHANGED <<script, stream, sent, early, taken, used, stage, parser, count,
                 continued, answers, late>>

-----------------------------------------------------------------------------
(* The socket and the stream's buffer.                                     *)

Reading  == stage \in {"line", "headers", "body"}
Buffered == used < taken
Starved  == used = taken /\ taken = sent

(* recv() takes what has arrived, up to the size of the buffer.            *)
Receive ==
  /\ Reading /\ ~Buffered
  /\ \E n \in taken + 1 .. sent : taken' = n
  /\ UNCHANGED <<clientVars, used, stage, parser, count, continued, answers, late>>

(* A read from the buffer yields the next unit.                            *)
NextUnit == stream[used + 1]
Use(kinds) == /\ Buffered /\ NextUnit.kind \in kinds
              /\ used' = used + 1

-----------------------------------------------------------------------------
(* Faulty variants of steps below, to show that the properties can fail.   *)
(* They are no part of Next.                                               *)

(* Errors, or the last request, are not announced. *)
AnnouncesButErrors(k, status) == count = 1 \/ (k # 0 /\ script[k].keep = "close")
AnnouncesButLast(k, status) == (k # 0 /\ script[k].keep = "close") \/ status >= 400

(* The client is left to wait for its 100. *)
ContinueNever == continued' = continued

(* No limit to the body. *)
ReadBodyAny ==
  /\ stage = "body" /\ Use({"data"})
  /\ got' = got + 1
  /\ stage' = IF ~Chunked(script[req]) /\ got' = script[req].body
              THEN "content" ELSE "body"
  /\ UNCHANGED <<clientVars, taken, spoiled, req, count, continued, answers, late>>

(* A range is not cut at the end of the body. *)
ClampedNot(r, len) == IF r[1] = -1 THEN <<len - r[2], len - 1>> ELSE r

-----------------------------------------------------------------------------
(* The end of process_request: the response to message k (or 0, for a line *)
(* that is none) is written, and the loop goes on or ends.  The buffer     *)
(* goes with the stream, which is made anew for each request.              *)

(* Don't leave connections open after errors: the header says so.          *)
AnnouncesClose(k, status) ==
  \/ count = 1
  \/ k # 0 /\ script[k].keep = "close"
  \/ status >= 400

(* connection_closed after a request that came to routing; consumed is     *)
(* req.body_consumed_.  A framed body that was not read closes the         *)
(* connection once the response has announced it.  (One that has not would *)
(* be read to its end, but only a handler's answers announce nothing, and  *)
(* a handler is called with the body read.)                                *)
Closes(k, status, consumed) ==
  \/ ~Persistent(script[k])
  \/ ~consumed /\ Framed(script[k]) /\ AnnouncesClose(k, status)

(* closed is connection_closed when process_request returns.               *)
Respond(k, status, len, closed) ==
  /\ answers' = Append(answers, [to |-> k, status |-> status, len |-> len,
                                 close |-> AnnouncesClose(k, status)])
  /\ stage' = IF count = 1 \/ closed THEN "closed" ELSE "waiting"
  /\ count' = count - 1

(* The client may be gone: write_data fails, process_request is false.     *)
RespondFails ==
  /\ hungup
  /\ stage' = "closed"
  /\ UNCHANGED <<answers, count>>

Discard == taken' = taken /\ used' = taken /\ spoiled' = FALSE /\ req' = 0 /\ got' = 0

End(k, status, len, closed) ==
  /\ Respond(k, status, len, closed) \/ RespondFails
  /\ Discard
  /\ UNCHANGED <<clientVars, continued, late>>

-----------------------------------------------------------------------------
(* keep_alive and the request line.                                        *)

Begin ==
  /\ stage = "waiting" /\ (sent > taken \/ hungup)
  /\ stage' = "line"
  /\ UNCHANGED <<clientVars, taken, used, parser, count, continued, answers, late>>

(* No byte within keep_alive_timeout_sec_.                                 *)
GiveUp ==
  /\ stage = "waiting" /\ sent = taken /\ ~hungup
  /\ stage' = "closed" /\ late' = TRUE
  /\ UNCHANGED <<clientVars, taken, used, parser, count, continued, answers>>

ReadLine ==
  /\ stage = "line" /\ ~spoiled /\ Use({"line"}) /\ script[NextUnit.of].line
  /\ stage' = "headers" /\ req' = NextUnit.of
  /\ UNCHANGED <<clientVars, taken, spoiled, got, count, continued, answers, late>>

(* Whatever else ends with CR LF is no request line: 400.                  *)
ReadNoLine ==
  /\ stage = "line" /\ Buffered
  /\ NextUnit.kind = "line" /\ script[NextUnit.of].line => spoiled
  /\ End(0, 400, 0, FALSE)

(* A piece of a body need not end with CR LF; the line goes on after it.   *)
SpoilLine ==
  /\ stage = "line" /\ Use({"data"})
  /\ spoiled' = TRUE
  /\ UNCHANGED <<clientVars, taken, stage, req, got, count, continued, answers, late>>

-----------------------------------------------------------------------------
(* The header fields.                                                      *)

ReadField ==
  /\ stage = "headers" /\ Use({"field"}) /\ script[req].head
  /\ UNCHANGED <<clientVars, taken, stage, parser, count, continued, answers, late>>

(* The response announces the end, but the early return leaves             *)
(* connection_closed as it was, and the loop reads on: what is left of the *)
(* header and of the body is read as the next request.                     *)
ReadNoField ==
  /\ stage = "headers" /\ Buffered /\ NextUnit.kind = "field" /\ ~script[req].head
  /\ End(req, 400, 0, FALSE)

Ends == stage = "headers" /\ Buffered /\ NextUnit.kind = "end"

(* Framing nobody can be sure of is refused: a length beside a transfer    *)
(* coding, or a transfer coding that does not end with chunked.            *)
Ambiguous(m) == m.frame \in {"both", "other"}

(* Target too long, or an Accept or a Range that cannot be parsed.         *)
Refused(m) == m.refuse # 0

Refuse ==
  /\ Ends
  /\ \/ Ambiguous(script[req]) /\ End(req, 400, 0, TRUE)
     \/ /\ ~Ambiguous(script[req]) /\ Refused(script[req])
        /\ End(req, script[req].refuse, 0, TRUE)

Accepted == Ends /\ ~Ambiguous(script[req]) /\ ~Refused(script[req])

(* 100 Continue, which HTTP/1.0 does not know.                             *)
Continue ==
  continued' = IF script[req].expect /\ ~script[req].old THEN req ELSE continued

(* The body of a request with a handler, if it has one, is read before the *)
(* handler runs, but not if its content cannot be read whatever it is.     *)
Unreadable(m) == Framed(m) /\ m.form = "unreadable"

(* Only GET and HEAD of /build and of /search have handlers, and nothing   *)
(* is read of the body of another request: 404, or 400 for a method that   *)
(* routing does not know.                                                  *)
NoRoute ==
  /\ Accepted /\ ~script[req].route
  /\ \E status \in {400, 404} :
       Respond(req, status, 0, Closes(req, status, FALSE)) \/ RespondFails
  /\ Continue /\ Discard
  /\ UNCHANGED <<clientVars, late>>

RefuseBody ==
  /\ Accepted /\ script[req].route /\ Unreadable(script[req])
  /\ \E status \in {400, 415} :
       Respond(req, status, 0, Closes(req, status, FALSE)) \/ RespondFails
  /\ Continue /\ Discard
  /\ UNCHANGED <<clientVars, late>>

Route ==
  /\ Accepted /\ script[req].route /\ ~Unreadable(script[req])
  /\ Use({"end"})
  /\ Continue
  /\ stage' = IF Framed(script[req]) THEN "body" ELSE "handler"
  /\ UNCHANGED <<clientVars, taken, parser, count, answers, late>>

-----------------------------------------------------------------------------
(* The body, by its length or chunk by chunk.                              *)

ReadBody ==
  /\ stage = "body" /\ Use({"data"}) /\ got < MaxPayload
  /\ got' = got + 1
  /\ stage' = IF ~Chunked(script[req]) /\ got' = script[req].body
              THEN "content" ELSE "body"
  /\ UNCHANGED <<clientVars, taken, spoiled, req, count, continued, answers, late>>

ReadTooMuch ==
  /\ stage = "body" /\ Buffered /\ NextUnit.kind = "data" /\ got = MaxPayload
  /\ End(req, 413, 0, Closes(req, 413, FALSE))

(* The parser of form data gives up at a piece.                            *)
ReadBroken ==
  /\ stage = "body" /\ Buffered /\ NextUnit.kind = "data"
  /\ script[req].form = "broken"
  /\ End(req, 400, 0, Closes(req, 400, FALSE))

ReadLastChunk ==
  /\ stage = "body" /\ Use({"last"})
  /\ stage' = "content"
  /\ UNCHANGED <<clientVars, taken, parser, count, continued, answers, late>>

(* Form data without its end, or too long a form, is found out once the    *)
(* body is read.                                                           *)
Content ==
  /\ stage = "content"
  /\ \/ /\ script[req].form \notin {"broken", "long"}
        /\ stage' = "handler"
        /\ UNCHANGED <<clientVars, taken, used, parser, count, continued, answers, late>>
     \/ script[req].form = "broken" /\ End(req, 400, 0, Closes(req, 400, TRUE))
     \/ script[req].form = "long"   /\ End(req, 413, 0, Closes(req, 413, TRUE))

-----------------------------------------------------------------------------
(* The client hung up in the middle of a message, or a read timed out.     *)

ReadFails ==
  /\ Reading /\ Starved
  /\ late' = (late \/ ~hungup)
  /\ \/ /\ stage = "line" /\ ~(spoiled /\ hungup)
        /\ stage' = "closed"
        /\ Discard /\ UNCHANGED <<answers, count>>
     \/ /\ stage = "line" /\ spoiled /\ hungup
        /\ Respond(0, 400, 0, FALSE) \/ RespondFails
        /\ Discard
     \/ /\ stage = "headers"
        /\ Respond(req, 400, 0, FALSE) \/ RespondFails
        /\ Discard
     \/ /\ stage = "body"
        /\ Respond(req, 400, 0, Closes(req, 400, FALSE)) \/ RespondFails
        /\ Discard
  /\ UNCHANGED <<clientVars, continued>>

-----------------------------------------------------------------------------
(* The handler and the ranges of its response.                             *)

(* The bytes a range asks for, cut at the end of the body.                 *)
Clamped(r, len) ==
  LET first == IF r[1] = -1 THEN len - r[2] ELSE r[1]
      last  == IF r[1] = -1 \/ r[2] = -1 \/ r[2] >= len THEN len - 1 ELSE r[2]
  IN <<first, last>>

RangeError(ranges, len) ==
  LET rs == [i \in DOMAIN ranges |-> Clamped(ranges[i], len)]
      Overlaps(i, j) == rs[j][1] <= rs[i][2] /\ rs[i][1] <= rs[j][2]
  IN \/ Len(ranges) > RangeMaxCount
     \/ \E i \in DOMAIN rs : ~(0 <= rs[i][1] /\ rs[i][1] <= rs[i][2])
     \/ Cardinality({ i \in DOMAIN rs : \E j \in 1 .. i - 1 : Overlaps(i, j) }) > 2

(* 200, or 400 for a search without a query, or 500 for an exception.  The *)
(* handlers set the status, so that ranges are checked but never cut from  *)
(* the body (206 is for a handler that leaves the status open).            *)
Handle ==
  /\ stage = "handler"
  /\ \/ \E status \in {400, 500} :
          End(req, status, 0, Closes(req, status, TRUE))
     \/ \E len \in Lengths :
          LET status == IF RangeError(script[req].ranges, len) THEN 416 ELSE 200
          IN End(req, status, len, Closes(req, status, TRUE))

Idle == stage = "closed" /\ UNCHANGED vars

Server ==
  \/ Receive \/ Begin \/ ReadLine \/ ReadNoLine \/ SpoilLine
  \/ ReadField \/ ReadNoField \/ Refuse \/ NoRoute \/ RefuseBody \/ Route
  \/ ReadBody \/ ReadTooMuch \/ ReadBroken \/ ReadLastChunk \/ Content \/ Handle

Next == Send \/ HangUp \/ Server \/ GiveUp \/ ReadFails \/ Idle

(* The thread of the connection goes on with what has arrived.  The client *)
(* owes nothing, and no timeout must expire.                               *)
Spec == Init /\ [][Next]_vars /\ WF_vars(Server)

-----------------------------------------------------------------------------
(***************************************************************************)
(* Properties.                                                             *)
(***************************************************************************)

(* The type of every variable.                                             *)
TypeOK ==
  /\ script \in Scripts /\ stream = StreamOf(script)
  /\ sent \in 0 .. Len(stream)
  /\ taken \in 0 .. sent /\ used \in 0 .. taken
  /\ hungup \in BOOLEAN /\ early \in BOOLEAN /\ spoiled \in BOOLEAN /\ late \in BOOLEAN
  /\ stage \in {"waiting", "line", "headers", "body", "content", "handler", "closed"}
  /\ req \in 0 .. Len(script) /\ continued \in 0 .. Len(script)
  /\ got \in 0 .. MaxPayload
  /\ count \in 0 .. KeepAliveMax
  /\ \A i \in DOMAIN answers :
       /\ answers[i].to \in 0 .. Len(script)
       /\ answers[i].status \in {200, 400, 404, 413, 414, 415, 416, 500}
       /\ answers[i].len \in Lengths \cup {0}
       /\ answers[i].close \in BOOLEAN

(* The messages of which the first n units of the stream are all.          *)
Whole(n) == n = 0 \/ n = Len(stream) \/ stream[n + 1].kind = "line"

(***************************************************************************)
(* Until a response announces the end of the connection, each request is   *)
(* read from where its message begins: nothing of a body is left behind,   *)
(* and nothing of the next message is used up, for a client that does not  *)
(* pipeline.                                                               *)
(***************************************************************************)
FramingKept ==
  stage = "waiting" /\ ~Closing /\ ~early
    => Whole(used) /\ (used < Len(stream) => stream[used + 1].of = Len(answers) + 1)

(***************************************************************************)
(* The answers are to the messages in their order, none to two of them and *)
(* none twice, up to the first that announces the end of the connection;   *)
(* pipelined requests can be lost, but no handler's answer moves to        *)
(* another message.                                                        *)
(***************************************************************************)
AnswersInOrder ==
  /\ \A i, j \in DOMAIN answers :
       i < j /\ answers[i].to # 0 /\ answers[j].to # 0 => answers[i].to < answers[j].to
  /\ ~early =>
       \A i \in DOMAIN answers :
         (\A j \in 1 .. i - 1 : ~answers[j].close) /\ answers[i].to # 0
           => answers[i].to = i

(***************************************************************************)
(* The server closes a connection only if it has said so, if the client    *)
(* hung up or was too slow, or if the request was an HTTP/1.0 one without  *)
(* keep-alive.                                                             *)
(***************************************************************************)
CloseAnnounced ==
  stage = "closed" /\ ~hungup /\ ~late =>
    /\ answers # <<>>
    /\ LET a == Last(answers)
       IN a.close \/ (a.to # 0 /\ ~Persistent(script[a.to]))

(* The bytes of a body of length len that a range asks for.                *)
Selected(r, len) ==
  { p \in 0 .. len - 1 : IF r[1] = -1 THEN p >= len - r[2]
                         ELSE p >= r[1] /\ (r[2] = -1 \/ p <= r[2]) }

(***************************************************************************)
(* A handler's result is withheld because of the ranges of its request     *)
(* only if they are too many, if one of them selects nothing or is a suffix*)
(* longer than the body, or if three of them overlap others, and is sent   *)
(* only if they are not too many and all of them select something.         *)
(***************************************************************************)
RangesSatisfied ==
  \A i \in DOMAIN answers :
    LET a == answers[i]
        rs == script[a.to].ranges
    IN a.to # 0 =>
       /\ a.status = 200 =>
            /\ Len(rs) <= RangeMaxCount
            /\ \A k \in DOMAIN rs : Selected(rs[k], a.len) # {}
       /\ a.status = 416 /\ script[a.to].refuse = 0 =>
            \/ Len(rs) > RangeMaxCount
            \/ \E k \in DOMAIN rs : \/ Selected(rs[k], a.len) = {}
                                    \/ rs[k][1] = -1 /\ rs[k][2] > a.len
            \/ Cardinality({ k \in DOMAIN rs :
                 \E j \in DOMAIN rs \ {k} :
                   Selected(rs[j], a.len) \cap Selected(rs[k], a.len) # {} }) > 2

(* The client has sent all of message k that it can send without an answer.*)
Awaits(k) ==
  /\ sent > 0 /\ stream[sent].of = k
  /\ Whole(sent) \/ (stream[sent].kind = "end" /\ script[k].expect)

(* The server has said to the client what it needs to go on after k.       *)
Told(k) == continued >= k \/ Answered(k) \/ Closing \/ stage = "closed"

(***************************************************************************)
(* A client that does not pipeline never waits for an answer, or for the   *)
(* 100 it has asked for, while the server waits for the client.            *)
(***************************************************************************)
NobodyWaitsForever ==
  \A k \in UNION { DOMAIN s : s \in Scripts } :
    Awaits(k) /\ ~early ~> Told(k) \/ early
=============================================================================
