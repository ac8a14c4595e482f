---------------------------- MODULE RtspMessages ----------------------------
(***************************************************************************)
(* The requests of one RTSP connection: how rtsp_read_request makes them   *)
(* out of the bytes that arrive, how a Classic AirPlay source proves that  *)
(* it knows the password, and how rtsp_conversation_thread_func handles    *)
(* and answers them.                                                       *)
(*                                                                         *)
(* A line is a token, and so is each character that ends it and each byte  *)
(* of a body; the connection hands tokens over in pieces of any length.    *)
(* Requests are numbered (CSeq); a source waits for the answer to one      *)
(* before it sends the next.  SplitLines lets a piece end between the CR   *)
(* and the LF of a line.                                                   *)
(***************************************************************************)
EXTENDS Integers, Sequences, SequencesExt

CONSTANTS
  Passwords,    \* the values of config.password, with NoPassword perhaps
  NoPassword,
  Guesses,      \* the passwords that the user types
  Bodies,       \* lengths of bodies
  Codes,        \* the answers that handlers decide on
  SplitLines,   \* BOOLEAN
  MaxRequests   \* bound: requests that are sent

VARIABLES
  password,     \* config.password
  sent,         \* the requests, in order
  guess,        \* what the source knows for a password
  nonce,        \* the nonce the source was given, 0 for none
  socket,       \* tokens on their way
  buf, packet, msg_size, stage,   \* rtsp_read_request
  auth_nonce, authorized,         \* the connection's
  handled,      \* numbers of the requests whose handler ran
  answers       \* the answers, in order

messageVars ==
  <<password, sent, guess, nonce, socket, buf, packet, msg_size, stage, auth_nonce, authorized,
    handled, answers>>

sourceVars == <<password, sent, guess, nonce>>
serverVars == <<auth_nonce, authorized, handled, answers>>

NoPacket == [cseq |-> 0, length |-> 0, proof |-> <<"none">>]

MessageInit ==
  /\ password \in Passwords /\ guess \in Guesses
  /\ sent = <<>> /\ nonce = 0 /\ socket = <<>>
  /\ buf = <<>> /\ packet = NoPacket /\ msg_size = -1 /\ stage = "headers"
  /\ auth_nonce = 0 /\ authorized = FALSE
  /\ handled = <<>> /\ answers = <<>>

-----------------------------------------------------------------------------
(* The source. *)

Token(type, value) == [type |-> type, value |-> value]
End == <<Token("CR", 0), Token("LF", 0)>>
Body(r) == [i \in 1 .. r.length |-> Token("body", r.cseq)]

Header(type, value) == <<Token(type, value)>> \o End
Bytes(r) ==
  Header("request", r.cseq)
    \o (IF r.proof = <<"none">> THEN <<>> ELSE Header("Authorization", r.proof))
    \o (IF r.length = 0 THEN <<>> ELSE Header("Content-Length", r.length))
    \o End \o Body(r)

\* The digest of the name, the password, the nonce and the method
Digest(word, n) == <<"digest", word, n>>

SendRequest ==
  /\ Len(sent) < MaxRequests /\ Len(answers) = Len(sent)
  /\ \E length \in Bodies :
       LET r == [cseq |-> Len(sent) + 1, length |-> length,
                 proof |-> IF nonce = 0 THEN <<"none">> ELSE Digest(guess, nonce)]
       IN  sent' = Append(sent, r) /\ socket' = Bytes(r)
  /\ UNCHANGED <<password, guess, nonce, buf, packet, msg_size, stage, serverVars>>

\* A source that is refused for want of a password takes the nonce, and its user may type
\* another word.
TakeNonce ==
  /\ answers /= <<>> /\ Len(answers) = Len(sent) /\ Last(answers).code = 401
  /\ nonce = 0 \/ guess /= password
  /\ nonce' = Last(answers).nonce
  /\ guess' \in IF nonce = 0 THEN {guess} ELSE Guesses \ {guess}
  /\ UNCHANGED <<password, sent, socket, buf, packet, msg_size, stage, serverVars>>

-----------------------------------------------------------------------------
(* rtsp_read_request. *)

\* nextline: where the first line of the buffer ends, and how many tokens end it
LineEnds == {i \in DOMAIN buf : buf[i].type \in {"CR", "LF"}}
LineEnd == CHOOSE i \in LineEnds : \A j \in LineEnds : i <= j
\* The LF of a CR LF is left for a line of its own
BugAfterLine == LineEnd
AfterLine ==
  IF buf[LineEnd].type = "CR" /\ LineEnd < Len(buf) /\ buf[LineEnd + 1].type = "LF"
  THEN LineEnd + 1 ELSE LineEnd

\* What msg_handle_line makes of a header
WithHeader(token) ==
  CASE token.type = "Content-Length" -> [packet EXCEPT !.length = token.value]
    [] token.type = "Authorization" -> [packet EXCEPT !.proof = token.value]
    [] OTHER -> packet

\* read: more tokens, while there is no line to handle or the content is short
Wants == IF stage = "content" THEN msg_size - Len(buf) ELSE Len(socket)
ReadMore ==
  /\ stage \in {"headers", "content"} /\ socket /= <<>>
  /\ stage = "headers" => LineEnds = {}
  /\ \E n \in 1 .. (IF Wants < Len(socket) THEN Wants ELSE Len(socket)) :
       /\ SplitLines \/ ~(socket[n].type = "CR")
       /\ buf' = buf \o SubSeq(socket, 1, n)
       /\ socket' = SubSeq(socket, n + 1, Len(socket))
       /\ stage' = IF stage = "content" /\ Len(buf) + n >= msg_size THEN "message" ELSE stage
  /\ UNCHANGED <<sourceVars, packet, msg_size, serverVars>>

\* Is there content to read, beyond what came with the headers?
BugContentDue(rest) == Len(rest) <= packet.length
ContentDue(rest) == Len(rest) < packet.length

\* A line that makes no sense ends the reading: what the buffer holds is dropped, and the
\* answer is 400 without a number.
BadPacket ==
  /\ answers' = Append(answers, [cseq |-> 0, code |-> 400, nonce |-> 0, meant |-> 400])
  /\ buf' = <<>> /\ packet' = NoPacket /\ msg_size' = -1 /\ stage' = "headers"
  /\ UNCHANGED <<auth_nonce, authorized, handled>>

HandleLine ==
  /\ stage = "headers" /\ LineEnds /= {}
  /\ LET line == SubSeq(buf, 1, LineEnd - 1)
         rest == SubSeq(buf, AfterLine + 1, Len(buf))
         started == packet /= NoPacket
     IN  IF started /\ line = <<>>
         THEN \* the end of the headers: the content follows, of which some may be here
              /\ msg_size' = packet.length /\ buf' = rest
              /\ stage' = IF ContentDue(rest) THEN "content" ELSE "message"
              /\ UNCHANGED <<packet, serverVars>>
         ELSE IF line = <<>> \/ (line[1].type = "request") = started
                 \/ line[1].type = "body"
         THEN BadPacket
         ELSE /\ packet' = IF started THEN WithHeader(line[1])
                           ELSE [NoPacket EXCEPT !.cseq = line[1].value]
              /\ buf' = rest
              /\ UNCHANGED <<msg_size, stage, serverVars>>
  /\ UNCHANGED <<sourceVars, socket>>

-----------------------------------------------------------------------------
(* rtsp_conversation_thread_func. *)

\* rtsp_classic_airplay_auth: the first request is always refused, as there is no nonce.
Authorizes ==
  \/ authorized
  \/ password = NoPassword
  \/ auth_nonce /= 0 /\ packet.proof = Digest(password, auth_nonce)

\* The handler decides on a code, which is then made 200.  The answer to an unauthorised
\* request has the nonce.
Converse ==
  /\ stage = "message"
  /\ IF Authorizes
     THEN \E code \in Codes :
            /\ authorized' = TRUE
            /\ handled' = Append(handled, packet.cseq)
            /\ answers' = Append(answers, [cseq |-> packet.cseq, code |-> 200, nonce |-> 0,
                                           meant |-> code])
            /\ UNCHANGED auth_nonce
     ELSE /\ auth_nonce' = IF auth_nonce = 0 THEN 1 ELSE auth_nonce
          /\ answers' = Append(answers, [cseq |-> packet.cseq, code |-> 401,
                                         nonce |-> auth_nonce', meant |-> 401])
          /\ UNCHANGED <<authorized, handled>>
  /\ buf' = <<>> /\ packet' = NoPacket /\ msg_size' = -1 /\ stage' = "headers"
  /\ UNCHANGED <<sourceVars, socket>>

MessageNext == SendRequest \/ TakeNonce \/ ReadMore \/ HandleLine \/ Converse

MessageStep == ReadMore \/ HandleLine \/ Converse

MessageSpec == MessageInit /\ [][MessageNext]_messageVars /\ WF_messageVars(MessageStep)

-----------------------------------------------------------------------------
MessageTypeOK ==
  /\ password \in Passwords /\ guess \in Guesses /\ nonce \in 0 .. 1
  /\ stage \in {"headers", "content", "message"}
  /\ msg_size \in {-1} \cup Bodies /\ Len(sent) <= MaxRequests
  /\ auth_nonce \in 0 .. 1 /\ authorized \in BOOLEAN
  /\ \A i \in DOMAIN answers : answers[i].code \in {200, 400, 401}

\* Whatever pieces the bytes come in, the requests that are handled are those that were
\* sent, whole and once each; a number is answered once, in order; and with a password set
\* no handler runs before a request that knew the password and this connection's nonce.
RequestsIntact ==
  /\ stage = "message" =>
       LET r == sent[Len(answers) + 1]
       IN  packet = r /\ buf = Body(r)
  /\ \A i \in DOMAIN answers : answers[i].cseq = i
  /\ \A i \in DOMAIN handled :
       password = NoPassword
         \/ \E j \in 1 .. handled[1] : sent[j].proof = Digest(password, auth_nonce)

\* Each request is answered, and one that follows the nonce with the right password is let
\* in.
RequestsAnswered ==
  /\ \A n \in 1 .. MaxRequests : (Len(sent) = n) ~> (Len(answers) >= n)
  /\ \A n \in 1 .. MaxRequests :
       (Len(sent) = n /\ sent[n].proof = Digest(password, auth_nonce))
         ~> (Len(answers) >= n /\ answers[n].code = 200)

\* rtsp.c:4239 says that the response code that is set is the one returned.
RefusalIsTold == \A i \in DOMAIN answers : answers[i].code = answers[i].meant
=============================================================================
