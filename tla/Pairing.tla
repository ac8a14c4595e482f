------------------------------ MODULE Pairing -------------------------------
(***************************************************************************)
(* HomeKit pairing of a controller with Shairport Sync on an RTSP          *)
(* connection of AirPlay 2: the client and the server of pair_ap, driven   *)
(* by handle_pair_setup and handle_pair_verify of rtsp.c.  A controller    *)
(* pairs for the connection only ("transient", M1 to M4) or for good       *)
(* ("normal", M1 to M6) and then verifies (M1 to M4 of pair-verify).       *)
(* Transient pairing makes the secret with which the control and the event *)
(* channel are ciphered from then on, a counter to each direction.         *)
(*                                                                         *)
(* SRP-6a is computed as the code computes it, with a small safe prime.    *)
(* Hashes, signatures and ciphers are terms: two are equal when they are   *)
(* made of the same.  A frame on the wire is plain, or sealed with the key *)
(* and the counter of its sender.  A controller follows the protocol; its  *)
(* user may type a wrong PIN, and it starts again on a new connection, or  *)
(* on the same one when Stays allows it.                                   *)
(***************************************************************************)
EXTENDS Integers, TLAPS

CONSTANTS
  NoPin,        \* "no password is configured", "no PIN was typed"
  Passwords,    \* the values of config.password
  Typed,        \* what users type
  Kinds,        \* "transient", "normal"
  Salts,        \* what bnum_random(s, 128) draws
  Secrets,      \* what it draws for the exponents a and b, and for key pairs
  Stays,        \* may the controller try again on the connection?
  MaxTries,     \* bounds: pairings that are tried,
  MaxFrames     \* frames of each channel after pairing

VARIABLES
  password,     \* config.password
  setup_ctx,    \* of the connection, at the server; status "none": not there yet
  verify_ctx,
  cipher_ctx,   \* of the control and the event channel, at the server
  is_encrypted, \* of the control channel
  controller,   \* the client's side of it all
  wire,         \* the frame on its way on each channel
  tries

vars ==
  <<password, setup_ctx, verify_ctx, cipher_ctx, is_encrypted, controller, wire, tries>>

-----------------------------------------------------------------------------
(* SRP.  The numbers of the code have 3072 bits, these 7. *)

Prime == 83
Generator == 2
Multiplier == 3
DefaultPin == 3939

\* An exponent counts modulo Prime - 1.
Power(base, exponent) ==
  LET pow[n \in Nat] == IF n = 0 THEN 1 ELSE (base * pow[n - 1]) % Prime
  IN  pow[exponent % (Prime - 1)]

\* calculate_x: the salt, then the hash of the name and the PIN
Hidden(salt, pin) == (31 * salt + 7 * pin) % (Prime - 1)

\* H_nn_pad of A and B: their order counts
Scrambling(A, B) == 1 + ((5 * A + 3 * B) % 41)

\* The salt goes out in as few bytes as it needs: 2 of base 4 here, 16 in the code.
SaltSize == 2
Bytes(s) == IF s < 4 THEN 1 ELSE SaltSize

Verifier(salt, pin) == Power(Generator, Hidden(salt, pin))
ClientPublic(a) == Power(Generator, a)
ServerPublic(v, b) == (Multiplier * v + Power(Generator, b)) % Prime
\* The verifier without its exponent
BugServerKey(A, v, u, b) == Power((A * v) % Prime, b)
ServerKey(A, v, u, b) == Power((A * Power(v, u)) % Prime, b)
ClientKey(B, x, u, a) == Power((B - Multiplier * Power(Generator, x)) % Prime, a + u * x)
ClientProof(salt, A, B, key) == <<"M", salt, A, B, key>>
ServerProof(A, M, key) == <<"H_AMK", A, M, key>>

-----------------------------------------------------------------------------
(* Frames and ciphers. *)

None == [sealed |-> FALSE, to |-> "nobody"]
Plain(to, path, message) == [sealed |-> FALSE, to |-> to, path |-> path, m |-> message]

\* A server that took the controller's side of the event channel
BugKeys(channel) ==
  CASE channel = 0 -> [write |-> "CONTROL_WRITE", read |-> "CONTROL_READ"]
    [] channel = 3 -> [write |-> "CONTROL_READ", read |-> "CONTROL_WRITE"]
    [] channel \in {1, 4} -> [write |-> "EVENTS_READ", read |-> "EVENTS_WRITE"]

\* The keys of cipher_new.  0 and 1 are the controller's, 3 and 4 the server's.
Keys(channel) ==
  CASE channel = 0 -> [write |-> "CONTROL_WRITE", read |-> "CONTROL_READ"]
    [] channel = 1 -> [write |-> "EVENTS_READ", read |-> "EVENTS_WRITE"]
    [] channel = 3 -> [write |-> "CONTROL_READ", read |-> "CONTROL_WRITE"]
    [] channel = 4 -> [write |-> "EVENTS_WRITE", read |-> "EVENTS_READ"]

NoCipher == [secret |-> 0]
Cipher(channel, secret) ==
  [secret |-> secret, write |-> Keys(channel).write, read |-> Keys(channel).read,
   encryption_counter |-> 0, decryption_counter |-> 0]

Sealed(to, cipher) ==
  [sealed |-> TRUE, to |-> to, secret |-> cipher.secret, key |-> cipher.write,
   counter |-> cipher.encryption_counter]

Opens(frame, cipher) ==
  /\ frame.sealed
  /\ frame.secret = cipher.secret
  /\ frame.key = cipher.read
  /\ frame.counter = cipher.decryption_counter

Wrote(cipher) == [cipher EXCEPT !.encryption_counter = @ + 1]
Read(cipher) == [cipher EXCEPT !.decryption_counter = @ + 1]

\* The messages of pairing that are sealed with a key of the exchange itself
Box(name, key, content) == [name |-> name, key |-> key, content |-> content]
Signature(by, over) == <<"signed", by, over>>

-----------------------------------------------------------------------------
Channels == {"control", "event"}

NoSetup == [status |-> "none"]
NoVerify == [status |-> "none"]

\* A controller at the start of a pairing on a connection
Fresh(kind, pin) == [kind |-> kind, pin |-> pin, at |-> "setup1", cipher |-> NoCipher,
                     event |-> NoCipher, accessory |-> <<"unknown">>]

Init ==
  /\ password \in Passwords
  /\ setup_ctx = NoSetup /\ verify_ctx = NoVerify
  /\ cipher_ctx = [c \in Channels |-> NoCipher] /\ is_encrypted = FALSE
  /\ \E kind \in Kinds, pin \in Typed \cup {NoPin} :
       /\ kind = "normal" => pin /= NoPin
       /\ controller = Fresh(kind, pin)
  /\ wire = [c \in Channels |-> None]
  /\ tries = 1

\* The identity of Shairport Sync, made of its device id
Accessory == <<"keys of the device id">>
Controller == <<"keys of the controller">>

\* What the messages are made of: client_setup_request3, client_verify_request2,
\* server_setup_response1 to 3 and server_verify_response1
ControllerInfo(key) ==
  Box("M5", key, [id |-> "controller", pk |-> Controller,
                  signature |-> Signature(Controller, <<"controller sign", key, Controller>>)])
ControllerProof(shared, own, theirs) ==
  Box("V3", shared, [id |-> "controller", signature |-> Signature(Controller, <<own, theirs>>)])
Challenge(salt, pkB) == [state |-> 2, salt |-> salt, size |-> Bytes(salt), pkB |-> pkB]
AuthFailed(state) == [state |-> state, error |-> "authentication"]
ProofOrRefusal(proven, pkA, M1, key) ==
  IF proven THEN [state |-> 4, proof |-> ServerProof(pkA, M1, key)] ELSE AuthFailed(4)
AccessoryInfo(key) ==
  Box("M6", key, [id |-> "accessory", pk |-> Accessory,
                  signature |-> Signature(Accessory, <<"accessory sign", key, Accessory>>)])
AccessoryProof(shared, own, theirs) ==
  Box("V2", shared, [id |-> "accessory", signature |-> Signature(Accessory, <<own, theirs>>)])

\* The PIN that client_setup_new takes for the one that was typed, and server_setup_new
PinOf(pin) == IF pin = NoPin THEN DefaultPin ELSE pin

Send(frame) == wire' = [wire EXCEPT !["control"] = frame]

-----------------------------------------------------------------------------
(* The controller. *)

\* client_setup_request1, and what pair_setup makes of each answer
SetupRequest1 ==
  /\ controller.at = "setup1" /\ wire["control"] = None
  /\ Send(Plain("server", "setup", [state |-> 1, transient |-> controller.kind = "transient"]))
  /\ controller' = [controller EXCEPT !.at = "setup2"]
  /\ UNCHANGED <<password, setup_ctx, verify_ctx, cipher_ctx, is_encrypted, tries>>

Answered(at) ==
  /\ controller.at = at
  /\ wire["control"].to = "client"

Refused(message) == "error" \in DOMAIN message

\* A pairing that failed, which message_process or a check of the client's noticed
GiveUp ==
  /\ \E at \in {"setup2", "setup4", "setup6", "verify2", "verify4"} : Answered(at)
  /\ LET message == wire["control"].m
         at == controller.at
     IN  \/ Refused(message)
         \/ at = "setup2" /\ ~Refused(message) /\ message.size /= SaltSize
         \/ at = "setup4" /\ ~Refused(message) /\ message.proof /= controller.proof
  /\ controller' = [controller EXCEPT !.at = "refused"]
  /\ Send(None)
  /\ UNCHANGED <<password, setup_ctx, verify_ctx, cipher_ctx, is_encrypted, tries>>

\* client_setup_response1, then client_setup_request2
SetupRequest2 ==
  /\ Answered("setup2")
  /\ ~Refused(wire["control"].m) /\ wire["control"].m.size = SaltSize
  /\ \E a \in Secrets :
       LET m == wire["control"].m
           A == ClientPublic(a)
           x == Hidden(m.salt, PinOf(controller.pin))
           key == ClientKey(m.pkB, x, Scrambling(A, m.pkB), a)
           M1 == ClientProof(m.salt, A, m.pkB, key)
       IN  /\ Send(Plain("server", "setup", [state |-> 3, pkA |-> A, proof |-> M1]))
           /\ controller' = [kind |-> controller.kind, pin |-> controller.pin, at |-> "setup4",
                             cipher |-> controller.cipher, event |-> controller.event,
                             accessory |-> controller.accessory,
                             key |-> key, proof |-> ServerProof(A, M1, key)]
  /\ UNCHANGED <<password, setup_ctx, verify_ctx, cipher_ctx, is_encrypted, tries>>

\* client_setup_response2 of a transient pairing: the ciphers are made.
PairTransient ==
  /\ Answered("setup4") /\ controller.kind = "transient"
  /\ ~Refused(wire["control"].m) /\ wire["control"].m.proof = controller.proof
  /\ controller' = [controller EXCEPT !.at = "paired", !.cipher = Cipher(0, controller.key),
                                      !.event = Cipher(1, controller.key)]
  /\ Send(None)
  /\ UNCHANGED <<password, setup_ctx, verify_ctx, cipher_ctx, is_encrypted, tries>>

\* client_setup_response2 of the other kind, then client_setup_request3
SetupRequest3 ==
  /\ Answered("setup4") /\ controller.kind = "normal"
  /\ ~Refused(wire["control"].m) /\ wire["control"].m.proof = controller.proof
  /\ Send(Plain("server", "setup", [state |-> 5, data |-> ControllerInfo(controller.key)]))
  /\ controller' = [controller EXCEPT !.at = "setup6"]
  /\ UNCHANGED <<password, setup_ctx, verify_ctx, cipher_ctx, is_encrypted, tries>>

\* client_setup_response3 and client_setup_result: the server's key is kept; then
\* client_verify_new and client_verify_request1.
VerifyRequest1 ==
  /\ Answered("setup6")
  /\ ~Refused(wire["control"].m)
  /\ LET box == wire["control"].m.data
         info == box.content
     IN  /\ box.name = "M6" /\ box.key = controller.key
         /\ info.signature = Signature(info.pk, <<"accessory sign", controller.key, info.pk>>)
         /\ \E e \in Secrets :
              /\ controller' = [kind |-> controller.kind, pin |-> controller.pin,
                                at |-> "verify2", cipher |-> NoCipher, event |-> NoCipher,
                                accessory |-> info.pk, eph |-> e]
              /\ Send(Plain("server", "verify", [state |-> 1, pk |-> Power(Generator, e)]))
  /\ UNCHANGED <<password, setup_ctx, verify_ctx, cipher_ctx, is_encrypted, tries>>

\* client_verify_response1, with the check of the server's signature, then
\* client_verify_request2
VerifyRequest2 ==
  /\ Answered("verify2")
  /\ ~Refused(wire["control"].m)
  /\ LET m == wire["control"].m
         shared == Power(m.pk, controller.eph)
         own == Power(Generator, controller.eph)
     IN  /\ m.data.name = "V2" /\ m.data.key = shared
         /\ m.data.content.signature = Signature(controller.accessory, <<m.pk, own>>)
         /\ Send(Plain("server", "verify",
                       [state |-> 3, data |-> ControllerProof(shared, own, m.pk)]))
         /\ controller' = [kind |-> controller.kind, pin |-> controller.pin,
                           at |-> "verify4", cipher |-> NoCipher, event |-> NoCipher,
                           accessory |-> controller.accessory, key |-> shared]
  /\ UNCHANGED <<password, setup_ctx, verify_ctx, cipher_ctx, is_encrypted, tries>>

\* client_verify_response2
Verified ==
  /\ Answered("verify4")
  /\ ~Refused(wire["control"].m)
  /\ controller' = [controller EXCEPT !.at = "verified"]
  /\ Send(None)
  /\ UNCHANGED <<password, setup_ctx, verify_ctx, cipher_ctx, is_encrypted, tries>>

\* The user tries again: as a rule on another connection, whose contexts are new.
TryAgain ==
  /\ controller.at = "refused" /\ tries < MaxTries
  /\ tries' = tries + 1
  /\ \E pin \in Typed : controller' = Fresh(controller.kind, pin)
  /\ \/ TRUE \in Stays /\ UNCHANGED <<setup_ctx, verify_ctx, cipher_ctx, is_encrypted>>
     \/ /\ FALSE \in Stays
        /\ setup_ctx' = NoSetup /\ verify_ctx' = NoVerify
        /\ cipher_ctx' = [c \in Channels |-> NoCipher] /\ is_encrypted' = FALSE
  /\ UNCHANGED <<password, wire>>

\* A paired controller sends requests, sealed, and answers events.
Request ==
  /\ controller.at = "paired" /\ wire["control"] = None
  /\ controller.cipher.encryption_counter < MaxFrames
  /\ Send(Sealed("server", controller.cipher))
  /\ controller' = [controller EXCEPT !.cipher = Wrote(@)]
  /\ UNCHANGED <<password, setup_ctx, verify_ctx, cipher_ctx, is_encrypted, tries>>

TakeAnswer ==
  /\ Answered("paired") /\ Opens(wire["control"], controller.cipher)
  /\ controller' = [controller EXCEPT !.cipher = Read(@)]
  /\ Send(None)
  /\ UNCHANGED <<password, setup_ctx, verify_ctx, cipher_ctx, is_encrypted, tries>>

AnswerEvent ==
  /\ controller.at = "paired" /\ wire["event"].to = "client"
  /\ Opens(wire["event"], controller.event)
  /\ wire' = [wire EXCEPT !["event"] = Sealed("server", controller.event)]
  /\ controller' = [controller EXCEPT !.event = Wrote(Read(@))]
  /\ UNCHANGED <<password, setup_ctx, verify_ctx, cipher_ctx, is_encrypted, tries>>

ControllerStep ==
  \/ SetupRequest1 \/ GiveUp \/ SetupRequest2 \/ PairTransient \/ SetupRequest3
  \/ VerifyRequest1 \/ VerifyRequest2 \/ Verified \/ Request \/ TakeAnswer \/ AnswerEvent

-----------------------------------------------------------------------------
(* The server. *)

\* read_from_rtsp_connection: once there is a cipher, what is read is deciphered, and from
\* then on the answers are ciphered.
Arrived(path) ==
  /\ wire["control"].to = "server" /\ ~wire["control"].sealed
  /\ cipher_ctx["control"] = NoCipher
  /\ wire["control"].path = path

Answer(path, message) == Send(Plain("client", path, message))

\* server_setup_request1 and response1.  A context that failed once goes on failing.
SetupResponse1 ==
  /\ Arrived("setup") /\ wire["control"].m.state = 1
  /\ \E salt \in Salts, b \in Secrets :
       LET v == Verifier(salt, PinOf(password))
           status == IF setup_ctx = NoSetup THEN "IN_PROGRESS" ELSE setup_ctx.status
       IN  /\ setup_ctx' = [status |-> status, is_transient |-> wire["control"].m.transient,
                            salt |-> salt, v |-> v, b |-> b, pkB |-> ServerPublic(v, b)]
           /\ IF status = "AUTH_FAILED" THEN Answer("setup", AuthFailed(2))
              ELSE Answer("setup", Challenge(salt, ServerPublic(v, b)))
  /\ UNCHANGED <<password, verify_ctx, cipher_ctx, is_encrypted, controller, tries>>

\* handle_pair_setup makes the ciphers when the pairing is a transient one.  The answer
\* goes out in plain: is_encrypted is set by the next read.
Prepare(completed, secret) ==
  /\ cipher_ctx' = IF completed
                   THEN [control |-> Cipher(3, secret), event |-> Cipher(4, secret)]
                   ELSE cipher_ctx
  /\ UNCHANGED is_encrypted

\* server_setup_request2 and response2
SetupResponse2 ==
  /\ Arrived("setup") /\ wire["control"].m.state = 3
  /\ LET m == wire["control"].m
         c == setup_ctx
         key == ServerKey(m.pkA, c.v, Scrambling(m.pkA, c.pkB), c.b)
         proven == c.status /= "AUTH_FAILED"
                     /\ m.proof = ClientProof(c.salt, m.pkA, c.pkB, key)
         completed == proven /\ c.is_transient
     IN  /\ setup_ctx' = [status |-> IF ~proven THEN "AUTH_FAILED"
                                     ELSE IF completed THEN "COMPLETED" ELSE c.status,
                          is_transient |-> c.is_transient, key |-> key]
         /\ Answer("setup", ProofOrRefusal(proven, m.pkA, m.proof, key))
         /\ Prepare(completed, key)
  /\ UNCHANGED <<password, verify_ctx, controller, tries>>

\* server_setup_request3 and response3.  There is no secret to cipher with.  A message that
\* cannot be opened gets an answer without a body: the code 470 that handle_pair_setup asks
\* for is made 200 before the answer leaves.
SetupResponse3 ==
  /\ Arrived("setup") /\ wire["control"].m.state = 5
  /\ LET box == wire["control"].m.data
         info == box.content
         key == setup_ctx.key
         signed == info.signature = Signature(info.pk, <<"controller sign", key, info.pk>>)
     IN  IF box.name /= "M5" \/ box.key /= key
         THEN /\ Answer("setup", [error |-> "no body"])
              /\ UNCHANGED setup_ctx
         ELSE /\ setup_ctx' = [setup_ctx EXCEPT
                                 !.status = IF signed THEN "COMPLETED" ELSE "AUTH_FAILED"]
              /\ Answer("setup", IF signed THEN [state |-> 6, data |-> AccessoryInfo(key)]
                                 ELSE AuthFailed(6))
  /\ UNCHANGED <<password, verify_ctx, cipher_ctx, is_encrypted, controller, tries>>

\* server_verify_request1 and response1
VerifyResponse1 ==
  /\ Arrived("verify") /\ wire["control"].m.state = 1
  /\ \E e \in Secrets :
       LET pk == wire["control"].m.pk
           own == Power(Generator, e)
           shared == Power(pk, e)
       IN  /\ verify_ctx' = [status |-> "IN_PROGRESS", shared_secret |-> shared]
           /\ Answer("verify",
                     [state |-> 2, pk |-> own, data |-> AccessoryProof(shared, own, pk)])
  /\ UNCHANGED <<password, setup_ctx, cipher_ctx, is_encrypted, controller, tries>>

\* server_verify_request2 and response2: there is no call-back, the controller's signature
\* is not looked at.  Nothing is made of the result.
VerifyResponse2 ==
  /\ Arrived("verify") /\ wire["control"].m.state = 3
  /\ LET box == wire["control"].m.data
     IN  IF box.name /= "V3" \/ box.key /= verify_ctx.shared_secret
         THEN /\ Answer("verify", [error |-> "no body"])
              /\ UNCHANGED verify_ctx
         ELSE /\ verify_ctx' = [verify_ctx EXCEPT !.status = "COMPLETED"]
              /\ Answer("verify", [state |-> 4])
  /\ UNCHANGED <<password, setup_ctx, cipher_ctx, is_encrypted, controller, tries>>

\* A request is read and answered: read_encrypted, then msg_write_response.
ServeRequest ==
  /\ wire["control"].to = "server" /\ wire["control"].sealed
  /\ cipher_ctx["control"] /= NoCipher
  /\ Opens(wire["control"], cipher_ctx["control"])
  /\ is_encrypted' = TRUE
  /\ cipher_ctx' = [cipher_ctx EXCEPT !["control"] = Wrote(Read(@))]
  /\ Send(Sealed("client", cipher_ctx["control"]))
  /\ UNCHANGED <<password, setup_ctx, verify_ctx, controller, tries>>

\* ap2_event_send_update_info writes on the event channel and reads the answer.
SendEvent ==
  /\ is_encrypted /\ wire["event"] = None
  /\ cipher_ctx["event"].encryption_counter < MaxFrames
  /\ wire' = [wire EXCEPT !["event"] = Sealed("client", cipher_ctx["event"])]
  /\ cipher_ctx' = [cipher_ctx EXCEPT !["event"] = Wrote(@)]
  /\ UNCHANGED <<password, setup_ctx, verify_ctx, is_encrypted, controller, tries>>

EventAnswered ==
  /\ wire["event"].to = "server"
  /\ Opens(wire["event"], cipher_ctx["event"])
  /\ wire' = [wire EXCEPT !["event"] = None]
  /\ cipher_ctx' = [cipher_ctx EXCEPT !["event"] = Read(@)]
  /\ UNCHANGED <<password, setup_ctx, verify_ctx, is_encrypted, controller, tries>>

ServerStep ==
  \/ SetupResponse1 \/ SetupResponse2 \/ SetupResponse3
  \/ VerifyResponse1 \/ VerifyResponse2
  \/ ServeRequest \/ SendEvent \/ EventAnswered

Next == ControllerStep \/ ServerStep \/ TryAgain

Spec == Init /\ [][Next]_vars /\ WF_vars(ControllerStep) /\ WF_vars(ServerStep)

-----------------------------------------------------------------------------
TypeOK ==
  /\ password \in Passwords
  /\ setup_ctx.status \in {"none", "IN_PROGRESS", "COMPLETED", "AUTH_FAILED"}
  /\ verify_ctx.status \in {"none", "IN_PROGRESS", "COMPLETED"}
  /\ is_encrypted \in BOOLEAN
  /\ controller.at \in {"setup1", "setup2", "setup4", "setup6", "verify2", "verify4",
                        "refused", "paired", "verified"}
  /\ tries \in 1 .. MaxTries

\* What reaches either end can be read there: a frame is in plain while the receiver has no
\* cipher, and opens with the receiver's key and counter once it has one.  The server has
\* its cipher before its answer to M3 leaves and must not use it for that answer; the two
\* ends must take opposite keys for each channel and count alike; and a controller that
\* starts again must not meet what an earlier try left.
NeverGarbled ==
  \A c \in Channels :
    LET frame == wire[c]
        ours == cipher_ctx[c]
        theirs == IF c = "control" THEN controller.cipher ELSE controller.event
        Readable(cipher) == IF cipher = NoCipher THEN ~frame.sealed ELSE Opens(frame, cipher)
    IN  /\ frame.to = "server" => Readable(ours)
        /\ frame.to = "client" => Readable(theirs)

\* The right PIN pairs and a wrong one does not: with the right PIN the controller is paired
\* or verified in the end, on each connection, whatever failed before; and it never gets
\* there with another.
RightPin == PinOf(controller.pin) = PinOf(password)
PairsWithRightPin ==
  /\ [](controller.at \in {"setup6", "paired", "verified"} => RightPin)
  /\ (controller.at = "setup1" /\ RightPin) ~> (controller.at \in {"paired", "verified"})

\* pair_homekit.c:2083 says that the salt returned has 16 bytes.
SaltIsWhole ==
  wire["control"].to = "client" /\ ~wire["control"].sealed
    /\ "size" \in DOMAIN wire["control"].m
    => wire["control"].m.size = SaltSize
-----------------------------------------------------------------------------
(***************************************************************************)
(* Proofs, for any passwords, PINs, salts and secrets, whether or not a    *)
(* controller stays on its connection: PairingInv is inductive.  It says   *)
(* which of three situations a connection is in: no end has a cipher; the  *)
(* server has its ciphers and the controller does not know it yet; both    *)
(* have theirs.                                                            *)
(***************************************************************************)

\* What a controller is made of at any time
ControllerOK == {"kind", "pin", "at", "cipher", "event", "accessory"} \subseteq DOMAIN controller

WireOK == wire = [c \in Channels |-> wire[c]]

\* The request that the controller waits for an answer to
Requested ==
  CASE controller.at = "setup2" -> [path |-> "setup", state |-> 1]
    [] controller.at = "setup4" -> [path |-> "setup", state |-> 3]
    [] controller.at = "setup6" -> [path |-> "setup", state |-> 5]
    [] controller.at = "verify2" -> [path |-> "verify", state |-> 1]
    [] controller.at = "verify4" -> [path |-> "verify", state |-> 3]

Waiting == controller.at \in {"setup2", "setup4", "setup6", "verify2", "verify4"}

\* The server is asked for what the controller waits for.
AskedRight ==
  wire["control"].to = "server" =>
    wire["control"].path = Requested.path /\ wire["control"].m.state = Requested.state

\* The server knows, or is about to be told, whether the pairing is a transient one.
KindKnown ==
  /\ controller.at = "setup2" /\ wire["control"].to = "server" =>
       wire["control"].m.transient = (controller.kind = "transient")
  /\ \/ controller.at = "setup2" /\ wire["control"].to = "client"
     \/ controller.at = "setup4" /\ wire["control"].to = "server"
     => setup_ctx.is_transient = (controller.kind = "transient")

\* M3 carries a proof that the controller knows the key it expects M4 to prove.
ProofIsOfKey ==
  controller.at = "setup4" /\ wire["control"].to = "server" =>
    \E salt, B :
      /\ wire["control"].m.proof = ClientProof(salt, wire["control"].m.pkA, B, controller.key)
      /\ controller.proof =
           ServerProof(wire["control"].m.pkA, wire["control"].m.proof, controller.key)

\* Without a cipher the server has refused a transient pairing that it answered M3 of.
TransientRefused ==
  controller.at = "setup4" /\ wire["control"].to = "client" /\ controller.kind = "transient" =>
    Refused(wire["control"].m)

\* No end has a cipher.
NoneCiphered ==
  /\ cipher_ctx = [c \in Channels |-> NoCipher] /\ is_encrypted = FALSE
  /\ controller.cipher = NoCipher /\ controller.event = NoCipher
  /\ wire["event"] = None
  /\ \/ Waiting /\ wire["control"].to \in {"server", "client"} /\ wire["control"].sealed = FALSE
     \/ controller.at \in {"setup1", "refused", "verified"} /\ wire["control"] = None
  /\ AskedRight /\ KindKnown /\ ProofIsOfKey /\ TransientRefused

\* The server has its ciphers, and its answer, in plain, is on the way.
ServerCiphered ==
  /\ controller.at = "setup4" /\ controller.kind = "transient"
  /\ cipher_ctx = [control |-> Cipher(3, controller.key), event |-> Cipher(4, controller.key)]
  /\ is_encrypted = FALSE
  /\ controller.cipher = NoCipher /\ controller.event = NoCipher
  /\ wire["event"] = None
  /\ wire["control"] = Plain("client", "setup", [state |-> 4, proof |-> controller.proof])

\* A cipher that was made for a channel of a connection with this secret
CiphersOf(channel, secret) ==
  [secret : {secret}, write : {Keys(channel).write}, read : {Keys(channel).read},
   encryption_counter : Nat, decryption_counter : Nat]

\* Both ends of a channel count alike, but for the frame that is on its way.
CountAlike(frame, client, server) ==
  \/ /\ frame = None
     /\ client.encryption_counter = server.decryption_counter
     /\ client.decryption_counter = server.encryption_counter
  \/ /\ frame = [sealed |-> TRUE, to |-> "server", secret |-> client.secret,
                 key |-> client.write, counter |-> server.decryption_counter]
     /\ client.encryption_counter = server.decryption_counter + 1
     /\ client.decryption_counter = server.encryption_counter
  \/ /\ frame = [sealed |-> TRUE, to |-> "client", secret |-> server.secret,
                 key |-> server.write, counter |-> client.decryption_counter]
     /\ client.encryption_counter = server.decryption_counter
     /\ server.encryption_counter = client.decryption_counter + 1

\* Both ends of a channel have ciphers of the same secret.
Linked(frame, client, server, secret, channel) ==
  /\ client \in CiphersOf(channel, secret)
  /\ server \in CiphersOf(channel + 3, secret)
  /\ CountAlike(frame, client, server)

\* Both ends have their ciphers.
BothCiphered ==
  /\ controller.at = "paired"
  /\ cipher_ctx = [c \in Channels |-> cipher_ctx[c]]
  /\ is_encrypted \in BOOLEAN
  /\ \E secret :
       /\ Linked(wire["control"], controller.cipher, cipher_ctx["control"], secret, 0)
       /\ Linked(wire["event"], controller.event, cipher_ctx["event"], secret, 1)

PairingInv == ControllerOK /\ WireOK /\ (NoneCiphered \/ ServerCiphered \/ BothCiphered)

-----------------------------------------------------------------------------
\* A frame on the control channel leaves the event channel as it was.
LEMMA SendMeans ==
  ASSUME WireOK, NEW frame, Send(frame)
  PROVE  WireOK' /\ wire'["control"] = frame /\ wire'["event"] = wire["event"]
BY DEF WireOK, Send, Channels

\* A cipher that was made is not a missing one.
LEMMA CipherIsThere ==
  ASSUME NEW channel, NEW secret, NEW cipher \in CiphersOf(channel, secret)
  PROVE  cipher /= NoCipher
<1>1. DOMAIN cipher = {"secret", "write", "read", "encryption_counter", "decryption_counter"}
  BY DEF CiphersOf
<1>2. DOMAIN NoCipher = {"secret"}
  BY DEF NoCipher
<1> QED
  BY <1>1, <1>2

\* None is no frame for anybody.
LEMMA NoneIsForNobody == None.to = "nobody" /\ None.sealed = FALSE
BY DEF None

\* A connection begins without ciphers.
LEMMA PairingInitRight == Init => PairingInv
<1> SUFFICES ASSUME Init
             PROVE  PairingInv
  OBVIOUS
<1>1. PICK kind, pin : controller = Fresh(kind, pin)
  BY DEF Init
<1>2. ControllerOK /\ controller.at = "setup1" /\ controller.cipher = NoCipher
        /\ controller.event = NoCipher
  BY <1>1 DEF Fresh, ControllerOK
<1>3. WireOK /\ wire["control"] = None /\ wire["event"] = None
  BY DEF Init, WireOK, Channels
<1>4. AskedRight /\ KindKnown /\ ProofIsOfKey /\ TransientRefused
  BY <1>2, <1>3, NoneIsForNobody
     DEF AskedRight, KindKnown, ProofIsOfKey, TransientRefused
<1>5. NoneCiphered
  BY <1>2, <1>3, <1>4 DEF Init, NoneCiphered
<1> QED
  BY <1>2, <1>3, <1>5 DEF PairingInv

\* The controller asks for the next step of the exchange.
LEMMA ControllerAsks ==
  ASSUME WireOK, NoneCiphered, ControllerOK',
         UNCHANGED <<setup_ctx, cipher_ctx, is_encrypted>>,
         NEW path, NEW message, Send(Plain("server", path, message)),
         controller'.cipher = NoCipher, controller'.event = NoCipher,
         Waiting', path = Requested.path', message.state = Requested.state',
         controller'.at = "setup2" => message.transient = (controller'.kind = "transient"),
         controller'.at = "setup4" =>
           /\ setup_ctx.is_transient = (controller'.kind = "transient")
           /\ \E salt, B : message.proof = ClientProof(salt, message.pkA, B, controller'.key)
           /\ controller'.proof = ServerProof(message.pkA, message.proof, controller'.key)
  PROVE  PairingInv'
<1>1. WireOK' /\ wire'["control"] = Plain("server", path, message) /\ wire'["event"] = None
  BY SendMeans DEF NoneCiphered
<1>2. /\ wire'["control"].to = "server" /\ wire'["control"].sealed = FALSE
      /\ wire'["control"].path = path /\ wire'["control"].m = message
  BY <1>1 DEF Plain
<1>3. AskedRight'
  BY <1>2 DEF AskedRight
<1>4. KindKnown'
  BY <1>2, Zenon DEF KindKnown
<1>5. ProofIsOfKey'
  BY <1>2, Zenon DEF ProofIsOfKey
<1>6. TransientRefused'
  BY <1>2 DEF TransientRefused
<1>7. NoneCiphered'
  BY <1>1, <1>2, <1>3, <1>4, <1>5, <1>6 DEF NoneCiphered
<1> QED
  BY <1>1, <1>7 DEF PairingInv

\* The server answers without making ciphers.
LEMMA ServerAnswers ==
  ASSUME WireOK, ControllerOK, NoneCiphered, Waiting,
         UNCHANGED <<controller, cipher_ctx, is_encrypted>>,
         NEW path, NEW message, Answer(path, message),
         controller.at = "setup2" => setup_ctx'.is_transient = (controller.kind = "transient"),
         controller.at = "setup4" /\ controller.kind = "transient" => Refused(message)
  PROVE  PairingInv'
<1>1. WireOK' /\ wire'["control"] = Plain("client", path, message) /\ wire'["event"] = None
  BY SendMeans DEF NoneCiphered, Answer
<1>2. /\ wire'["control"].to = "client" /\ wire'["control"].sealed = FALSE
      /\ wire'["control"].m = message
  BY <1>1 DEF Plain
<1>3. AskedRight' /\ ProofIsOfKey'
  BY <1>2 DEF AskedRight, ProofIsOfKey
<1>4. KindKnown'
  BY <1>2, Zenon DEF KindKnown
<1>5. TransientRefused'
  BY <1>2 DEF TransientRefused, Refused
<1>6. NoneCiphered'
  BY <1>1, <1>2, <1>3, <1>4, <1>5 DEF NoneCiphered, Waiting
<1>7. ControllerOK'
  BY DEF ControllerOK
<1> QED
  BY <1>1, <1>6, <1>7 DEF PairingInv

\* The controller takes an answer and asks for nothing: it gave up, or it is done.
LEMMA ControllerStops ==
  ASSUME WireOK, NoneCiphered, ControllerOK',
         UNCHANGED <<cipher_ctx, is_encrypted>>, Send(None),
         controller'.cipher = NoCipher, controller'.event = NoCipher,
         controller'.at \in {"refused", "verified"}
  PROVE  PairingInv'
<1>1. WireOK' /\ wire'["control"] = None /\ wire'["event"] = None
  BY SendMeans DEF NoneCiphered
<1>2. AskedRight' /\ KindKnown' /\ ProofIsOfKey' /\ TransientRefused'
  BY <1>1, NoneIsForNobody DEF AskedRight, KindKnown, ProofIsOfKey, TransientRefused
<1>3. NoneCiphered'
  BY <1>1, <1>2 DEF NoneCiphered
<1> QED
  BY <1>1, <1>3 DEF PairingInv

\* Who is in the middle of the exchange has no cipher, unless the answer on the way tells of one.
LEMMA InTheExchange ==
  ASSUME PairingInv, controller.at /= "paired",
         controller.at /= "setup4" \/ wire["control"].to /= "client"
  PROVE  NoneCiphered
BY DEF PairingInv, ServerCiphered, BothCiphered, Plain

LEMMA SetupRequest1Keeps ==
  ASSUME PairingInv, SetupRequest1
  PROVE  PairingInv'
<1>1. NoneCiphered
  BY InTheExchange DEF SetupRequest1
<1>2. /\ controller'.at = "setup2" /\ controller'.kind = controller.kind
      /\ controller'.cipher = NoCipher /\ controller'.event = NoCipher /\ ControllerOK'
  BY <1>1 DEF SetupRequest1, PairingInv, ControllerOK, NoneCiphered
<1> DEFINE message == [state |-> 1, transient |-> controller.kind = "transient"]
<1>3. Send(Plain("server", "setup", message))
  BY DEF SetupRequest1
<1>4. Requested' = [path |-> "setup", state |-> 1] /\ Waiting'
  BY <1>2 DEF Requested, Waiting
<1>5. message.transient = (controller'.kind = "transient")
  BY <1>2, Zenon
<1>6. message.state = 1
  OBVIOUS
<1> HIDE DEF message
<1> QED
  BY <1>1, <1>2, <1>3, <1>4, <1>5, <1>6, ControllerAsks DEF SetupRequest1, PairingInv

LEMMA GiveUpKeeps ==
  ASSUME PairingInv, GiveUp
  PROVE  PairingInv'
<1>1. controller.at \in {"setup2", "setup4", "setup6", "verify2", "verify4"}
  BY DEF GiveUp, Answered
<1>2. NoneCiphered
  <2>1. CASE ServerCiphered
    BY <2>1 DEF GiveUp, ServerCiphered, Plain, Refused
  <2> QED
    BY <1>1, <2>1 DEF PairingInv, BothCiphered
<1>3. /\ controller'.at = "refused" /\ ControllerOK'
      /\ controller'.cipher = NoCipher /\ controller'.event = NoCipher
  BY <1>2 DEF GiveUp, PairingInv, ControllerOK, NoneCiphered
<1> QED
  BY <1>2, <1>3, ControllerStops DEF GiveUp, PairingInv

LEMMA SetupRequest2Keeps ==
  ASSUME PairingInv, SetupRequest2
  PROVE  PairingInv'
<1>1. NoneCiphered
  BY InTheExchange DEF SetupRequest2, Answered
<1>2. PICK a \in Secrets :
        LET m == wire["control"].m
            A == ClientPublic(a)
            x == Hidden(m.salt, PinOf(controller.pin))
            key == ClientKey(m.pkB, x, Scrambling(A, m.pkB), a)
            M1 == ClientProof(m.salt, A, m.pkB, key)
        IN  /\ Send(Plain("server", "setup", [state |-> 3, pkA |-> A, proof |-> M1]))
            /\ controller' = [kind |-> controller.kind, pin |-> controller.pin, at |-> "setup4",
                              cipher |-> controller.cipher, event |-> controller.event,
                              accessory |-> controller.accessory,
                              key |-> key, proof |-> ServerProof(A, M1, key)]
  BY DEF SetupRequest2
<1>3. PICK salt, B, A, key :
        /\ Send(Plain("server", "setup",
                      [state |-> 3, pkA |-> A, proof |-> ClientProof(salt, A, B, key)]))
        /\ controller' = [kind |-> controller.kind, pin |-> controller.pin, at |-> "setup4",
                          cipher |-> controller.cipher, event |-> controller.event,
                          accessory |-> controller.accessory, key |-> key,
                          proof |-> ServerProof(A, ClientProof(salt, A, B, key), key)]
  BY <1>2, Zenon
<1>4. PICK message : message = [state |-> 3, pkA |-> A, proof |-> ClientProof(salt, A, B, key)]
  OBVIOUS
<1>5. /\ Send(Plain("server", "setup", message)) /\ message.state = 3 /\ message.pkA = A
      /\ message.proof = ClientProof(salt, A, B, key)
  BY <1>3, <1>4
<1>6. /\ controller'.at = "setup4" /\ controller'.kind = controller.kind
      /\ controller'.cipher = NoCipher /\ controller'.event = NoCipher /\ ControllerOK'
      /\ controller'.key = key
      /\ controller'.proof = ServerProof(A, ClientProof(salt, A, B, key), key)
  BY <1>1, <1>3 DEF ControllerOK, NoneCiphered
<1>7. Requested' = [path |-> "setup", state |-> 3] /\ Waiting'
  BY <1>6 DEF Requested, Waiting
<1>8. setup_ctx.is_transient = (controller'.kind = "transient")
  BY <1>1, <1>6, Zenon DEF SetupRequest2, Answered, NoneCiphered, KindKnown
<1>9. \E s, b : message.proof = ClientProof(s, message.pkA, b, controller'.key)
  BY <1>5, <1>6
<1>10. controller'.proof = ServerProof(message.pkA, message.proof, controller'.key)
  BY <1>5, <1>6
<1> QED
  BY <1>1, <1>5, <1>6, <1>7, <1>8, <1>9, <1>10, ControllerAsks DEF SetupRequest2, PairingInv

\* Client and server begin with the same counts.
LEMMA CiphersBegin ==
  ASSUME NEW secret, NEW channel \in {0, 1}
  PROVE  Linked(None, Cipher(channel, secret), Cipher(channel + 3, secret), secret, channel)
BY DEF Linked, CiphersOf, CountAlike, Cipher

LEMMA PairTransientKeeps ==
  ASSUME PairingInv, PairTransient
  PROVE  PairingInv'
<1>1. ServerCiphered
  <2>1. CASE NoneCiphered
    BY <2>1 DEF PairTransient, Answered, NoneCiphered, TransientRefused
  <2> QED
    BY <2>1 DEF PairingInv, BothCiphered, PairTransient, Answered
<1>2. /\ controller'.at = "paired" /\ ControllerOK'
      /\ controller'.cipher = Cipher(0, controller.key)
      /\ controller'.event = Cipher(1, controller.key)
  BY DEF PairTransient, PairingInv, ControllerOK
<1>3. WireOK' /\ wire'["control"] = None /\ wire'["event"] = None
  BY <1>1, SendMeans DEF PairingInv, PairTransient, ServerCiphered
<1>4. /\ cipher_ctx'["control"] = Cipher(3, controller.key)
      /\ cipher_ctx'["event"] = Cipher(4, controller.key)
      /\ cipher_ctx' = [c \in Channels |-> cipher_ctx'[c]]
      /\ is_encrypted' \in BOOLEAN
  BY <1>1 DEF PairTransient, ServerCiphered, Channels
<1>5. Linked(None, Cipher(0, controller.key), Cipher(3, controller.key), controller.key, 0)
  BY CiphersBegin
<1>6. Linked(None, Cipher(1, controller.key), Cipher(4, controller.key), controller.key, 1)
  BY CiphersBegin
<1>7. /\ Linked(wire'["control"], controller'.cipher, cipher_ctx'["control"], controller.key, 0)
      /\ Linked(wire'["event"], controller'.event, cipher_ctx'["event"], controller.key, 1)
  BY <1>2, <1>3, <1>4, <1>5, <1>6
<1>8. BothCiphered'
  BY <1>2, <1>4, <1>7, Zenon DEF BothCiphered
<1> QED
  BY <1>2, <1>3, <1>8 DEF PairingInv

LEMMA SetupRequest3Keeps ==
  ASSUME PairingInv, SetupRequest3
  PROVE  PairingInv'
<1>1. NoneCiphered
  BY DEF SetupRequest3, Answered, PairingInv, ServerCiphered, BothCiphered
<1>2. /\ controller'.at = "setup6"
      /\ controller'.cipher = NoCipher /\ controller'.event = NoCipher /\ ControllerOK'
  BY <1>1 DEF SetupRequest3, PairingInv, ControllerOK, NoneCiphered
<1>3. PICK message : message = [state |-> 5, data |-> ControllerInfo(controller.key)]
  OBVIOUS
<1>4. Send(Plain("server", "setup", message)) /\ message.state = 5
  BY <1>3 DEF SetupRequest3
<1>5. Requested' = [path |-> "setup", state |-> 5] /\ Waiting'
  BY <1>2 DEF Requested, Waiting
<1> QED
  BY <1>1, <1>2, <1>4, <1>5, ControllerAsks DEF SetupRequest3, PairingInv

LEMMA VerifyRequest1Keeps ==
  ASSUME PairingInv, VerifyRequest1
  PROVE  PairingInv'
<1>1. NoneCiphered
  BY InTheExchange DEF VerifyRequest1, Answered
<1>2. PICK e, accessory :
        /\ controller' = [kind |-> controller.kind, pin |-> controller.pin,
                          at |-> "verify2", cipher |-> NoCipher, event |-> NoCipher,
                          accessory |-> accessory, eph |-> e]
        /\ Send(Plain("server", "verify", [state |-> 1, pk |-> Power(Generator, e)]))
  BY Zenon DEF VerifyRequest1
<1>3. /\ controller'.at = "verify2"
      /\ controller'.cipher = NoCipher /\ controller'.event = NoCipher /\ ControllerOK'
  BY <1>2 DEF ControllerOK
<1>4. PICK message : message = [state |-> 1, pk |-> Power(Generator, e)]
  OBVIOUS
<1>5. Send(Plain("server", "verify", message)) /\ message.state = 1
  BY <1>2, <1>4
<1>6. Requested' = [path |-> "verify", state |-> 1] /\ Waiting'
  BY <1>3 DEF Requested, Waiting
<1> QED
  BY <1>1, <1>3, <1>5, <1>6, ControllerAsks DEF VerifyRequest1, PairingInv

LEMMA VerifyRequest2Keeps ==
  ASSUME PairingInv, VerifyRequest2
  PROVE  PairingInv'
<1>1. NoneCiphered
  BY InTheExchange DEF VerifyRequest2, Answered
<1>2. PICK shared, own, theirs :
        /\ Send(Plain("server", "verify",
                      [state |-> 3, data |-> ControllerProof(shared, own, theirs)]))
        /\ controller' = [kind |-> controller.kind, pin |-> controller.pin,
                          at |-> "verify4", cipher |-> NoCipher, event |-> NoCipher,
                          accessory |-> controller.accessory, key |-> shared]
  BY Zenon DEF VerifyRequest2
<1>3. /\ controller'.at = "verify4"
      /\ controller'.cipher = NoCipher /\ controller'.event = NoCipher /\ ControllerOK'
  BY <1>2 DEF ControllerOK
<1>4. PICK message : message = [state |-> 3, data |-> ControllerProof(shared, own, theirs)]
  OBVIOUS
<1>5. Send(Plain("server", "verify", message)) /\ message.state = 3
  BY <1>2, <1>4
<1>6. Requested' = [path |-> "verify", state |-> 3] /\ Waiting'
  BY <1>3 DEF Requested, Waiting
<1> QED
  BY <1>1, <1>3, <1>5, <1>6, ControllerAsks DEF VerifyRequest2, PairingInv

LEMMA VerifiedKeeps ==
  ASSUME PairingInv, Verified
  PROVE  PairingInv'
<1>1. NoneCiphered
  BY InTheExchange DEF Verified, Answered
<1>2. /\ controller'.at = "verified" /\ ControllerOK'
      /\ controller'.cipher = NoCipher /\ controller'.event = NoCipher
  BY <1>1 DEF Verified, PairingInv, ControllerOK, NoneCiphered
<1> QED
  BY <1>1, <1>2, ControllerStops DEF Verified, PairingInv

\* On another connection, or on the same one: there was no cipher.
LEMMA TryAgainKeeps ==
  ASSUME PairingInv, TryAgain
  PROVE  PairingInv'
<1>1. NoneCiphered
  BY InTheExchange DEF TryAgain
<1>2. PICK kind, pin : controller' = Fresh(kind, pin)
  BY Zenon DEF TryAgain
<1>3. /\ ControllerOK' /\ controller'.at = "setup1" /\ controller'.cipher = NoCipher
      /\ controller'.event = NoCipher
  BY <1>2 DEF Fresh, ControllerOK
<1>4. wire' = wire /\ wire["control"] = None
  BY <1>1 DEF TryAgain, NoneCiphered, Waiting
<1>5. cipher_ctx' = [c \in Channels |-> NoCipher] /\ is_encrypted' = FALSE
  BY <1>1 DEF TryAgain, NoneCiphered
<1>6. AskedRight' /\ KindKnown' /\ ProofIsOfKey' /\ TransientRefused'
  BY <1>3, <1>4, NoneIsForNobody DEF AskedRight, KindKnown, ProofIsOfKey, TransientRefused
<1>7. NoneCiphered'
  BY <1>1, <1>3, <1>4, <1>5, <1>6 DEF NoneCiphered
<1> QED
  BY <1>3, <1>4, <1>7 DEF PairingInv, WireOK

\* What arrives is what the controller waits for an answer to.
LEMMA RequestArrived ==
  ASSUME PairingInv, NEW path, Arrived(path)
  PROVE  /\ NoneCiphered /\ Waiting
         /\ Requested.path = path /\ Requested.state = wire["control"].m.state
<1>1. cipher_ctx["control"] = NoCipher /\ wire["control"].to = "server"
  BY DEF Arrived
<1>2. ~ServerCiphered
  BY <1>1 DEF ServerCiphered, Plain
<1>3. ~BothCiphered
  BY <1>1, CipherIsThere DEF BothCiphered, Linked
<1>4. NoneCiphered
  BY <1>2, <1>3 DEF PairingInv
<1> QED
  BY <1>1, <1>4, NoneIsForNobody DEF NoneCiphered, AskedRight, Arrived

LEMMA SetupResponse1Keeps ==
  ASSUME PairingInv, SetupResponse1
  PROVE  PairingInv'
<1>1. Arrived("setup") /\ wire["control"].m.state = 1
  BY DEF SetupResponse1
<1>2. NoneCiphered /\ Waiting /\ Requested.path = "setup" /\ Requested.state = 1
  BY <1>1, RequestArrived
<1>3. controller.at = "setup2"
  BY <1>2 DEF Waiting, Requested
<1>4. PICK message : Answer("setup", message)
  BY Zenon DEF SetupResponse1
<1>5. setup_ctx'.is_transient = wire["control"].m.transient
  BY DEF SetupResponse1
<1>6. setup_ctx'.is_transient = (controller.kind = "transient")
  BY <1>1, <1>2, <1>3, <1>5, Zenon DEF NoneCiphered, KindKnown, Arrived
<1> QED
  BY <1>2, <1>3, <1>4, <1>6, ServerAnswers DEF SetupResponse1, PairingInv

\* M3: the proof shows that both have the same key; if the pairing is transient it becomes the
\* secret of the ciphers of both, otherwise there are none.
LEMMA SetupResponse2Keeps ==
  ASSUME PairingInv, SetupResponse2
  PROVE  PairingInv'
<1> DEFINE m == wire["control"].m
           key == ServerKey(m.pkA, setup_ctx.v, Scrambling(m.pkA, setup_ctx.pkB), setup_ctx.b)
           proven == /\ setup_ctx.status /= "AUTH_FAILED"
                     /\ m.proof = ClientProof(setup_ctx.salt, m.pkA, setup_ctx.pkB, key)
           completed == proven /\ setup_ctx.is_transient
<1>1. Arrived("setup") /\ m.state = 3 /\ controller' = controller
  BY DEF SetupResponse2
<1>2. NoneCiphered /\ Waiting /\ Requested.path = "setup" /\ Requested.state = 3
  BY <1>1, RequestArrived
<1>3. controller.at = "setup4" /\ wire["control"].to = "server"
  BY <1>1, <1>2 DEF Waiting, Requested, Arrived
<1>4. setup_ctx.is_transient = (controller.kind = "transient")
  BY <1>2, <1>3, Zenon DEF NoneCiphered, KindKnown
<1>5. Answer("setup", ProofOrRefusal(proven, m.pkA, m.proof, key)) /\ Prepare(completed, key)
  BY Zenon DEF SetupResponse2
<1>6. PICK salt, B : /\ m.proof = ClientProof(salt, m.pkA, B, controller.key)
                     /\ controller.proof = ServerProof(m.pkA, m.proof, controller.key)
  BY <1>2, <1>3 DEF NoneCiphered, ProofIsOfKey
<1>7. proven => key = controller.key
  <2> HIDE DEF key
  <2> QED
    BY <1>6 DEF ClientProof
<1>8. CASE completed
  <2>1. key = controller.key /\ controller.kind = "transient" /\ proven
    BY <1>4, <1>7, <1>8, Zenon
  <2>2. /\ cipher_ctx' = [control |-> Cipher(3, controller.key), event |-> Cipher(4, controller.key)]
        /\ is_encrypted' = is_encrypted
    <3> HIDE DEF key, completed
    <3> QED
      BY <1>5, <1>8, <2>1 DEF Prepare
  <2>3. ProofOrRefusal(proven, m.pkA, m.proof, key) = [state |-> 4, proof |-> controller.proof]
    <3> HIDE DEF key, proven
    <3> QED
      BY <1>6, <2>1 DEF ProofOrRefusal
  <2>4. Send(Plain("client", "setup", [state |-> 4, proof |-> controller.proof]))
    BY <1>5, <2>3, Zenon DEF Answer
  <2>5. /\ WireOK' /\ wire'["event"] = None
        /\ wire'["control"] = Plain("client", "setup", [state |-> 4, proof |-> controller.proof])
    BY <1>2, <2>4, SendMeans DEF PairingInv, NoneCiphered
  <2>6. ServerCiphered'
    BY <1>1, <1>2, <1>3, <2>1, <2>2, <2>5 DEF ServerCiphered, NoneCiphered
  <2> QED
    BY <1>1, <2>5, <2>6 DEF PairingInv, ControllerOK
<1>9. CASE ~completed
  <2>1. UNCHANGED <<controller, cipher_ctx, is_encrypted>>
    <3> HIDE DEF key, completed
    <3> QED
      BY <1>1, <1>5, <1>9 DEF Prepare
  <2>2. controller.kind = "transient" => ~proven
    BY <1>4, <1>9, Zenon
  <2>3. controller.kind = "transient" => Refused(ProofOrRefusal(proven, m.pkA, m.proof, key))
    <3> HIDE DEF key, proven
    <3> QED
      BY <2>2 DEF ProofOrRefusal, AuthFailed, Refused
  <2>4. PICK message : /\ Answer("setup", message)
                       /\ controller.kind = "transient" => Refused(message)
    <3> HIDE DEF key, proven
    <3> QED
      BY <1>5, <2>3, Zenon
  <2> QED
    BY <1>2, <1>3, <2>1, <2>4, ServerAnswers DEF PairingInv
<1> QED
  BY <1>8, <1>9

\* The rest of a pairing for good, and pair-verify, end without ciphers.
LEMMA SetupResponse3Keeps ==
  ASSUME PairingInv, SetupResponse3
  PROVE  PairingInv'
<1>1. NoneCiphered /\ Waiting /\ Requested.path = "setup" /\ Requested.state = 5
  BY RequestArrived DEF SetupResponse3
<1>2. controller.at = "setup6"
  BY <1>1 DEF Waiting, Requested
<1>3. PICK message : Answer("setup", message)
  BY Zenon DEF SetupResponse3
<1> QED
  BY <1>1, <1>2, <1>3, ServerAnswers DEF SetupResponse3, PairingInv

LEMMA VerifyResponse1Keeps ==
  ASSUME PairingInv, VerifyResponse1
  PROVE  PairingInv'
<1>1. NoneCiphered /\ Waiting /\ Requested.path = "verify"
  BY RequestArrived DEF VerifyResponse1
<1>2. controller.at \in {"verify2", "verify4"}
  BY <1>1 DEF Waiting, Requested
<1>3. PICK message : Answer("verify", message)
  BY Zenon DEF VerifyResponse1
<1> QED
  BY <1>1, <1>2, <1>3, ServerAnswers DEF VerifyResponse1, PairingInv

LEMMA VerifyResponse2Keeps ==
  ASSUME PairingInv, VerifyResponse2
  PROVE  PairingInv'
<1>1. NoneCiphered /\ Waiting /\ Requested.path = "verify"
  BY RequestArrived DEF VerifyResponse2
<1>2. controller.at \in {"verify2", "verify4"}
  BY <1>1 DEF Waiting, Requested
<1>3. PICK message : Answer("verify", message)
  BY Zenon DEF VerifyResponse2
<1> QED
  BY <1>1, <1>2, <1>3, ServerAnswers DEF VerifyResponse2, PairingInv

-----------------------------------------------------------------------------
\* A cipher after a block that it sealed, and after one that it opened
LEMMA CipherGoesOn ==
  ASSUME NEW channel, NEW secret, NEW cipher \in CiphersOf(channel, secret)
  PROVE  /\ Wrote(cipher) \in CiphersOf(channel, secret)
         /\ Wrote(cipher).encryption_counter = cipher.encryption_counter + 1
         /\ Wrote(cipher).decryption_counter = cipher.decryption_counter
         /\ Read(cipher) \in CiphersOf(channel, secret)
         /\ Read(cipher).decryption_counter = cipher.decryption_counter + 1
         /\ Read(cipher).encryption_counter = cipher.encryption_counter
BY DEF CiphersOf, Wrote, Read

\* The ways of a frame between the ends of a channel: it is sent, it is taken, and it is
\* answered with another.
LEMMA FrameSent ==
  ASSUME NEW client, NEW server, NEW secret, NEW channel,
         Linked(None, client, server, secret, channel)
  PROVE  /\ Linked(Sealed("server", client), Wrote(client), server, secret, channel)
         /\ Linked(Sealed("client", server), client, Wrote(server), secret, channel)
<1> USE DEF Linked
<1>1. /\ client.encryption_counter = server.decryption_counter
      /\ client.decryption_counter = server.encryption_counter
  BY NoneIsForNobody DEF CountAlike
<1>2. /\ Wrote(client).secret = client.secret /\ Wrote(client).write = client.write
      /\ Wrote(server).secret = server.secret /\ Wrote(server).write = server.write
  BY DEF Wrote, CiphersOf
<1>3. CountAlike(Sealed("server", client), Wrote(client), server)
  BY <1>1, <1>2, CipherGoesOn DEF CountAlike, Sealed
<1>4. CountAlike(Sealed("client", server), client, Wrote(server))
  BY <1>1, <1>2, CipherGoesOn DEF CountAlike, Sealed
<1> QED
  BY <1>3, <1>4, CipherGoesOn

LEMMA FrameTaken ==
  ASSUME NEW client, NEW server, NEW secret, NEW channel, NEW frame,
         Linked(frame, client, server, secret, channel)
  PROVE  /\ frame.to = "server" => Linked(None, client, Read(server), secret, channel)
         /\ frame.to = "client" => Linked(None, Read(client), server, secret, channel)
<1> USE DEF Linked
<1>1. /\ frame.to = "server" =>
           /\ client.encryption_counter = server.decryption_counter + 1
           /\ client.decryption_counter = server.encryption_counter
      /\ frame.to = "client" =>
           /\ client.encryption_counter = server.decryption_counter
           /\ server.encryption_counter = client.decryption_counter + 1
  BY NoneIsForNobody DEF CountAlike
<1>2. frame.to = "server" => CountAlike(None, client, Read(server))
  BY <1>1, CipherGoesOn DEF CountAlike
<1>3. frame.to = "client" => CountAlike(None, Read(client), server)
  BY <1>1, CipherGoesOn DEF CountAlike
<1> QED
  BY <1>2, <1>3, CipherGoesOn

LEMMA FrameAnswered ==
  ASSUME NEW client, NEW server, NEW secret, NEW channel, NEW frame,
         Linked(frame, client, server, secret, channel)
  PROVE  /\ frame.to = "server" =>
              Linked(Sealed("client", server), client, Wrote(Read(server)), secret, channel)
         /\ frame.to = "client" =>
              Linked(Sealed("server", client), Wrote(Read(client)), server, secret, channel)
<1>1. Sealed("client", Read(server)) = Sealed("client", server)
  BY DEF Linked, CiphersOf, Sealed, Read
<1>2. Sealed("server", Read(client)) = Sealed("server", client)
  BY DEF Linked, CiphersOf, Sealed, Read
<1>3. CASE frame.to = "server"
  <2>1. Linked(None, client, Read(server), secret, channel)
    BY <1>3, FrameTaken
  <2> QED
    BY <1>1, <1>3, <2>1, FrameSent
<1>4. CASE frame.to = "client"
  <2>1. Linked(None, Read(client), server, secret, channel)
    BY <1>4, FrameTaken
  <2> QED
    BY <1>2, <1>4, <2>1, FrameSent
<1> QED
  BY <1>3, <1>4

\* What the two ends of the channels make of a step once both have ciphers
LEMMA PairedGoesOn ==
  ASSUME BothCiphered, WireOK', ControllerOK', controller'.at = "paired",
         cipher_ctx' = [c \in Channels |-> cipher_ctx'[c]], is_encrypted' \in BOOLEAN,
         NEW secret,
         Linked(wire'["control"], controller'.cipher, cipher_ctx'["control"], secret, 0),
         Linked(wire'["event"], controller'.event, cipher_ctx'["event"], secret, 1)
  PROVE  PairingInv'
<1>1. BothCiphered'
  BY Zenon DEF BothCiphered
<1> QED
  BY <1>1 DEF PairingInv

LEMMA RequestKeeps ==
  ASSUME PairingInv, Request
  PROVE  PairingInv'
<1>1. BothCiphered
  BY DEF Request, PairingInv, NoneCiphered, Waiting, ServerCiphered
<1>2. PICK secret :
        /\ Linked(wire["control"], controller.cipher, cipher_ctx["control"], secret, 0)
        /\ Linked(wire["event"], controller.event, cipher_ctx["event"], secret, 1)
  BY <1>1 DEF BothCiphered
<1>3. /\ ControllerOK' /\ controller'.at = "paired" /\ controller'.event = controller.event
      /\ controller'.cipher = Wrote(controller.cipher)
  BY DEF Request, PairingInv, ControllerOK
<1>4. /\ WireOK' /\ wire'["event"] = wire["event"]
      /\ wire'["control"] = Sealed("server", controller.cipher)
  BY SendMeans DEF Request, PairingInv
<1>5. Linked(wire'["control"], controller'.cipher, cipher_ctx["control"], secret, 0)
  BY <1>2, <1>3, <1>4, FrameSent DEF Request
<1> QED
  BY <1>1, <1>2, <1>3, <1>4, <1>5, PairedGoesOn DEF Request, BothCiphered

LEMMA TakeAnswerKeeps ==
  ASSUME PairingInv, TakeAnswer
  PROVE  PairingInv'
<1>1. BothCiphered
  BY DEF TakeAnswer, Answered, PairingInv, NoneCiphered, Waiting, ServerCiphered
<1>2. PICK secret :
        /\ Linked(wire["control"], controller.cipher, cipher_ctx["control"], secret, 0)
        /\ Linked(wire["event"], controller.event, cipher_ctx["event"], secret, 1)
  BY <1>1 DEF BothCiphered
<1>3. /\ ControllerOK' /\ controller'.at = "paired" /\ controller'.event = controller.event
      /\ controller'.cipher = Read(controller.cipher)
  BY DEF TakeAnswer, Answered, PairingInv, ControllerOK
<1>4. WireOK' /\ wire'["event"] = wire["event"] /\ wire'["control"] = None
  BY SendMeans DEF TakeAnswer, PairingInv
<1>5. Linked(wire'["control"], controller'.cipher, cipher_ctx["control"], secret, 0)
  BY <1>2, <1>3, <1>4, FrameTaken DEF TakeAnswer, Answered
<1> QED
  BY <1>1, <1>2, <1>3, <1>4, <1>5, PairedGoesOn DEF TakeAnswer, BothCiphered

LEMMA AnswerEventKeeps ==
  ASSUME PairingInv, AnswerEvent
  PROVE  PairingInv'
<1>1. BothCiphered
  BY DEF AnswerEvent, PairingInv, NoneCiphered, Waiting, ServerCiphered
<1>2. PICK secret :
        /\ Linked(wire["control"], controller.cipher, cipher_ctx["control"], secret, 0)
        /\ Linked(wire["event"], controller.event, cipher_ctx["event"], secret, 1)
  BY <1>1 DEF BothCiphered
<1>3. /\ ControllerOK' /\ controller'.at = "paired" /\ controller'.cipher = controller.cipher
      /\ controller'.event = Wrote(Read(controller.event))
  BY DEF AnswerEvent, PairingInv, ControllerOK
<1>4. /\ WireOK' /\ wire'["control"] = wire["control"]
      /\ wire'["event"] = Sealed("server", controller.event)
  BY DEF AnswerEvent, PairingInv, WireOK, Channels
<1>5. Linked(wire'["event"], controller'.event, cipher_ctx["event"], secret, 1)
  BY <1>2, <1>3, <1>4, FrameAnswered DEF AnswerEvent
<1> QED
  BY <1>1, <1>2, <1>3, <1>4, <1>5, PairedGoesOn DEF AnswerEvent, BothCiphered

LEMMA ServeRequestKeeps ==
  ASSUME PairingInv, ServeRequest
  PROVE  PairingInv'
<1>1. BothCiphered
  <2>1. ~NoneCiphered
    BY DEF ServeRequest, NoneCiphered, Channels
  <2>2. ~ServerCiphered
    BY DEF ServeRequest, ServerCiphered, Plain
  <2> QED
    BY <2>1, <2>2 DEF PairingInv
<1>2. PICK secret :
        /\ Linked(wire["control"], controller.cipher, cipher_ctx["control"], secret, 0)
        /\ Linked(wire["event"], controller.event, cipher_ctx["event"], secret, 1)
  BY <1>1 DEF BothCiphered
<1>3. /\ cipher_ctx' = [c \in Channels |-> cipher_ctx'[c]]
      /\ cipher_ctx'["control"] = Wrote(Read(cipher_ctx["control"]))
      /\ cipher_ctx'["event"] = cipher_ctx["event"]
  BY <1>1 DEF ServeRequest, BothCiphered, Channels
<1>4. /\ WireOK' /\ wire'["event"] = wire["event"]
      /\ wire'["control"] = Sealed("client", cipher_ctx["control"])
  BY SendMeans DEF ServeRequest, PairingInv
<1>5. Linked(wire'["control"], controller.cipher, cipher_ctx'["control"], secret, 0)
  BY <1>2, <1>3, <1>4, FrameAnswered DEF ServeRequest
<1>6. ControllerOK' /\ controller' = controller /\ controller.at = "paired"
  BY <1>1 DEF ServeRequest, PairingInv, ControllerOK, BothCiphered
<1> QED
  BY <1>1, <1>2, <1>3, <1>4, <1>5, <1>6, PairedGoesOn DEF ServeRequest

LEMMA SendEventKeeps ==
  ASSUME PairingInv, SendEvent
  PROVE  PairingInv'
<1>1. BothCiphered
  BY DEF SendEvent, PairingInv, NoneCiphered, ServerCiphered
<1>2. PICK secret :
        /\ Linked(wire["control"], controller.cipher, cipher_ctx["control"], secret, 0)
        /\ Linked(wire["event"], controller.event, cipher_ctx["event"], secret, 1)
  BY <1>1 DEF BothCiphered
<1>3. /\ cipher_ctx' = [c \in Channels |-> cipher_ctx'[c]]
      /\ cipher_ctx'["event"] = Wrote(cipher_ctx["event"])
      /\ cipher_ctx'["control"] = cipher_ctx["control"]
  BY <1>1 DEF SendEvent, BothCiphered, Channels
<1>4. /\ WireOK' /\ wire'["control"] = wire["control"]
      /\ wire'["event"] = Sealed("client", cipher_ctx["event"])
  BY DEF SendEvent, PairingInv, WireOK, Channels
<1>5. Linked(wire'["event"], controller.event, cipher_ctx'["event"], secret, 1)
  BY <1>2, <1>3, <1>4, FrameSent DEF SendEvent
<1>6. ControllerOK' /\ controller' = controller /\ controller.at = "paired"
  BY <1>1 DEF SendEvent, PairingInv, ControllerOK, BothCiphered
<1> QED
  BY <1>1, <1>2, <1>3, <1>4, <1>5, <1>6, PairedGoesOn DEF SendEvent, BothCiphered

LEMMA EventAnsweredKeeps ==
  ASSUME PairingInv, EventAnswered
  PROVE  PairingInv'
<1>1. BothCiphered
  BY NoneIsForNobody DEF EventAnswered, PairingInv, NoneCiphered, ServerCiphered
<1>2. PICK secret :
        /\ Linked(wire["control"], controller.cipher, cipher_ctx["control"], secret, 0)
        /\ Linked(wire["event"], controller.event, cipher_ctx["event"], secret, 1)
  BY <1>1 DEF BothCiphered
<1>3. /\ cipher_ctx' = [c \in Channels |-> cipher_ctx'[c]]
      /\ cipher_ctx'["event"] = Read(cipher_ctx["event"])
      /\ cipher_ctx'["control"] = cipher_ctx["control"]
  BY <1>1 DEF EventAnswered, BothCiphered, Channels
<1>4. WireOK' /\ wire'["control"] = wire["control"] /\ wire'["event"] = None
  BY DEF EventAnswered, PairingInv, WireOK, Channels
<1>5. Linked(wire'["event"], controller.event, cipher_ctx'["event"], secret, 1)
  BY <1>2, <1>3, <1>4, FrameTaken DEF EventAnswered
<1>6. ControllerOK' /\ controller' = controller /\ controller.at = "paired"
  BY <1>1 DEF EventAnswered, PairingInv, ControllerOK, BothCiphered
<1> QED
  BY <1>1, <1>2, <1>3, <1>4, <1>5, <1>6, PairedGoesOn DEF EventAnswered, BothCiphered

-----------------------------------------------------------------------------
LEMMA PairingStepRight == PairingInv /\ [Next]_vars => PairingInv'
<1> SUFFICES ASSUME PairingInv, [Next]_vars
             PROVE  PairingInv'
  OBVIOUS
<1>1. CASE ControllerStep
  BY <1>1, SetupRequest1Keeps, GiveUpKeeps, SetupRequest2Keeps, PairTransientKeeps,
     SetupRequest3Keeps, VerifyRequest1Keeps, VerifyRequest2Keeps, VerifiedKeeps,
     RequestKeeps, TakeAnswerKeeps, AnswerEventKeeps, Zenon DEF ControllerStep
<1>2. CASE ServerStep
  BY <1>2, SetupResponse1Keeps, SetupResponse2Keeps, SetupResponse3Keeps,
     VerifyResponse1Keeps, VerifyResponse2Keeps, ServeRequestKeeps, SendEventKeeps,
     EventAnsweredKeeps, Zenon DEF ServerStep
<1>3. CASE TryAgain
  BY <1>3, TryAgainKeeps
<1>4. CASE UNCHANGED vars
  BY <1>4, Zenon
     DEF vars, PairingInv, ControllerOK, WireOK, NoneCiphered, ServerCiphered, BothCiphered,
         AskedRight, KindKnown, ProofIsOfKey, TransientRefused, Requested, Waiting
<1> QED
  BY <1>1, <1>2, <1>3, <1>4 DEF Next

\* What is on its way can be read with the keys and the count that its receiver has.
LEMMA FrameOpens ==
  ASSUME NEW client, NEW server, NEW secret, NEW channel \in {0, 1}, NEW frame,
         Linked(frame, client, server, secret, channel)
  PROVE  /\ frame.to = "server" => Opens(frame, server)
         /\ frame.to = "client" => Opens(frame, client)
BY NoneIsForNobody DEF Linked, CountAlike, CiphersOf, Keys, Opens

LEMMA InvIsReadable == PairingInv => NeverGarbled
<1> SUFFICES ASSUME PairingInv
             PROVE  NeverGarbled
  OBVIOUS
<1>1. CASE NoneCiphered
  BY <1>1, NoneIsForNobody DEF NoneCiphered, NeverGarbled, Channels
<1>2. CASE ServerCiphered
  BY <1>2, NoneIsForNobody DEF ServerCiphered, NeverGarbled, Channels, Plain
<1>3. CASE BothCiphered
  <2>1. PICK secret :
          /\ Linked(wire["control"], controller.cipher, cipher_ctx["control"], secret, 0)
          /\ Linked(wire["event"], controller.event, cipher_ctx["event"], secret, 1)
    BY <1>3 DEF BothCiphered
  <2>2. /\ controller.cipher /= NoCipher /\ controller.event /= NoCipher
        /\ cipher_ctx["control"] /= NoCipher /\ cipher_ctx["event"] /= NoCipher
    BY <2>1, CipherIsThere DEF Linked
  <2>3. /\ wire["control"].to = "server" => Opens(wire["control"], cipher_ctx["control"])
        /\ wire["control"].to = "client" => Opens(wire["control"], controller.cipher)
        /\ wire["event"].to = "server" => Opens(wire["event"], cipher_ctx["event"])
        /\ wire["event"].to = "client" => Opens(wire["event"], controller.event)
    BY <2>1, FrameOpens
  <2> QED
    BY <2>2, <2>3, Zenon DEF NeverGarbled, Channels
<1> QED
  BY <1>1, <1>2, <1>3 DEF PairingInv

\* No end ever has ciphers of another secret than the other end, or counts otherwise:
\* PairingInv is an invariant, for any PINs, salts, secrets and number of tries.
THEOREM PairingStaysRight == Spec => []PairingInv
<1> QED
  BY PairingInitRight, PairingStepRight, PTL DEF Spec

\* Whatever the controller's user types, however often it tries and whether or not it stays on
\* its connection: what reaches an end of the control or the event channel can be read there.
THEOREM FramesStayReadable == Spec => []NeverGarbled
<1> QED
  BY PairingStaysRight, InvIsReadable, PTL

=============================================================================
