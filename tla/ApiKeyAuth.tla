----------------------------- MODULE ApiKeyAuth -----------------------------
(***************************************************************************)
(* auth_api_key.py and scram_impl.py: one login with an API key, against a *)
(* server that may be old, hold another key, or not be the server that the *)
(* key was made for.  Scram has the messages.                              *)
(***************************************************************************)
EXTENDS Scram

CONSTANTS
  Secrets,       \* key material
  ServerSecret,  \* that of the key with the id 1 on the server
  Salts,
  MinIters,      \* SCRAM_MIN_ITERS
  MaxIters,      \* SCRAM_MAX_ITERS
  Iterations     \* the iteration counts that servers use

ASSUME SecretAssumption == ServerSecret \in Secrets

ASSUME IterationsAssumption ==
  MinIters \in Nat /\ MaxIters \in Nat /\ MinIters <= MaxIters /\ Iterations \subseteq Nat

VARIABLES
  given,    \* the arguments of login_with_api_key
  server,   \* what the server is like
  login,    \* the next login of api_key_authenticate
  first,    \* client_first_message
  reply,    \* server_first_message, as the client and the server have it
  final,    \* client_final_message
  signed,   \* the signature in the server's last answer
  session,  \* the server has the connection authenticated
  fault,    \* a call failed, or an answer was not what the protocol asks for
  result

kvars == <<given, server, login, first, reply, final, signed, session, fault, result>>

\* What a key string is read as; "odd" is a raw key without a separator.
Raw(id, secret) == [form |-> "RAW", id |-> id, secret |-> secret]

Precomputed(id, secret, salt, iterations) ==
  [form |-> "PRECOMPUTED", id |-> id, secret |-> secret,
   keys |-> AuthData(Hi(secret, salt, iterations))]

KeyStrings ==
  {Raw(id, secret) : id \in {0, 1}, secret \in Secrets}
    \cup {Precomputed(1, secret, salt, n) : secret \in Secrets, salt \in Salts, n \in Iterations}
    \cup {[form |-> form] : form \in {"odd", "unreadable", "not_a_table"}}

Servers ==
  [offers : {"scram", "plain", "no_method", "broken", "fails"},
   salt : Salts, iterations : Iterations, genuine : BOOLEAN]

ServerKeys == AuthData(Hi(ServerSecret, server.salt, server.iterations))

NoPart == [form |-> "none"]

AuthInit ==
  /\ given \in [mech : {"AUTO", "SCRAM", "PLAIN"}, username : {"", "user"}, key : KeyStrings]
  /\ server \in Servers
  /\ login = "key"
  /\ first = NoPart /\ reply = NoPart /\ final = NoPart
  /\ signed = {}
  /\ session = FALSE
  /\ fault = FALSE
  /\ result = "pending"

Go(s) == login' = s /\ UNCHANGED result

Return(r) == login' = "end" /\ result' = r

-----------------------------------------------------------------------------
\* get_key_material: a string that is neither a raw key, JSON nor INI is a ValueError;
\* JSON that is no object fails in the look-up of its fields.
ReadKey ==
  /\ login = "key"
  /\ CASE given.key.form = "unreadable" -> Return("ValueError")
       [] given.key.form = "not_a_table" -> Return("TypeError")
       [] OTHER -> Go("mechanism")
  /\ UNCHANGED <<given, server, first, reply, final, signed, session, fault>>

Legacy ==
  \/ given.mech = "PLAIN"
  \/ given.mech = "AUTO" /\ (server.offers # "scram" \/ given.username = "")

\* auth.mechanism_choices: two errors of old servers mean API_KEY_PLAIN.
ChooseMechanism ==
  /\ login = "mechanism"
  /\ \/ /\ server.offers = "fails"
        /\ Return("ClientException")
        /\ fault' = TRUE
     \/ /\ server.offers # "fails"
        /\ \/ /\ Legacy
              /\ IF given.key.form = "PRECOMPUTED" THEN Return("ValueError") ELSE Go("plain")
           \/ /\ ~Legacy
              /\ IF server.offers # "scram" \/ given.username = "" \/ given.key.form = "odd"
                 THEN Return("ValueError")
                 ELSE Go("first")
        /\ UNCHANGED fault
  /\ UNCHANGED <<given, server, first, reply, final, signed, session>>

\* auth.login_with_api_key: any answer that is true is a success; what a server that
\* is not genuine answers says nothing of the key.
LoginPlain ==
  /\ login = "plain"
  /\ \E taken \in IF server.genuine THEN {given.key = Raw(1, ServerSecret)} ELSE BOOLEAN :
       \/ /\ session' = taken
          /\ Return(IF taken THEN "ok" ELSE "ValueError")
          /\ UNCHANGED fault
       \/ /\ session' \in {FALSE, taken}
          /\ Return("ClientException")
          /\ fault' = TRUE
  /\ UNCHANGED <<given, server, first, reply, final, signed>>

\* The keys that the client holds once it has the server's first message.
ClientKeys ==
  IF given.key.form = "RAW"
  THEN AuthData(Hi(given.key.secret, reply'.salt, reply'.iterations))
  ELSE given.key.keys

\* Mutant of InRange: the bounds themselves are refused.
StrictlyInRange(n) == MinIters < n /\ n < MaxIters

\* The bounds of get_client_final_message.
InRange(n) == MinIters <= n /\ n <= MaxIters

\* The client's first message and the server's answer: the server does not know the
\* key, or begins the exchange.  A count over the maximum is refused by the parser,
\* with a ScramError, one under the minimum by TNScramClient.
FirstExchange ==
  /\ login = "first"
  /\ first' = ClientFirst(given.username, given.key.id, "c")
  /\ \/ /\ first'.name # <<"user", 1>>
        /\ Return("ValueError")
        /\ UNCHANGED <<reply, final, fault>>
     \/ /\ first'.name = <<"user", 1>>
        /\ reply' = ServerFirst(first', "s", server.salt, server.iterations)
        /\ IF InRange(reply'.iterations)
           THEN /\ final' = ClientFinal(first', reply', ClientKeys.client_key, ClientKeys.stored_key)
                /\ Go("final")
           ELSE /\ Return(IF reply'.iterations > MaxIters THEN "ScramError" ELSE "ValueError")
                /\ UNCHANGED final
        /\ UNCHANGED fault
     \/ /\ \E e \in {"ClientException", "ValueError", "TypeError", "KeyError"} : Return(e)
        /\ fault' = TRUE
        /\ UNCHANGED <<reply, final>>
  /\ UNCHANGED <<given, server, signed, session>>

\* What the server signs with; one that is not genuine does not have the server key,
\* takes any proof, and signs with something else or not at all.
Signatures ==
  IF server.genuine
  THEN {ServerSignature(first, reply, final, ServerKeys.server_key)}
  ELSE {{}, HMAC({<<"other">>}, <<"other">>)}

\* The client's last message: ServerFinalMessage verifies the proof before it signs.
FinalExchange ==
  /\ login = "final"
  /\ LET taken == ~server.genuine \/ VerifiesClient(first, reply, final, ServerKeys.stored_key)
     IN \/ /\ taken
           /\ session' = TRUE
           /\ signed' \in Signatures
           /\ Go("verify")
           /\ UNCHANGED fault
        \/ /\ ~taken
           /\ Return("ValueError")
           /\ UNCHANGED <<session, signed, fault>>
        \/ /\ session' \in {FALSE, taken}
           /\ \E e \in {"ClientException", "ValueError", "KeyError"} : Return(e)
           /\ fault' = TRUE
           /\ UNCHANGED signed
  /\ UNCHANGED <<given, server, first, reply, final>>

\* Mutant of Verify: the session is kept when the signature is not that of the server.
VerifyKeepsSession ==
  /\ login = "verify"
  /\ LET server_key == IF given.key.form = "RAW"
                       THEN ServerKeyOf(Hi(given.key.secret, reply.salt, reply.iterations))
                       ELSE given.key.keys.server_key
     IN Return(IF VerifiesServer(first, reply, final, signed, server_key)
               THEN "ok" ELSE "ValueError")
  /\ UNCHANGED <<given, server, first, reply, final, signed, session, fault>>

\* verify_server_final_message; whatever it raises, the client logs out.
Verify ==
  /\ login = "verify"
  /\ LET server_key == IF given.key.form = "RAW"
                       THEN ServerKeyOf(Hi(given.key.secret, reply.salt, reply.iterations))
                       ELSE given.key.keys.server_key
     IN IF VerifiesServer(first, reply, final, signed, server_key)
        THEN Return("ok")
        ELSE Go("logout")
  /\ UNCHANGED <<given, server, first, reply, final, signed, session, fault>>

\* auth.logout; its errors are ignored.
Logout ==
  /\ login = "logout"
  /\ \/ session' = FALSE /\ UNCHANGED fault
     \/ UNCHANGED session /\ fault' = TRUE
  /\ Return("ValueError")
  /\ UNCHANGED <<given, server, first, reply, final, signed>>

AuthNext ==
  \/ ReadKey \/ ChooseMechanism \/ LoginPlain
  \/ FirstExchange \/ FinalExchange \/ Verify \/ Logout

AuthSpec == AuthInit /\ [][AuthNext]_kvars

-----------------------------------------------------------------------------
(* Properties                                                              *)

\* Every variable keeps its type, and the messages are there when they are used.
AuthTypeOK ==
  /\ server \in Servers
  /\ login \in {"key", "mechanism", "plain", "first", "final", "verify", "logout", "end"}
  /\ login \in {"final", "verify", "logout"} =>
       /\ given.key.form \in {"RAW", "PRECOMPUTED"}
       /\ reply.nonce = <<"c", "s">> /\ final.nonce = reply.nonce
  /\ session \in BOOLEAN
  /\ fault \in BOOLEAN
  /\ result \in {"pending", "ok", "ValueError", "TypeError", "KeyError", "ScramError",
                "ClientException"}
  /\ (result = "pending") = (login # "end")

\* A login that succeeds has a session, at a genuine server with the secret of the key
\* alone. One that is not genuine is found out by SCRAM; what it can make succeed is a
\* plain login, which verifies no server, and no caller that asked for SCRAM gets that.
SuccessIsMutual ==
  result = "ok" =>
    /\ session
    /\ server.genuine => given.key.id = 1 /\ given.key.secret = ServerSecret
    /\ ~server.genuine => final = NoPart /\ given.mech # "SCRAM"

\* The key that the server made can log in: the messages and keys of both sides fit
\* together, with the secret itself and with keys precomputed for the salt and count
\* of the server, on every server that offers a mechanism the caller allows.
RightKeyLogsIn ==
  LET right ==
        \/ given.key = Raw(1, ServerSecret)
        \/ /\ given.key = Precomputed(1, ServerSecret, server.salt, server.iterations)
           /\ ~Legacy
  IN result \notin {"pending", "ok"} /\ right /\ ~fault /\ server.genuine =>
       \/ ~Legacy /\ ~(server.iterations \in MinIters..MaxIters)
       \/ given.mech = "SCRAM" /\ (server.offers # "scram" \/ given.username = "")

\* A login that failed leaves no session behind, unless a call failed on its way.
FailureLeavesNoSession == login = "end" /\ result # "ok" /\ ~fault => ~session

=============================================================================
