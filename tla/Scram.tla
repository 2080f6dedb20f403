-------------------------------- MODULE Scram --------------------------------
(***************************************************************************)
(* py_scram: the keys and messages of a SCRAM login, with the functions of *)
(* scram_crypto.py as free terms.  A byte string is the set of the terms   *)
(* it is the exclusive or of.  A nonce is a sequence of fresh names: the   *)
(* server appends its own to that of the client.                           *)
(*                                                                         *)
(* Base64 and the syntax of the messages are left out.  TNScramClient      *)
(* never gives channel binding data, so that the c= field is a constant.   *)
(***************************************************************************)
EXTENDS Naturals, Sequences

\* scram_hi, also the pbkdf2_hmac of TNScramClient.
Hi(secret, salt, iterations) == {<<"hi", secret, salt, iterations>>}

HMAC(key, data) == {<<"hmac", key, data>>}

H(data) == {<<"h", data>>}

Xor(a, b) == (a \ b) \cup (b \ a)

ClientKeyOf(salted) == HMAC(salted, <<"Client Key">>)

ServerKeyOf(salted) == HMAC(salted, <<"Server Key">>)

StoredKeyOf(client_key) == H(client_key)

\* generate_scram_auth_data.
AuthData(salted) ==
  [client_key |-> ClientKeyOf(salted),
   stored_key |-> StoredKeyOf(ClientKeyOf(salted)),
   server_key |-> ServerKeyOf(salted)]

-----------------------------------------------------------------------------
\* An id of zero stands for the password of the user.
ClientFirst(username, api_key_id, nonce) ==
  [name |-> IF api_key_id = 0 THEN <<username>> ELSE <<username, api_key_id>>,
   nonce |-> <<nonce>>]

\* Mutant of ServerFirst: the nonce of the server replaces that of the client.
ServerFirstReplaces(client_first, nonce, salt, iterations) ==
  [nonce |-> <<nonce>>, salt |-> salt, iterations |-> iterations]

ServerFirst(client_first, nonce, salt, iterations) ==
  [nonce |-> Append(client_first.nonce, nonce), salt |-> salt, iterations |-> iterations]

\* client-first-message-bare, server-first-message, client-final-message-without-proof.
AuthMessage(client_first, server_first, nonce) == <<client_first, server_first, nonce>>

ClientProof(client_key, stored_key, auth_message) ==
  Xor(client_key, HMAC(stored_key, auth_message))

ClientFinal(client_first, server_first, client_key, stored_key) ==
  LET nonce == server_first.nonce
  IN [nonce |-> nonce,
      proof |-> ClientProof(client_key, stored_key,
                            AuthMessage(client_first, server_first, nonce))]

\* The server recovers the client key from the proof.
VerifiesClient(client_first, server_first, client_final, stored_key) ==
  LET signature == HMAC(stored_key,
                        AuthMessage(client_first, server_first, client_final.nonce))
  IN H(Xor(client_final.proof, signature)) = stored_key

ServerSignature(client_first, server_first, client_final, server_key) ==
  HMAC(server_key, AuthMessage(client_first, server_first, client_final.nonce))

\* Mutant of VerifiesServer: any signature will do.
VerifiesServerNever(client_first, server_first, client_final, signature, server_key) ==
  signature # {}

\* verify_server_signature.
VerifiesServer(client_first, server_first, client_final, signature, server_key) ==
  ServerSignature(client_first, server_first, client_final, server_key) = signature

=============================================================================
