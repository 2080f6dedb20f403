-------------------------- MODULE ApiKeyAuthProofs --------------------------
(***************************************************************************)
(* Proofs about ApiKeyAuth, for any secrets, salts, iteration counts and   *)
(* bounds: a login at the server that made the keys succeeds only with the *)
(* secret of the key, and does with the right key; SCRAM never succeeds at *)
(* another server; a login that fails leaves no session.  What the         *)
(* functions of scram_crypto.py must not do, collide, is that their terms  *)
(* are free; the lemmas on keys say what follows.                          *)
(***************************************************************************)
EXTENDS ApiKeyAuth, TLAPS

(* Keys, proofs and signatures.                                            *)

\* An HMAC tells its key and its data.
LEMMA HMACIsFree ==
  ASSUME NEW k, NEW l, NEW d, NEW e, HMAC(k, d) = HMAC(l, e)
  PROVE  k = l /\ d = e
<1>1. <<"hmac", k, d>> = <<"hmac", l, e>>
  BY DEF HMAC
<1> QED
  BY <1>1

\* A hash tells what it is of.
LEMMA HashIsFree ==
  ASSUME NEW d, NEW e, H(d) = H(e)  PROVE d = e
<1>1. <<"h", d>> = <<"h", e>>
  BY DEF H
<1> QED
  BY <1>1

\* A salted password tells its secret.
LEMMA HiIsFree ==
  ASSUME NEW x, NEW y, NEW s, NEW t, NEW m, NEW n, Hi(x, s, m) = Hi(y, t, n)
  PROVE  x = y /\ s = t /\ m = n
<1>1. <<"hi", x, s, m>> = <<"hi", y, t, n>>
  BY DEF Hi
<1> QED
  BY <1>1

\* So do the keys derived from it.
LEMMA KeysAreFree ==
  ASSUME NEW salted, NEW other
  PROVE  /\ StoredKeyOf(ClientKeyOf(salted)) = StoredKeyOf(ClientKeyOf(other))
              => salted = other
         /\ ServerKeyOf(salted) = ServerKeyOf(other) => salted = other
BY HMACIsFree, HashIsFree DEF StoredKeyOf, ClientKeyOf, ServerKeyOf

\* A signature that is taken off again leaves the client key.
LEMMA XorCancels == ASSUME NEW a, NEW b  PROVE Xor(Xor(a, b), b) = a
BY DEF Xor

\* Two signatures do not cancel each other, and what is left of them is no key.
LEMMA SignaturesStay ==
  ASSUME NEW key, NEW t, NEW s, NEW one, t # s, t \notin key, s \notin key
  PROVE  Xor(Xor(key, {t}), {s}) # {one}
<1>1. t \in Xor(Xor(key, {t}), {s}) /\ s \in Xor(Xor(key, {t}), {s})
  BY DEF Xor
<1> QED
  BY <1>1

\* The server takes the proof of a client message if and only if the client has made it
\* with the keys of the password that the server has, salted the same way.
LEMMA ProofNeedsTheKey ==
  ASSUME NEW mine, NEW its, NEW f, NEW r
  PROVE  VerifiesClient(f, r,
           ClientFinal(f, r, AuthData(mine).client_key, AuthData(mine).stored_key),
           AuthData(its).stored_key) <=> mine = its
<1> DEFINE key == ClientKeyOf(mine)
           stored == StoredKeyOf(ClientKeyOf(mine))
           itskey == ClientKeyOf(its)
           itsstored == StoredKeyOf(ClientKeyOf(its))
           msg == AuthMessage(f, r, r.nonce)
           fin == ClientFinal(f, r, key, stored)
<1>1. /\ AuthData(mine).client_key = key /\ AuthData(mine).stored_key = stored
      /\ AuthData(its).stored_key = itsstored
  BY DEF AuthData
<1>2. fin.nonce = r.nonce /\ fin.proof = Xor(key, HMAC(stored, msg))
  BY DEF ClientFinal, ClientProof
<1>3. VerifiesClient(f, r, fin, itsstored) <=>
        H(Xor(Xor(key, HMAC(stored, msg)), HMAC(itsstored, msg))) = itsstored
  BY <1>2 DEF VerifiesClient
<1>4. CASE mine = its
  BY <1>1, <1>3, <1>4, XorCancels DEF StoredKeyOf
<1>5. CASE mine # its
  <2> DEFINE t == <<"hmac", stored, msg>>
             s == <<"hmac", itsstored, msg>>
             x == Xor(Xor(key, HMAC(stored, msg)), HMAC(itsstored, msg))
  <2>1. stored # itsstored
    BY <1>5, KeysAreFree
  <2>2. t # s
    BY <2>1
  <2>3. msg # <<"Client Key">>
    BY DEF AuthMessage
  <2>4. t # <<"hmac", mine, <<"Client Key">>>> /\ s # <<"hmac", mine, <<"Client Key">>>>
    BY <2>3
  <2>5. t \notin key /\ s \notin key
    BY <2>4 DEF ClientKeyOf, HMAC
  <2>6. HMAC(stored, msg) = {t} /\ HMAC(itsstored, msg) = {s}
    BY DEF HMAC
  <2>7. itskey = {<<"hmac", its, <<"Client Key">>>>}
    BY DEF ClientKeyOf, HMAC
  <2>8. \A one : Xor(Xor(key, {t}), {s}) # {one}
    <3> HIDE DEF t, s, key
    <3> QED
      BY <2>2, <2>5, SignaturesStay
  <2>9. x # itskey
    <3>1. x = Xor(Xor(key, {t}), {s})
      <4> HIDE DEF t, s, key
      <4> QED
        BY <2>6
    <3> QED
      BY <2>7, <2>8, <3>1
  <2>10. H(x) # itsstored
    BY <2>9, HashIsFree DEF StoredKeyOf
  <2> QED
    BY <1>1, <1>3, <1>5, <2>10
<1> QED
  BY <1>4, <1>5

\* A signature is accepted if and only if it was made with the server key of the same
\* password; something else, or none, never is.
LEMMA SignatureNeedsTheKey ==
  ASSUME NEW mine, NEW its, NEW f, NEW r, NEW fin
  PROVE  /\ VerifiesServer(f, r, fin, ServerSignature(f, r, fin, ServerKeyOf(its)),
                           ServerKeyOf(mine)) <=> mine = its
         /\ ~VerifiesServer(f, r, fin, {}, ServerKeyOf(mine))
         /\ ~VerifiesServer(f, r, fin, HMAC({<<"other">>}, <<"other">>), ServerKeyOf(mine))
<1> DEFINE msg == AuthMessage(f, r, fin.nonce)
<1>1. ServerSignature(f, r, fin, ServerKeyOf(mine)) = HMAC(ServerKeyOf(mine), msg)
  BY DEF ServerSignature
<1>2. ServerSignature(f, r, fin, ServerKeyOf(its)) = HMAC(ServerKeyOf(its), msg)
  BY DEF ServerSignature
<1>3. msg # <<"other">>
  BY DEF AuthMessage
<1>4. HMAC(ServerKeyOf(mine), msg) # {}
  BY DEF HMAC
<1>5. HMAC(ServerKeyOf(mine), msg) # HMAC({<<"other">>}, <<"other">>)
  BY <1>3, HMACIsFree
<1>6. HMAC(ServerKeyOf(mine), msg) = HMAC(ServerKeyOf(its), msg) <=> mine = its
  BY HMACIsFree, KeysAreFree
<1> QED
  BY <1>1, <1>2, <1>4, <1>5, <1>6 DEF VerifiesServer

-----------------------------------------------------------------------------
(* The inductive invariant.                                                *)

Logins == {"key", "mechanism", "plain", "first", "final", "verify", "logout", "end"}

Results ==
  {"pending", "ok", "ValueError", "TypeError", "KeyError", "ScramError", "ClientException"}

AuthTypes ==
  /\ given.key \in KeyStrings
  /\ given.mech \in {"AUTO", "SCRAM", "PLAIN"}
  /\ given.username \in {"", "user"}
  /\ server \in Servers
  /\ login \in Logins
  /\ session \in BOOLEAN
  /\ fault \in BOOLEAN
  /\ result \in Results
  /\ (result = "pending") = (login # "end")

PasswordsOf(secret) == {Hi(secret, s, n) : s \in Salts, n \in Iterations}

\* The password that the client salts, or that its keys were made of.
Salted ==
  IF given.key.form = "RAW"
    THEN Hi(given.key.secret, server.salt, server.iterations)
    ELSE CHOOSE salted \in PasswordsOf(given.key.secret) : given.key.keys = AuthData(salted)

ServerSalted == Hi(ServerSecret, server.salt, server.iterations)

\* Until the last exchange nobody is logged in, and only a failed call spoils that.
NotYet ==
  login \in {"key", "mechanism", "plain", "first"} =>
    ~session /\ ~fault /\ final = NoPart

\* What each step knows of the key, the mechanism and the messages.
StepsFit ==
  /\ login = "plain" => Legacy /\ given.key.form \in {"RAW", "odd"}
  /\ login \in {"mechanism", "first"} =>
       given.key.form \notin {"unreadable", "not_a_table"}
  /\ login = "first" =>
       /\ ~Legacy /\ server.offers = "scram" /\ given.username = "user"
       /\ given.key.form \in {"RAW", "PRECOMPUTED"}
  /\ login \in {"final", "verify", "logout"} =>
       /\ ~fault
       /\ given.key.form \in {"RAW", "PRECOMPUTED"}
       /\ given.key.id = 1
       /\ reply = ServerFirst(first, "s", server.salt, server.iterations)
       /\ first.nonce = <<"c">>
       /\ final = ClientFinal(first, reply, AuthData(Salted).client_key,
                              AuthData(Salted).stored_key)

\* A genuine server that signed has taken the proof, and its signature is right.
SignedFits ==
  /\ login = "final" => ~session
  /\ login = "verify" =>
       /\ session
       /\ server.genuine => Salted = ServerSalted
       /\ signed \in Signatures
  /\ login = "logout" => ~server.genuine

AInv ==
  /\ AuthTypes /\ NotYet /\ StepsFit /\ SignedFits
  /\ SuccessIsMutual /\ RightKeyLogsIn /\ FailureLeavesNoSession

\* A key string is a raw key, keys computed before, or of no use.
LEMMA KindsOfKey ==
  ASSUME NEW k \in KeyStrings
  PROVE  \/ \E id \in {0, 1} : \E x \in Secrets : k = Raw(id, x)
         \/ \E x \in Secrets : \E s \in Salts : \E n \in Iterations :
              k = Precomputed(1, x, s, n)
         \/ \E form \in {"odd", "unreadable", "not_a_table"} : k = [form |-> form]
BY DEF KeyStrings

\* The keys of the caller are those of the password he salted, and this tells his
\* secret; the key that the server made has its password.
LEMMA KeysOfTheCaller ==
  ASSUME AuthTypes, given.key.form \in {"RAW", "PRECOMPUTED"}
  PROVE  /\ given.key.form = "RAW" =>
              Salted = Hi(given.key.secret, server.salt, server.iterations)
         /\ given.key.form = "PRECOMPUTED" => given.key.keys = AuthData(Salted)
         /\ Salted = ServerSalted => given.key.secret = ServerSecret
         /\ given.key = Precomputed(1, ServerSecret, server.salt, server.iterations) =>
              Salted = ServerSalted
<1>1. CASE given.key.form = "RAW"
  BY <1>1, HiIsFree DEF Salted, ServerSalted, Precomputed
<1>2. CASE given.key.form = "PRECOMPUTED"
  <2>1. PICK x \in Secrets, s \in Salts, n \in Iterations :
          given.key = Precomputed(1, x, s, n)
    <3>1. \A id, x : Raw(id, x).form = "RAW"
      BY DEF Raw
    <3>2. given.key \in KeyStrings
      BY DEF AuthTypes
    <3>3. \/ \E id \in {0, 1} : \E x \in Secrets : given.key = Raw(id, x)
          \/ \E x \in Secrets : \E s \in Salts : \E n \in Iterations :
               given.key = Precomputed(1, x, s, n)
          \/ \E form \in {"odd", "unreadable", "not_a_table"} : given.key = [form |-> form]
      BY <3>2, KindsOfKey
    <3> QED
      BY <1>2, <3>1, <3>3
  <2>2. given.key.secret = x /\ given.key.keys = AuthData(Hi(x, s, n))
    BY <2>1 DEF Precomputed
  <2>3. PICK t \in Salts, m \in Iterations :
          Salted = Hi(given.key.secret, t, m) /\ given.key.keys = AuthData(Salted)
    <3>1. Hi(x, s, n) \in PasswordsOf(given.key.secret)
      BY <2>2 DEF PasswordsOf
    <3>2. Salted \in PasswordsOf(given.key.secret) /\ given.key.keys = AuthData(Salted)
      BY <1>2, <2>2, <3>1 DEF Salted
    <3> QED
      BY <3>2 DEF PasswordsOf
  <2>4. Salted = ServerSalted => given.key.secret = ServerSecret
    <3>1. Hi(given.key.secret, t, m) = Hi(ServerSecret, server.salt, server.iterations) =>
            given.key.secret = ServerSecret
      BY HiIsFree
    <3> QED
      BY <2>3, <3>1, Zenon DEF ServerSalted
  <2>5. ASSUME given.key = Precomputed(1, ServerSecret, server.salt, server.iterations)
        PROVE  Salted = ServerSalted
    <3>1. given.key.keys = AuthData(ServerSalted)
      BY <2>5 DEF Precomputed, ServerSalted
    <3>2. ServerKeyOf(Salted) = ServerKeyOf(ServerSalted)
      BY <2>3, <3>1 DEF AuthData
    <3> QED
      BY <3>2, KeysAreFree
  <2> QED
    BY <1>2, <2>3, <2>4, <2>5
<1> QED
  BY <1>1, <1>2

-----------------------------------------------------------------------------
(* Initial states and steps                                                *)

\* At first the client has read nothing.
LEMMA AuthInitially == ASSUME AuthInit  PROVE AInv
<1>1. AuthTypes
  BY DEF AuthInit, AuthTypes, Logins, Results
<1> QED
  BY <1>1 DEF AuthInit, AInv, NotYet, StepsFit, SignedFits, SuccessIsMutual,
              RightKeyLogsIn, FailureLeavesNoSession

\* The caller and the server stay as they are.
LEMMA TheyStay ==
  ASSUME AuthTypes, UNCHANGED <<given, server>>
  PROVE  /\ Salted' = Salted /\ ServerSalted' = ServerSalted
         /\ Legacy' <=> Legacy
         /\ given'.key \in KeyStrings
         /\ given'.mech \in {"AUTO", "SCRAM", "PLAIN"}
         /\ given'.username \in {"", "user"}
         /\ server' \in Servers
<1>1. Salted' = Salted /\ ServerSalted' = ServerSalted
  BY DEF Salted, ServerSalted
<1>2. Legacy' <=> Legacy
  BY DEF Legacy
<1> QED
  BY <1>1, <1>2 DEF AuthTypes

\* The key that the server made, and what may keep it from logging in.
RightKey ==
  \/ given.key = Raw(1, ServerSecret)
  \/ /\ given.key = Precomputed(1, ServerSecret, server.salt, server.iterations)
     /\ ~Legacy

MayRefuse ==
  \/ ~Legacy /\ ~(server.iterations \in MinIters .. MaxIters)
  \/ given.mech = "SCRAM" /\ (server.offers # "scram" \/ given.username = "")

\* What a step that ends the login has to show of it.
LEMMA RightKeyStep ==
  ASSUME UNCHANGED <<given, server>>,
         RightKey /\ server.genuine /\ ~fault' /\ result' \notin {"pending", "ok"} =>
           MayRefuse
  PROVE  RightKeyLogsIn'
<1>1. (RightKey' <=> RightKey) /\ (MayRefuse' <=> MayRefuse)
  BY DEF RightKey, MayRefuse, Legacy
<1>2. RightKeyLogsIn' <=>
        (result' \notin {"pending", "ok"} /\ RightKey' /\ ~fault' /\ server'.genuine =>
           MayRefuse')
  BY DEF RightKeyLogsIn, RightKey, MayRefuse
<1> QED
  BY <1>1, <1>2

\* It is well formed, and has the id that the server knows.
LEMMA RightKeyIs ==
  ASSUME RightKey
  PROVE  /\ given.key.form \in {"RAW", "PRECOMPUTED"}
         /\ given.key.form = "PRECOMPUTED" => ~Legacy
         /\ given.key.id = 1
BY DEF RightKey, Raw, Precomputed

\* Reading the key string ends with the right errors.
LEMMA ReadKeyStep == ASSUME AInv, ReadKey  PROVE AInv'
<1> USE DEF AInv
<1>1. AuthTypes'
  BY TheyStay DEF ReadKey, AuthTypes, Return, Go, Logins, Results
<1>2. NotYet' /\ StepsFit' /\ SignedFits'
  BY DEF ReadKey, Return, Go, NotYet, StepsFit, SignedFits
<1>3. SuccessIsMutual' /\ FailureLeavesNoSession'
  BY DEF ReadKey, Return, Go, NotYet, SuccessIsMutual, FailureLeavesNoSession, AuthTypes
<1>4. RightKeyLogsIn'
  BY RightKeyIs, RightKeyStep DEF ReadKey, Return, Go, AuthTypes
<1> QED
  BY <1>1, <1>2, <1>3, <1>4

\* The mechanism fits the server, the key and the wishes of the caller.
LEMMA ChooseMechanismStep == ASSUME AInv, ChooseMechanism  PROVE AInv'
<1> USE DEF AInv
<1>1. AuthTypes'
  BY TheyStay DEF ChooseMechanism, AuthTypes, Return, Go, Logins, Results
<1>2. NotYet' /\ SignedFits'
  BY DEF ChooseMechanism, Return, Go, NotYet, SignedFits, AuthTypes
<1>3. SuccessIsMutual' /\ FailureLeavesNoSession'
  BY DEF ChooseMechanism, Return, Go, NotYet, SuccessIsMutual, FailureLeavesNoSession,
         AuthTypes
<1>4. StepsFit'
  <2>1. given.key.form \in {"RAW", "PRECOMPUTED", "odd", "unreadable", "not_a_table"}
    <3>1. given.key \in KeyStrings
      BY DEF AuthTypes
    <3>2. \A id, x, t, n : /\ Raw(id, x).form = "RAW"
                           /\ Precomputed(id, x, t, n).form = "PRECOMPUTED"
      BY DEF Raw, Precomputed
    <3> QED
      BY <3>1, <3>2, KindsOfKey
  <2>2. given.key.form \notin {"unreadable", "not_a_table"}
    BY DEF ChooseMechanism, StepsFit
  <2>3. UNCHANGED <<given, server>> /\ (Legacy' <=> Legacy)
    BY TheyStay DEF ChooseMechanism
  <2>4. CASE login' = "plain"
    BY <2>1, <2>2, <2>3, <2>4 DEF ChooseMechanism, Return, Go, StepsFit
  <2>5. CASE login' = "first"
    BY <2>1, <2>2, <2>3, <2>5 DEF ChooseMechanism, Return, Go, StepsFit, AuthTypes
  <2>6. login' \in {"plain", "first", "end"}
    BY DEF ChooseMechanism, Return, Go
  <2> QED
    BY <2>4, <2>5, <2>6 DEF StepsFit
<1>5. RightKeyLogsIn'
  <2>1. ASSUME RightKey, ~fault', result' \notin {"pending", "ok"}  PROVE MayRefuse
    <3>1. /\ server.offers # "fails"
          /\ \/ Legacy /\ given.key.form = "PRECOMPUTED"
             \/ /\ ~Legacy
                /\ server.offers # "scram" \/ given.username = "" \/ given.key.form = "odd"
      BY <2>1 DEF ChooseMechanism, Return, Go, AuthTypes
    <3>2. ~Legacy /\ (server.offers # "scram" \/ given.username = "")
      BY <2>1, <3>1, RightKeyIs
    <3> QED
      BY <3>2 DEF Legacy, MayRefuse, AuthTypes
  <2> QED
    BY <2>1, RightKeyStep DEF ChooseMechanism
<1> QED
  BY <1>1, <1>2, <1>3, <1>4, <1>5

\* At a genuine server a login of the old kind succeeds with the key itself and nothing
\* else; another server may take anything, but only of a caller that allows it.
LEMMA LoginPlainStep == ASSUME AInv, LoginPlain  PROVE AInv'
<1> USE DEF AInv
<1>1. AuthTypes'
  BY TheyStay DEF LoginPlain, AuthTypes, Return, Go, Logins, Results
<1>2. NotYet' /\ StepsFit' /\ SignedFits'
  BY DEF LoginPlain, Return, NotYet, StepsFit, SignedFits
<1>3. SuccessIsMutual'
  <2>1. ASSUME result' = "ok"
        PROVE  /\ session' /\ final' = NoPart
               /\ server.genuine => given.key = Raw(1, ServerSecret)
    BY <2>1 DEF LoginPlain, Return, NotYet
  <2>2. UNCHANGED <<given, server>> /\ given.mech # "SCRAM"
    BY DEF LoginPlain, StepsFit, Legacy
  <2> QED
    BY <2>1, <2>2 DEF SuccessIsMutual, Raw
<1>4. FailureLeavesNoSession'
  BY DEF LoginPlain, Return, NotYet, FailureLeavesNoSession
<1>5. RightKeyLogsIn'
  <2>1. ASSUME RightKey, server.genuine, ~fault'  PROVE result' = "ok"
    <3>1. given.key = Raw(1, ServerSecret)
      BY <2>1, RightKeyIs DEF LoginPlain, StepsFit, RightKey
    <3> QED
      BY <2>1, <3>1 DEF LoginPlain, Return
  <2> QED
    BY <2>1, RightKeyStep DEF LoginPlain
<1> QED
  BY <1>1, <1>2, <1>3, <1>4, <1>5

\* The client answers the server's first message with a proof made of its own keys.
LEMMA FirstExchangeStep == ASSUME AInv, FirstExchange  PROVE AInv'
<1> USE DEF AInv
<1>1. AuthTypes'
  BY TheyStay DEF FirstExchange, AuthTypes, Return, Go, Logins, Results
<1>2. NotYet' /\ SignedFits'
  BY DEF FirstExchange, Return, Go, NotYet, SignedFits
<1>3. SuccessIsMutual' /\ FailureLeavesNoSession'
  BY DEF FirstExchange, Return, Go, NotYet, SuccessIsMutual, FailureLeavesNoSession,
         AuthTypes
<1>4. StepsFit'
  <2>1. CASE login' # "final"
    BY <2>1 DEF FirstExchange, Return, Go, StepsFit
  <2>2. CASE login' = "final"
    <3>1. /\ first' = ClientFirst(given.username, given.key.id, "c")
          /\ first'.name = <<"user", 1>>
          /\ reply' = ServerFirst(first', "s", server.salt, server.iterations)
          /\ final' = ClientFinal(first', reply', ClientKeys.client_key,
                                  ClientKeys.stored_key)
          /\ UNCHANGED <<given, server, fault>>
      BY <2>2 DEF FirstExchange, Return, Go
    <3>2. given.key.form \in {"RAW", "PRECOMPUTED"} /\ ~fault
      BY DEF FirstExchange, StepsFit, NotYet
    <3>3. reply'.salt = server.salt /\ reply'.iterations = server.iterations
      BY <3>1 DEF ServerFirst
    <3>4. ClientKeys = AuthData(Salted)
      BY <3>2, <3>3, KeysOfTheCaller DEF ClientKeys
    <3>5. given.key.id = 1 /\ first'.nonce = <<"c">>
      BY <3>1 DEF ClientFirst
    <3>6. Salted' = Salted
      BY <3>1, TheyStay
    <3> QED
      BY <2>2, <3>1, <3>2, <3>4, <3>5, <3>6 DEF StepsFit
  <2> QED
    BY <2>1, <2>2
<1>5. RightKeyLogsIn'
  <2>1. ASSUME RightKey, ~fault', result' \notin {"pending", "ok"}  PROVE MayRefuse
    <3>1. first'.name = <<"user", 1>>
      BY <2>1, RightKeyIs DEF FirstExchange, ClientFirst, StepsFit
    <3>2. ~InRange(server.iterations)
      <4>1. ~InRange(reply'.iterations)
            /\ reply' = ServerFirst(first', "s", server.salt, server.iterations)
        <5>1. login' = "end"
          BY <2>1, <1>1 DEF AuthTypes
        <5> QED
          BY <2>1, <3>1, <5>1 DEF FirstExchange, Go
      <4> QED
        BY <4>1 DEF ServerFirst
    <3>3. server.iterations \notin MinIters .. MaxIters
      BY <3>2, IterationsAssumption DEF InRange
    <3> QED
      BY <3>3 DEF MayRefuse, FirstExchange, StepsFit
  <2> QED
    BY <2>1, RightKeyStep DEF FirstExchange
<1> QED
  BY <1>1, <1>2, <1>3, <1>4, <1>5

\* A server that has the key takes the proof, and one that does not refuses it.
LEMMA TakenFits ==
  ASSUME AuthTypes, StepsFit, login = "final"
  PROVE  VerifiesClient(first, reply, final, ServerKeys.stored_key) <=>
           Salted = ServerSalted
BY ProofNeedsTheKey DEF StepsFit, ServerKeys, ServerSalted

\* The server lets the client in, and signs.
LEMMA FinalExchangeStep == ASSUME AInv, FinalExchange  PROVE AInv'
<1> USE DEF AInv
<1> DEFINE taken ==
             ~server.genuine \/ VerifiesClient(first, reply, final, ServerKeys.stored_key)
<1>1. AuthTypes'
  BY TheyStay DEF FinalExchange, AuthTypes, Return, Go, Logins, Results
<1>2. NotYet' /\ StepsFit'
  <2>1. login' \in {"verify", "end"} /\ (login' = "verify" => UNCHANGED fault)
    BY DEF FinalExchange, Return, Go
  <2>2. UNCHANGED <<given, server, first, reply, final>> /\ Salted' = Salted
    BY TheyStay DEF FinalExchange
  <2> QED
    BY <2>1, <2>2 DEF FinalExchange, NotYet, StepsFit
<1>3. SignedFits'
  <2>1. login' \in {"verify", "end"}
    BY DEF FinalExchange, Return, Go
  <2>2. CASE login' = "verify"
    <3>1. /\ taken /\ session' = TRUE /\ signed' \in Signatures
          /\ UNCHANGED <<given, server, first, reply, final>>
      BY <2>2 DEF FinalExchange, Return, Go
    <3>2. server.genuine => Salted = ServerSalted
      BY <3>1, TakenFits DEF FinalExchange
    <3>3. Signatures' = Signatures
      BY <3>1 DEF Signatures, ServerKeys
    <3> QED
      BY <2>2, <3>1, <3>2, <3>3, TheyStay DEF SignedFits
  <2> QED
    BY <2>1, <2>2 DEF SignedFits
<1>4. SuccessIsMutual' /\ FailureLeavesNoSession'
  BY DEF FinalExchange, Return, Go, SignedFits, SuccessIsMutual, FailureLeavesNoSession,
         AuthTypes
<1>5. RightKeyLogsIn'
  <2>1. ASSUME RightKey, server.genuine, ~fault'  PROVE result' = "pending"
    <3>1. Salted = ServerSalted
      BY <2>1, RightKeyIs, KeysOfTheCaller DEF RightKey, ServerSalted, Raw
    <3>2. taken
      BY <3>1, TakenFits DEF FinalExchange
    <3> QED
      BY <2>1, <3>2 DEF FinalExchange, Return, Go, AuthTypes
  <2> QED
    BY <2>1, RightKeyStep DEF FinalExchange
<1> QED
  BY <1>1, <1>2, <1>3, <1>4, <1>5

\* What the client verifies is right if and only if the server is genuine and the
\* password is the same.
LEMMA VerifyFits ==
  ASSUME AuthTypes, StepsFit, SignedFits, login = "verify",
         NEW server_key,
         server_key = IF given.key.form = "RAW"
                      THEN ServerKeyOf(Hi(given.key.secret, reply.salt, reply.iterations))
                      ELSE given.key.keys.server_key
  PROVE  VerifiesServer(first, reply, final, signed, server_key) <=>
           server.genuine /\ Salted = ServerSalted
<1>1. server_key = ServerKeyOf(Salted)
  <2>1. reply.salt = server.salt /\ reply.iterations = server.iterations
    BY DEF StepsFit, ServerFirst
  <2> QED
    BY <2>1, KeysOfTheCaller DEF StepsFit, AuthData
<1>2. CASE server.genuine
  <2>1. signed = ServerSignature(first, reply, final, ServerKeyOf(ServerSalted))
    BY <1>2 DEF SignedFits, Signatures, ServerKeys, AuthData, ServerSalted
  <2> QED
    BY <1>1, <1>2, <2>1, SignatureNeedsTheKey
<1>3. CASE ~server.genuine
  <2>1. signed \in {{}, HMAC({<<"other">>}, <<"other">>)}
    BY <1>3 DEF SignedFits, Signatures
  <2> QED
    BY <1>1, <1>3, <2>1, SignatureNeedsTheKey
<1> QED
  BY <1>2, <1>3

\* The client accepts the signature, or logs out.
LEMMA VerifyStep == ASSUME AInv, Verify  PROVE AInv'
<1> USE DEF AInv
<1>1. AuthTypes'
  BY TheyStay DEF Verify, AuthTypes, Return, Go, Logins, Results
<1>2. \/ server.genuine /\ Salted = ServerSalted /\ Return("ok")
      \/ ~server.genuine /\ Go("logout")
  <2>1. PICK server_key :
          /\ server_key = IF given.key.form = "RAW"
                          THEN ServerKeyOf(Hi(given.key.secret, reply.salt, reply.iterations))
                          ELSE given.key.keys.server_key
          /\ IF VerifiesServer(first, reply, final, signed, server_key)
             THEN Return("ok") ELSE Go("logout")
    BY DEF Verify
  <2>2. VerifiesServer(first, reply, final, signed, server_key) <=>
          server.genuine /\ Salted = ServerSalted
    BY <2>1, VerifyFits DEF Verify
  <2>3. server.genuine => Salted = ServerSalted
    BY DEF Verify, SignedFits
  <2> QED
    BY <2>1, <2>2, <2>3
<1>3. NotYet' /\ StepsFit' /\ SignedFits'
  BY <1>2, TheyStay DEF Verify, Return, Go, NotYet, StepsFit, SignedFits
<1>4. SuccessIsMutual'
  BY <1>2, KeysOfTheCaller DEF Verify, Return, Go, StepsFit, SignedFits, SuccessIsMutual,
     AuthTypes
<1>5. FailureLeavesNoSession'
  BY <1>2 DEF Verify, Return, Go, FailureLeavesNoSession
<1>6. RightKeyLogsIn'
  BY <1>2, RightKeyStep DEF Verify, Return, Go, AuthTypes
<1> QED
  BY <1>1, <1>3, <1>4, <1>5, <1>6

\* The session of a client that logs out is gone, unless the call failed.
LEMMA LogoutStep == ASSUME AInv, Logout  PROVE AInv'
<1> USE DEF AInv
<1>1. AuthTypes'
  BY TheyStay DEF Logout, AuthTypes, Return, Logins, Results
<1>2. NotYet' /\ StepsFit' /\ SignedFits'
  BY DEF Logout, Return, NotYet, StepsFit, SignedFits
<1>3. SuccessIsMutual' /\ FailureLeavesNoSession'
  BY DEF Logout, Return, SuccessIsMutual, FailureLeavesNoSession
<1>4. RightKeyLogsIn'
  BY RightKeyStep DEF Logout, SignedFits
<1> QED
  BY <1>1, <1>2, <1>3, <1>4

-----------------------------------------------------------------------------
(* The theorems                                                            *)

\* Every reachable state satisfies the inductive invariant.
THEOREM AuthInductive == AuthSpec => []AInv
<1>1. AInv /\ [AuthNext]_kvars => AInv'
  <2> SUFFICES ASSUME AInv, [AuthNext]_kvars  PROVE AInv'
    OBVIOUS
  <2>1. CASE UNCHANGED kvars
    <3>1. UNCHANGED <<given, server>> /\ AuthTypes
      BY <2>1 DEF kvars, AInv
    <3>2. Salted' = Salted /\ ServerSalted' = ServerSalted /\ (Legacy' <=> Legacy)
          /\ Signatures' = Signatures
      BY <2>1, <3>1, TheyStay DEF kvars, Signatures, ServerKeys
    <3>3. AuthTypes' /\ NotYet' /\ StepsFit' /\ SignedFits'
      BY <2>1, <3>2 DEF kvars, AInv, AuthTypes, NotYet, StepsFit, SignedFits
    <3>4. SuccessIsMutual' /\ RightKeyLogsIn' /\ FailureLeavesNoSession'
      BY <2>1
         DEF kvars, AInv, SuccessIsMutual, RightKeyLogsIn, FailureLeavesNoSession, Legacy
    <3> QED
      BY <3>3, <3>4 DEF AInv
  <2> QED
    BY <2>1, ReadKeyStep, ChooseMechanismStep, LoginPlainStep, FirstExchangeStep,
       FinalExchangeStep, VerifyStep, LogoutStep DEF AuthNext
<1> QED
  BY AuthInitially, <1>1, PTL DEF AuthSpec

\* Every variable of auth_api_key.py and scram_impl.py keeps its type, and the messages
\* are there, with both nonces in them, when they are used.
THEOREM AuthTypeCorrect == AuthSpec => []AuthTypeOK
<1>1. AInv => AuthTypeOK
  <2> SUFFICES ASSUME AInv  PROVE AuthTypeOK
    OBVIOUS
  <2>1. ASSUME login \in {"final", "verify", "logout"}
        PROVE  /\ given.key.form \in {"RAW", "PRECOMPUTED"}
               /\ reply.nonce = <<"c", "s">> /\ final.nonce = reply.nonce
    BY <2>1 DEF AInv, StepsFit, ServerFirst, ClientFinal
  <2> QED
    BY <2>1 DEF AInv, AuthTypes, AuthTypeOK, Logins, Results
<1> QED
  BY AuthInductive, <1>1, PTL

\* A login that succeeds has a session, and at the server that made the keys it had the
\* secret of one; a server that does not hold them is never accepted with SCRAM, only by
\* the plain login of a caller that allows it (auth_api_key.py, scram_impl.py). For any
\* keys, salts and counts.
THEOREM LoginsAreMutual == AuthSpec => []SuccessIsMutual
<1>1. AInv => SuccessIsMutual
  BY DEF AInv
<1> QED
  BY AuthInductive, <1>1, PTL

\* The key that the server made, raw or precomputed, is refused only for a count out of
\* the bounds, or by a server without the one mechanism the caller allows.
THEOREM RightKeysLogIn == AuthSpec => []RightKeyLogsIn
<1>1. AInv => RightKeyLogsIn
  BY DEF AInv
<1> QED
  BY AuthInductive, <1>1, PTL

\* A login that failed leaves no session behind, unless a call failed on its way.
THEOREM FailuresLeaveNothing == AuthSpec => []FailureLeavesNoSession
<1>1. AInv => FailureLeavesNoSession
  BY DEF AInv
<1> QED
  BY AuthInductive, <1>1, PTL

=============================================================================
