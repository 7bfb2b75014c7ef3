---------------------------- MODULE NotaryServer ----------------------------
(***************************************************************************)
(* The notary server (tlsn/crates/notary/server) and its client            *)
(* (tlsn/crates/notary/client): a prover configures a session with POST    *)
(* /session and turns the connection into a notarization with GET          *)
(* /notarize, which at most Concurrency provers do at a time.              *)
(*                                                                         *)
(* A connection is one HTTP/1 connection of a prover.  Its client is       *)
(* NotaryClient.send_request, or a browser that opens a second connection  *)
(* with a session id it already has.  Handlers run on several threads:     *)
(* upgrade_protocol takes a permit and then the session, and others may    *)
(* run in between.  The session id of a connection that configured one is  *)
(* the connection itself.                                                  *)
(*                                                                         *)
(* The whitelist of API keys is read from a file when the server starts    *)
(* and again at every event of a modification.                             *)
(***************************************************************************)
EXTENDS Integers, FiniteSets

CONSTANTS
  Connections,   \* connections of provers
  NoSession,     \* a connection that has no session id
  Keys,          \* API keys
  NoKey,         \* a request without Authorization header
  Volumes,       \* max_sent_data (or max_recv_data) a prover asks for
  MaxVolume,     \* the limit of the server
  Concurrency,   \* config.concurrency: permits of the semaphore
  Authorization, \* whether authorization is enabled
  LinkFaults,    \* whether connections may break
  MaxEdits       \* bound: modifications of the whitelist file

ASSUME NotaryAssumption ==
  /\ NoSession \notin Connections /\ NoKey \notin Keys
  /\ IsFiniteSet(Connections)
  /\ Volumes \subseteq Nat /\ MaxVolume \in Nat
  /\ Concurrency \in Nat /\ MaxEdits \in Nat
  /\ Authorization \in BOOLEAN /\ LinkFaults \in BOOLEAN

VARIABLES
  store,      \* ids of sessions that are configured and not yet used
  permits,    \* free permits of the semaphore
  file,       \* the whitelist file: its keys, whether it parses, and edits so far
  event,      \* the watcher has an event of a modification
  whitelist,  \* the keys the server has loaded
  client,     \* where each client is
  asked,      \* API key and volume of the configuration request
  session,    \* session id the client has been given
  request,    \* the GET /notarize of the connection, as the server sees it
  response,   \* status code on its way to the client
  task        \* the notarization the server runs for the connection

serverVars == <<store, permits>>
authVars == <<file, event, whitelist>>
httpVars == <<client, asked, session, request, response>>
vars == <<store, permits, file, event, whitelist, client, asked, session, request, response, task>>

Waiting == {"configuring", "requesting"}
Running == {"upgrading", "notarizing"}
Statuses == {"none", "200", "101", "400", "401", "503"}
Asked == [key : Keys \union {NoKey}, volume : Volumes]
Nothing == [key |-> NoKey, volume |-> 0]

Init ==
  /\ store = {} /\ permits = Concurrency
  /\ file = [keys |-> Keys, parses |-> TRUE, edits |-> 0]
  /\ event = FALSE
  /\ whitelist \in SUBSET Keys  \* the file may change after it is loaded, before it is watched
  /\ client = [q \in Connections |-> "idle"]
  /\ asked = [q \in Connections |-> Nothing]
  /\ session = [q \in Connections |-> NoSession]
  /\ request = [q \in Connections |-> "none"]
  /\ response = [q \in Connections |-> "none"]
  /\ task = [q \in Connections |-> "none"]

Respond(q, status) == response' = [response EXCEPT ![q] = status]

-----------------------------------------------------------------------------
(* The whitelist.                                                          *)

\* A write to the file; one that stops in the middle may leave it unreadable.
modify_file(keys, parses) ==
  /\ Authorization /\ file.edits < MaxEdits
  /\ file' = [keys |-> keys, parses |-> parses, edits |-> file.edits + 1]
  /\ event' = TRUE
  /\ UNCHANGED <<whitelist, serverVars, httpVars, task>>

\* The watcher's function: an error leaves the loaded keys as they are.
reload_whitelist ==
  /\ event
  /\ event' = FALSE
  /\ whitelist' = IF file.parses THEN file.keys ELSE whitelist
  /\ UNCHANGED <<file, serverVars, httpVars, task>>

api_key_is_valid(key) == key \in whitelist

\* AuthorizationMiddleware: a missing key is not valid.
Authorized(key) == ~Authorization \/ api_key_is_valid(key)

-----------------------------------------------------------------------------
(* POST /session.                                                          *)

request_configuration(q, ask) ==
  /\ client[q] = "idle"
  /\ client' = [client EXCEPT ![q] = "configuring"]
  /\ asked' = [asked EXCEPT ![q] = ask]
  /\ UNCHANGED <<session, request, response, serverVars, authVars, task>>

\* The middleware, then the handler.
initialize(q) ==
  /\ client[q] = "configuring" /\ response[q] = "none"
  /\ IF ~Authorized(asked[q].key)
     THEN Respond(q, "401") /\ UNCHANGED store
     ELSE IF asked[q].volume > MaxVolume
     THEN Respond(q, "400") /\ UNCHANGED store
     ELSE Respond(q, "200") /\ store' = store \union {q}
  /\ UNCHANGED <<permits, authVars, client, asked, session, request, task>>

Request(q) ==
  /\ client' = [client EXCEPT ![q] = "requesting"]
  /\ request' = [request EXCEPT ![q] = "sent"]

receive_configuration(q) ==
  /\ client[q] = "configuring" /\ response[q] # "none"
  /\ Respond(q, "none")
  /\ IF response[q] = "200"
     THEN Request(q) /\ session' = [session EXCEPT ![q] = q]
     ELSE client' = [client EXCEPT ![q] = "failed"] /\ UNCHANGED <<request, session>>
  /\ UNCHANGED <<asked, serverVars, authVars, task>>

\* A browser connects again with the session id of connection p.
reconnect(q, p) ==
  /\ client[q] = "idle" /\ session[p] = p
  /\ Request(q) /\ session' = [session EXCEPT ![q] = p]
  /\ UNCHANGED <<asked, response, serverVars, authVars, task>>

-----------------------------------------------------------------------------
(* GET /notarize: upgrade_protocol, in the two steps others can see.       *)

\* Mutant: the session is taken out of the store before the permit is tried.
try_acquire_owned_AfterRemove(q) ==
  /\ request[q] = "sent"
  /\ store' = store \ {session[q]}
  /\ IF permits = 0
     THEN /\ request' = [request EXCEPT ![q] = "none"] /\ Respond(q, "503")
          /\ UNCHANGED <<permits, task>>
     ELSE IF session[q] \in store
     THEN /\ request' = [request EXCEPT ![q] = "none"] /\ Respond(q, "101")
          /\ permits' = permits - 1 /\ task' = [task EXCEPT ![q] = "upgrading"]
     ELSE /\ request' = [request EXCEPT ![q] = "none"] /\ Respond(q, "400")
          /\ UNCHANGED <<permits, task>>
  /\ UNCHANGED <<authVars, client, asked, session>>
try_acquire_owned(q) ==
  /\ request[q] = "sent"
  /\ IF permits > 0
     THEN /\ permits' = permits - 1
          /\ request' = [request EXCEPT ![q] = "permitted"]
          /\ UNCHANGED response
     ELSE /\ request' = [request EXCEPT ![q] = "none"] /\ Respond(q, "503")
          /\ UNCHANGED permits
  /\ UNCHANGED <<store, authVars, client, asked, session, task>>

\* Mutant: the permit is forgotten when the session does not exist.
remove_session_KeepsPermit(q) ==
  /\ request[q] = "permitted"
  /\ request' = [request EXCEPT ![q] = "none"]
  /\ IF session[q] \in store
     THEN /\ store' = store \ {session[q]}
          /\ task' = [task EXCEPT ![q] = "upgrading"]
          /\ Respond(q, "101") /\ UNCHANGED permits
     ELSE Respond(q, "400") /\ UNCHANGED <<permits, store, task>>
  /\ UNCHANGED <<authVars, client, asked, session>>
\* Mutant: the session is looked up and left in the store.
remove_session_Contains(q) ==
  /\ request[q] = "permitted"
  /\ request' = [request EXCEPT ![q] = "none"]
  /\ IF session[q] \in store
     THEN /\ task' = [task EXCEPT ![q] = "upgrading"]
          /\ Respond(q, "101") /\ UNCHANGED permits
     ELSE permits' = permits + 1 /\ Respond(q, "400") /\ UNCHANGED task
  /\ UNCHANGED <<store, authVars, client, asked, session>>
remove_session(q) ==
  /\ request[q] = "permitted"
  /\ request' = [request EXCEPT ![q] = "none"]
  /\ IF session[q] \in store
     THEN /\ store' = store \ {session[q]}
          /\ task' = [task EXCEPT ![q] = "upgrading"]
          /\ Respond(q, "101") /\ UNCHANGED permits
     ELSE /\ permits' = permits + 1
          /\ Respond(q, "400") /\ UNCHANGED <<store, task>>
  /\ UNCHANGED <<authVars, client, asked, session>>

\* notarize_with_retry_fut: what the client does with the answer
receive_response(q) ==
  /\ client[q] = "requesting" /\ response[q] # "none"
  /\ Respond(q, "none")
  /\ client' = [client EXCEPT ![q] = IF response[q] = "101" THEN "accepted"
                                      ELSE IF response[q] = "503" THEN "sleeping"
                                      ELSE "failed"]
  /\ UNCHANGED <<asked, session, request, serverVars, authVars, task>>

retry(q) ==
  /\ client[q] = "sleeping"
  /\ Request(q)
  /\ UNCHANGED <<asked, session, response, serverVars, authVars, task>>

-----------------------------------------------------------------------------
(* The client gives up, and the connection with it.  A request that the    *)
(* server has not read yet is lost or still handled.                       *)

GiveUp(q) ==
  /\ client' = [client EXCEPT ![q] = "failed"]
  /\ Respond(q, "none")
  /\ request' = [request EXCEPT ![q] = IF @ = "sent" THEN "none" ELSE @]
       \/ request' = request
  /\ UNCHANGED <<asked, session, serverVars, authVars, task>>

request_timeout(q) == client[q] \in {"requesting", "sleeping"} /\ GiveUp(q)

break_connection(q) ==
  /\ LinkFaults /\ client[q] \in Waiting \union {"sleeping", "accepted"} /\ GiveUp(q)

\* The network loses an answer, and the connection looks alive to the client.
lose_response(q) ==
  /\ LinkFaults /\ client[q] \in Waiting /\ response[q] # "none"
  /\ client' = [client EXCEPT ![q] = IF @ = "configuring" THEN "hanging" ELSE @]
  /\ Respond(q, "none")
  /\ UNCHANGED <<asked, session, request, serverVars, authVars, task>>

-----------------------------------------------------------------------------
(* The notarization, and the permit that goes with it.                     *)

on_upgrade(q) ==
  /\ task[q] = "upgrading"
  /\ \/ task' = [task EXCEPT ![q] = "notarizing"] /\ UNCHANGED permits
     \/ /\ client[q] = "failed"
        /\ task' = [task EXCEPT ![q] = "ended"] /\ permits' = permits + 1
  /\ UNCHANGED <<store, authVars, httpVars>>

\* The verifier completes with its prover, or fails without it.
notarize(q) ==
  /\ task[q] = "notarizing" /\ client[q] \in {"accepted", "failed"}
  /\ task' = [task EXCEPT ![q] = "ended"] /\ permits' = permits + 1
  /\ client' = [client EXCEPT ![q] = IF @ = "accepted" THEN "finished" ELSE @]
  /\ UNCHANGED <<store, authVars, asked, session, request, response>>

\* Mutant: the verifier is awaited without a timeout.
notarize_timeout_None(q) == FALSE /\ task[q] = "notarizing" /\ UNCHANGED vars
notarize_timeout(q) ==
  /\ task[q] = "notarizing"
  /\ task' = [task EXCEPT ![q] = "ended"] /\ permits' = permits + 1
  /\ UNCHANGED <<store, authVars, httpVars>>

-----------------------------------------------------------------------------
Client(q) ==
  \/ \E ask \in Asked : request_configuration(q, ask)
  \/ \E p \in Connections : reconnect(q, p)
  \/ receive_configuration(q) \/ receive_response(q) \/ retry(q)
  \/ request_timeout(q) \/ break_connection(q) \/ lose_response(q)

Server(q) ==
  initialize(q) \/ try_acquire_owned(q) \/ remove_session(q) \/ on_upgrade(q) \/ notarize_timeout(q)

Next ==
  \/ \E keys \in SUBSET Keys, parses \in BOOLEAN : modify_file(keys, parses)
  \/ reload_whitelist
  \/ \E q \in Connections : Client(q) \/ Server(q) \/ notarize(q)

Spec == Init /\ [][Next]_vars

(***************************************************************************)
(* The runtime polls the handlers and the watcher's thread runs; a client  *)
(* sees its answer, and the timers of client and server go off.  Nothing   *)
(* is assumed of the prover: it may fall silent after it was accepted.     *)
(***************************************************************************)
Fairness ==
  /\ WF_vars(reload_whitelist)
  /\ \A q \in Connections :
       /\ WF_vars(Server(q)) /\ WF_vars(request_timeout(q))
       /\ WF_vars(receive_configuration(q)) /\ WF_vars(receive_response(q)) /\ WF_vars(retry(q))

FairSpec == Spec /\ Fairness

-----------------------------------------------------------------------------
(* Properties.                                                             *)

\* Every variable has its type.
TypeOK ==
  /\ store \subseteq Connections
  /\ permits \in 0 .. Concurrency
  /\ file \in [keys : SUBSET Keys, parses : BOOLEAN, edits : 0 .. MaxEdits]
  /\ event \in BOOLEAN /\ whitelist \subseteq Keys
  /\ client \in [Connections -> {"idle", "configuring", "hanging", "requesting", "sleeping",
                                 "accepted", "finished", "failed"}]
  /\ asked \in [Connections -> Asked \union {Nothing}]
  /\ session \in [Connections -> Connections \union {NoSession}]
  /\ request \in [Connections -> {"none", "sent", "permitted"}]
  /\ response \in [Connections -> Statuses]
  /\ task \in [Connections -> {"none", "upgrading", "notarizing", "ended"}]

(***************************************************************************)
(* The permits: free ones and those held by a handler or a notarization    *)
(* are always the configured number, through refusals, unknown sessions,   *)
(* failed upgrades, lost provers and timeouts, so the server neither runs  *)
(* more notarizations than that nor loses capacity.                        *)
(***************************************************************************)
Holders == {q \in Connections : request[q] = "permitted" \/ task[q] \in Running}
PermitsAccounted == permits + Cardinality(Holders) = Concurrency

(***************************************************************************)
(* "each session_id can only be used once" (upgrade_protocol): also when   *)
(* two connections present it at the same time, one notarization at most   *)
(* was started for a session, and then the store has forgotten it.         *)
(***************************************************************************)
SessionOnce ==
  \A q \in Connections : task[q] # "none" =>
    /\ session[q] \notin store
    /\ \A p \in Connections \ {q} : task[p] # "none" => session[p] # session[q]

(***************************************************************************)
(* A prover that is sent away because the server is busy can come back     *)
(* with the same session: it is told that the session does not exist only  *)
(* if another connection has used it up.                                   *)
(***************************************************************************)
BusyKeepsSession ==
  \A q \in Connections :
    client[q] = "requesting" /\ response[q] = "400" =>
      \E p \in Connections \ {q} : session[p] = session[q] /\ task[p] # "none"

\* A permit is given back in the end, whatever the prover does (notary_service).
PermitReturned == \A q \in Connections : (q \in Holders) ~> (q \notin Holders)

=============================================================================
