------------------------- MODULE NotaryServerProofs -------------------------
(***************************************************************************)
(* Proofs about NotaryServer: the type invariant, the accounting of the    *)
(* permits, and the single use of a session id, for any number of          *)
(* connections and permits.                                                *)
(***************************************************************************)
EXTENDS NotaryServer, FiniteSetTheorems, TLAPS

\* What is true of a connection between any two steps: before it has a session
\* no request of it and no notarization exist, a notarization starts once, and
\* a request that was answered is no longer the server's.
Connected(q) ==
  /\ client[q] \in {"idle", "configuring", "hanging"} => session[q] = NoSession /\ request[q] = "none"
  /\ client[q] \in {"idle", "configuring", "hanging", "sleeping"} => task[q] = "none"
  /\ request[q] # "none" => task[q] = "none" /\ session[q] \in Connections
  /\ response[q] \in {"400", "503"} => task[q] = "none"
  /\ task[q] # "none" => session[q] \in Connections
  /\ client[q] \in {"requesting", "sleeping"} => session[q] \in Connections
  /\ client[q] \in {"idle", "sleeping"} => response[q] = "none" /\ request[q] = "none"
  /\ response[q] # "none" => request[q] = "none"

\* A session id that a client holds was given to the connection it names.
Given(q) == session[q] \in Connections => session[session[q]] = session[q]

\* A session that was configured is in the store until a notarization used it.
Kept(q) ==
  /\ client[q] = "configuring" /\ response[q] = "200" => q \in store
  /\ session[q] = q => q \in store \/ \E p \in Connections : task[p] # "none" /\ session[p] = q

IInv ==
  /\ TypeOK
  /\ PermitsAccounted
  /\ SessionOnce
  /\ BusyKeepsSession
  /\ \A q \in Connections : Connected(q) /\ Given(q) /\ Kept(q)

LEMMA InitIInv == Init => IInv
<1> SUFFICES ASSUME Init PROVE IInv
  OBVIOUS
<1>1. Holders = {}
  BY DEF Init, Holders, Running
<1>2. Cardinality(Holders) = 0
  BY <1>1, FS_EmptySet
<1>3. PermitsAccounted
  BY <1>2, NotaryAssumption DEF Init, PermitsAccounted
<1>4. TypeOK
  <2>1. file \in [keys : SUBSET Keys, parses : BOOLEAN, edits : 0 .. MaxEdits]
    BY NotaryAssumption DEF Init
  <2>2. event \in BOOLEAN /\ whitelist \subseteq Keys
    BY Zenon DEF Init
  <2> QED
    BY <2>1, <2>2, NotaryAssumption DEF Init, TypeOK, Statuses
<1> QED
  BY <1>3, <1>4, NotaryAssumption
  DEF Init, IInv, SessionOnce, BusyKeepsSession, Connected, Given, Kept

-----------------------------------------------------------------------------
(***************************************************************************)
(* The permits.  A step changes the set of holders by at most the          *)
(* connection it is about.                                                 *)
(***************************************************************************)
LEMMA HoldersFinite == IsFiniteSet(Holders) /\ Cardinality(Holders) \in Nat
<1>1. Holders \subseteq Connections
  BY DEF Holders
<1>2. IsFiniteSet(Holders)
  BY <1>1, FS_Subset, NotaryAssumption
<1> QED
  BY <1>2, FS_CardinalityType

LEMMA PermitKept ==
  ASSUME PermitsAccounted, permits' = permits, Holders' = Holders
  PROVE  PermitsAccounted'
BY DEF PermitsAccounted

LEMMA PermitTaken ==
  ASSUME PermitsAccounted, permits \in Nat, NEW q, q \notin Holders,
         permits' = permits - 1, Holders' = Holders \union {q}
  PROVE  PermitsAccounted'
<1>1. Cardinality(Holders') = Cardinality(Holders) + 1
  BY HoldersFinite, FS_AddElement
<1> QED
  BY <1>1, HoldersFinite DEF PermitsAccounted

LEMMA PermitGivenBack ==
  ASSUME PermitsAccounted, permits \in Nat, NEW q, q \in Holders,
         permits' = permits + 1, Holders' = Holders \ {q}
  PROVE  PermitsAccounted'
<1>1. Cardinality(Holders') = Cardinality(Holders) - 1
  BY HoldersFinite, FS_RemoveElement
<1> QED
  BY <1>1, HoldersFinite DEF PermitsAccounted

LEMMA PermitsInRange ==
  ASSUME PermitsAccounted, permits \in Int, permits >= 0
  PROVE  permits \in 0 .. Concurrency
BY HoldersFinite, NotaryAssumption DEF PermitsAccounted

LEMMA HolderHoldsPermit ==
  ASSUME PermitsAccounted, permits \in Nat, NEW q, q \in Holders
  PROVE  permits + 1 \in 0 .. Concurrency
<1>1. Cardinality(Holders \ {q}) = Cardinality(Holders) - 1
  BY HoldersFinite, FS_RemoveElement
<1>2. Cardinality(Holders \ {q}) \in Nat
  BY HoldersFinite, FS_RemoveElement, FS_CardinalityType
<1> QED
  BY <1>1, <1>2, HoldersFinite, NotaryAssumption DEF PermitsAccounted

-----------------------------------------------------------------------------
(* Each action preserves IInv.                                             *)

LEMMA FileStep ==
  ASSUME IInv, \/ \E keys \in SUBSET Keys, parses \in BOOLEAN : modify_file(keys, parses)
               \/ reload_whitelist
  PROVE  IInv'
<1>1. UNCHANGED <<serverVars, httpVars, task>>
  BY DEF modify_file, reload_whitelist
<1>2. Holders' = Holders
  BY <1>1 DEF httpVars, Holders
<1>3. PermitsAccounted'
  BY <1>1, <1>2, PermitKept DEF IInv, serverVars
<1>4. TypeOK'
  <2>1. file' \in [keys : SUBSET Keys, parses : BOOLEAN, edits : 0 .. MaxEdits]
    BY NotaryAssumption DEF IInv, TypeOK, modify_file, reload_whitelist
  <2>2. event' \in BOOLEAN
    BY Zenon DEF modify_file, reload_whitelist
  <2>3. whitelist' \subseteq Keys
    BY DEF IInv, TypeOK, modify_file, reload_whitelist
  <2> QED
    BY <1>1, <2>1, <2>2, <2>3 DEF IInv, TypeOK, serverVars, httpVars
<1> QED
  BY <1>1, <1>3, <1>4
  DEF IInv, SessionOnce, BusyKeepsSession, Connected, Given, Kept, serverVars, httpVars

\* Steps of a client that leave the server alone.
LEMMA ClientStep ==
  ASSUME IInv, NEW q \in Connections, Client(q)
  PROVE  IInv'
<1>0. UNCHANGED <<serverVars, authVars, task>>
  BY DEF Client, request_configuration, reconnect, receive_configuration, receive_response, retry,
         request_timeout, break_connection, lose_response, GiveUp, serverVars
<1>1. CASE \E ask \in Asked : request_configuration(q, ask)
  <2>1. TypeOK'
    BY <1>0, <1>1 DEF IInv, TypeOK, request_configuration, serverVars, authVars
  <2>2. \A p \in Connections : request'[p] = "permitted" <=> request[p] = "permitted"
    BY <1>0, <1>1 DEF IInv, TypeOK, Connected, request_configuration
  <2>3. PermitsAccounted'
    <3>1. Holders' = Holders
      BY <1>0, <2>2 DEF Holders
    <3> QED
      BY <1>0, <3>1, PermitKept DEF IInv, serverVars
  <2>4. SessionOnce'
    BY <1>0, <1>1 DEF IInv, TypeOK, SessionOnce, Connected, request_configuration, serverVars
  <2>5. BusyKeepsSession'
    BY <1>0, <1>1 DEF IInv, TypeOK, BusyKeepsSession, Connected, request_configuration
  <2>6. \A p \in Connections : Connected(p)'
    BY <1>0, <1>1, NotaryAssumption DEF IInv, TypeOK, Connected, request_configuration
  <2>7. \A p \in Connections : Given(p)'
    BY <1>0, <1>1, NotaryAssumption DEF IInv, TypeOK, Connected, Given, request_configuration
  <2>8. \A p \in Connections : Kept(p)'
    BY <1>0, <1>1, NotaryAssumption DEF IInv, TypeOK, Connected, Given, Kept, request_configuration, serverVars
  <2> QED
    BY <2>1, <2>3, <2>4, <2>5, <2>6, <2>7, <2>8 DEF IInv
<1>2. CASE \E p \in Connections : reconnect(q, p)
  <2>1. TypeOK'
    BY <1>0, <1>2 DEF IInv, TypeOK, reconnect, Request, serverVars, authVars
  <2>2. \A p \in Connections : request'[p] = "permitted" <=> request[p] = "permitted"
    BY <1>0, <1>2 DEF IInv, TypeOK, Connected, reconnect, Request
  <2>3. PermitsAccounted'
    <3>1. Holders' = Holders
      BY <1>0, <2>2 DEF Holders
    <3> QED
      BY <1>0, <3>1, PermitKept DEF IInv, serverVars
  <2>4. SessionOnce'
    BY <1>0, <1>2 DEF IInv, TypeOK, SessionOnce, Connected, reconnect, Request, serverVars
  <2>5. BusyKeepsSession'
    BY <1>0, <1>2 DEF IInv, TypeOK, BusyKeepsSession, Connected, reconnect, Request
  <2>6. \A p \in Connections : Connected(p)'
    BY <1>0, <1>2, NotaryAssumption DEF IInv, TypeOK, Connected, reconnect, Request
  <2>7. \A p \in Connections : Given(p)'
    BY <1>0, <1>2, NotaryAssumption DEF IInv, TypeOK, Connected, Given, reconnect, Request
  <2>8. \A p \in Connections : Kept(p)'
    <3>1. PICK p \in Connections : reconnect(q, p)
      BY <1>2
    <3>2. session[q] = NoSession /\ task[q] = "none" /\ p # q
      BY <3>1, NotaryAssumption DEF IInv, Connected, reconnect
    <3>3. /\ session' = [session EXCEPT ![q] = p] /\ client' = [client EXCEPT ![q] = "requesting"]
          /\ response' = response
      BY <3>1 DEF reconnect, Request
    <3>4. ASSUME NEW x \in Connections PROVE Kept(x)'
      <4>1. CASE x = q
        BY <3>2, <3>3, <4>1 DEF Kept, IInv, TypeOK
      <4>2. CASE x # q
        <5>1. Kept(x)
          BY DEF IInv
        <5> QED
          BY <1>0, <3>2, <3>3, <4>2, <5>1 DEF Kept, IInv, TypeOK, serverVars
      <4> QED
        BY <4>1, <4>2
    <3> QED
      BY <3>4
  <2> QED
    BY <2>1, <2>3, <2>4, <2>5, <2>6, <2>7, <2>8 DEF IInv
<1>3. CASE receive_configuration(q)
  <2>1. TypeOK'
    BY <1>0, <1>3 DEF IInv, TypeOK, receive_configuration, Request, Respond, Statuses, serverVars, authVars
  <2>2. \A p \in Connections : request'[p] = "permitted" <=> request[p] = "permitted"
    BY <1>0, <1>3 DEF IInv, TypeOK, Connected, receive_configuration, Request, Respond
  <2>3. PermitsAccounted'
    <3>1. Holders' = Holders
      BY <1>0, <2>2 DEF Holders
    <3> QED
      BY <1>0, <3>1, PermitKept DEF IInv, serverVars
  <2>4. SessionOnce'
    BY <1>0, <1>3 DEF IInv, TypeOK, SessionOnce, Connected, receive_configuration, Request, Respond, serverVars
  <2>5. BusyKeepsSession'
    <3> SUFFICES ASSUME NEW x \in Connections, client'[x] = "requesting", response'[x] = "400"
                 PROVE  \E p \in Connections \ {x} : session'[p] = session'[x] /\ task'[p] # "none"
      BY DEF BusyKeepsSession
    <3>1. x # q /\ client[x] = "requesting" /\ response[x] = "400" /\ session'[x] = session[x]
      BY <1>3 DEF IInv, TypeOK, receive_configuration, Request, Respond
    <3>2. PICK p \in Connections \ {x} : session[p] = session[x] /\ task[p] # "none"
      BY <3>1 DEF IInv, BusyKeepsSession
    <3>3. p # q
      BY <1>3, <3>2 DEF IInv, Connected, receive_configuration
    <3> QED
      BY <1>0, <1>3, <3>1, <3>2, <3>3 DEF IInv, TypeOK, receive_configuration, Request, Respond
  <2>6. \A p \in Connections : Connected(p)'
    BY <1>0, <1>3, NotaryAssumption DEF IInv, TypeOK, Connected, receive_configuration, Request, Respond
  <2>7. \A p \in Connections : Given(p)'
    BY <1>0, <1>3, NotaryAssumption DEF IInv, TypeOK, Connected, Given, receive_configuration, Request, Respond
  <2>8. \A p \in Connections : Kept(p)'
    BY <1>0, <1>3, NotaryAssumption DEF IInv, TypeOK, Connected, Given, Kept, receive_configuration, Request, Respond, serverVars
  <2> QED
    BY <2>1, <2>3, <2>4, <2>5, <2>6, <2>7, <2>8 DEF IInv
<1>4. CASE receive_response(q)
  <2>1. TypeOK'
    BY <1>0, <1>4 DEF IInv, TypeOK, receive_response, Respond, Statuses, serverVars, authVars
  <2>2. \A p \in Connections : request'[p] = "permitted" <=> request[p] = "permitted"
    BY <1>0, <1>4 DEF IInv, TypeOK, Connected, receive_response, Respond
  <2>3. PermitsAccounted'
    <3>1. Holders' = Holders
      BY <1>0, <2>2 DEF Holders
    <3> QED
      BY <1>0, <3>1, PermitKept DEF IInv, serverVars
  <2>4. SessionOnce'
    BY <1>0, <1>4 DEF IInv, TypeOK, SessionOnce, Connected, receive_response, Respond, serverVars
  <2>5. BusyKeepsSession'
    BY <1>0, <1>4 DEF IInv, TypeOK, BusyKeepsSession, Connected, receive_response, Respond
  <2>6. \A p \in Connections : Connected(p)'
    BY <1>0, <1>4, NotaryAssumption DEF IInv, TypeOK, Connected, receive_response, Respond
  <2>7. \A p \in Connections : Given(p)'
    BY <1>0, <1>4, NotaryAssumption DEF IInv, TypeOK, Connected, Given, receive_response, Respond
  <2>8. \A p \in Connections : Kept(p)'
    BY <1>0, <1>4, NotaryAssumption DEF IInv, TypeOK, Connected, Given, Kept, receive_response, Respond, serverVars
  <2> QED
    BY <2>1, <2>3, <2>4, <2>5, <2>6, <2>7, <2>8 DEF IInv
<1>5. CASE retry(q)
  <2>1. TypeOK'
    BY <1>0, <1>5 DEF IInv, TypeOK, retry, Request, serverVars, authVars
  <2>2. \A p \in Connections : request'[p] = "permitted" <=> request[p] = "permitted"
    BY <1>0, <1>5 DEF IInv, TypeOK, Connected, retry, Request
  <2>3. PermitsAccounted'
    <3>1. Holders' = Holders
      BY <1>0, <2>2 DEF Holders
    <3> QED
      BY <1>0, <3>1, PermitKept DEF IInv, serverVars
  <2>4. SessionOnce'
    BY <1>0, <1>5 DEF IInv, TypeOK, SessionOnce, Connected, retry, Request, serverVars
  <2>5. BusyKeepsSession'
    BY <1>0, <1>5 DEF IInv, TypeOK, BusyKeepsSession, Connected, retry, Request
  <2>6. \A p \in Connections : Connected(p)'
    BY <1>0, <1>5, NotaryAssumption DEF IInv, TypeOK, Connected, retry, Request
  <2>7. \A p \in Connections : Given(p)'
    BY <1>0, <1>5, NotaryAssumption DEF IInv, TypeOK, Connected, Given, retry, Request
  <2>8. \A p \in Connections : Kept(p)'
    BY <1>0, <1>5, NotaryAssumption DEF IInv, TypeOK, Connected, Given, Kept, retry, Request, serverVars
  <2> QED
    BY <2>1, <2>3, <2>4, <2>5, <2>6, <2>7, <2>8 DEF IInv
<1>6. CASE request_timeout(q) \/ break_connection(q)
  <2>1. TypeOK'
    BY <1>0, <1>6 DEF IInv, TypeOK, request_timeout, break_connection, GiveUp, Respond, Statuses, serverVars, authVars
  <2>2. \A p \in Connections : request'[p] = "permitted" <=> request[p] = "permitted"
    <3>1. \/ request' = [request EXCEPT ![q] = IF @ = "sent" THEN "none" ELSE @]
          \/ request' = request
      BY <1>6 DEF request_timeout, break_connection, GiveUp
    <3> QED
      BY <3>1 DEF IInv, TypeOK
  <2>3. PermitsAccounted'
    <3>1. Holders' = Holders
      BY <1>0, <2>2 DEF Holders
    <3> QED
      BY <1>0, <3>1, PermitKept DEF IInv, serverVars
  <2>4. SessionOnce'
    BY <1>0, <1>6 DEF IInv, TypeOK, SessionOnce, Connected, request_timeout, break_connection, GiveUp, Respond, serverVars
  <2>5. BusyKeepsSession'
    <3>1. /\ client' = [client EXCEPT ![q] = "failed"] /\ response' = [response EXCEPT ![q] = "none"]
          /\ session' = session
      BY <1>6 DEF request_timeout, break_connection, GiveUp, Respond
    <3> QED
      BY <1>0, <3>1 DEF IInv, TypeOK, BusyKeepsSession
  <2>6. \A p \in Connections : Connected(p)'
    BY <1>0, <1>6, NotaryAssumption DEF IInv, TypeOK, Connected, request_timeout, break_connection, GiveUp, Respond
  <2>7. \A p \in Connections : Given(p)'
    BY <1>0, <1>6, NotaryAssumption DEF IInv, TypeOK, Connected, Given, request_timeout, break_connection, GiveUp, Respond
  <2>8. \A p \in Connections : Kept(p)'
    BY <1>0, <1>6, NotaryAssumption DEF IInv, TypeOK, Connected, Given, Kept, request_timeout, break_connection, GiveUp, Respond, serverVars
  <2> QED
    BY <2>1, <2>3, <2>4, <2>5, <2>6, <2>7, <2>8 DEF IInv
<1>7. CASE lose_response(q)
  <2>1. TypeOK'
    BY <1>0, <1>7 DEF IInv, TypeOK, lose_response, Respond, Statuses, serverVars, authVars
  <2>2. \A p \in Connections : request'[p] = "permitted" <=> request[p] = "permitted"
    BY <1>0, <1>7 DEF IInv, TypeOK, Connected, lose_response, Respond
  <2>3. PermitsAccounted'
    <3>1. Holders' = Holders
      BY <1>0, <2>2 DEF Holders
    <3> QED
      BY <1>0, <3>1, PermitKept DEF IInv, serverVars
  <2>4. SessionOnce'
    BY <1>0, <1>7 DEF IInv, TypeOK, SessionOnce, Connected, lose_response, Respond, serverVars
  <2>5. BusyKeepsSession'
    BY <1>0, <1>7 DEF IInv, TypeOK, BusyKeepsSession, Connected, lose_response, Respond
  <2>6. \A p \in Connections : Connected(p)'
    BY <1>0, <1>7, NotaryAssumption DEF IInv, TypeOK, Connected, lose_response, Respond
  <2>7. \A p \in Connections : Given(p)'
    BY <1>0, <1>7, NotaryAssumption DEF IInv, TypeOK, Connected, Given, lose_response, Respond
  <2>8. \A p \in Connections : Kept(p)'
    BY <1>0, <1>7, NotaryAssumption DEF IInv, TypeOK, Connected, Given, Kept, lose_response, Respond, serverVars
  <2> QED
    BY <2>1, <2>3, <2>4, <2>5, <2>6, <2>7, <2>8 DEF IInv
<1> QED
  BY <1>1, <1>2, <1>3, <1>4, <1>5, <1>6, <1>7 DEF Client

LEMMA InitializeStep ==
  ASSUME IInv, NEW q \in Connections, initialize(q)
  PROVE  IInv'
<1>0. UNCHANGED <<permits, authVars, client, asked, session, request, task>>
  BY DEF initialize
<1>1. PermitsAccounted'
  BY <1>0, PermitKept DEF IInv, Holders
<1>2. TypeOK'
  BY <1>0 DEF IInv, TypeOK, initialize, Respond, Statuses, authVars
<1>3. \A p \in Connections : session[p] # q
  BY NotaryAssumption DEF IInv, Connected, Given, initialize
<1> QED
  BY <1>0, <1>1, <1>2, <1>3
  DEF IInv, TypeOK, SessionOnce, BusyKeepsSession, Connected, Given, Kept, initialize, Respond

LEMMA AcquireStep ==
  ASSUME IInv, NEW q \in Connections, try_acquire_owned(q)
  PROVE  IInv'
<1>0. UNCHANGED <<store, authVars, client, asked, session, task>>
  BY DEF try_acquire_owned
<1>1. CASE permits > 0
  <2>1. /\ permits' = permits - 1 /\ request' = [request EXCEPT ![q] = "permitted"]
        /\ UNCHANGED response
    BY <1>1 DEF try_acquire_owned
  <2>2. q \notin Holders
    BY DEF Holders, Running, try_acquire_owned, IInv, Connected
  <2>3. Holders' = Holders \union {q}
    BY <1>0, <2>1 DEF Holders, IInv, TypeOK
  <2>4. PermitsAccounted'
    BY <2>1, <2>2, <2>3, PermitTaken DEF IInv, TypeOK
  <2>5. TypeOK'
    BY <1>0, <1>1, <2>1, NotaryAssumption DEF IInv, TypeOK, authVars
  <2> QED
    BY <1>0, <2>1, <2>4, <2>5
    DEF IInv, TypeOK, SessionOnce, BusyKeepsSession, Connected, Given, Kept, try_acquire_owned
<1>2. CASE ~(permits > 0)
  <2>1. /\ request' = [request EXCEPT ![q] = "none"] /\ response' = [response EXCEPT ![q] = "503"]
        /\ UNCHANGED permits
    BY <1>2 DEF try_acquire_owned, Respond
  <2>2. Holders' = Holders
    BY <1>0, <2>1 DEF Holders, IInv, TypeOK, try_acquire_owned
  <2>3. PermitsAccounted'
    BY <2>1, <2>2, PermitKept DEF IInv
  <2>4. TypeOK'
    BY <1>0, <2>1 DEF IInv, TypeOK, authVars, Statuses
  <2> QED
    BY <1>0, <2>1, <2>3, <2>4
    DEF IInv, TypeOK, SessionOnce, BusyKeepsSession, Connected, Given, Kept, try_acquire_owned
<1> QED
  BY <1>1, <1>2

LEMMA SessionStep ==
  ASSUME IInv, NEW q \in Connections, remove_session(q)
  PROVE  IInv'
<1>0. UNCHANGED <<authVars, client, asked, session>>
  BY DEF remove_session
<1>1. request[q] = "permitted" /\ task[q] = "none" /\ session[q] \in Connections
  BY DEF remove_session, IInv, Connected
<1>2. q \in Holders
  BY <1>1 DEF Holders
<1>3. CASE session[q] \in store
  <2>1. /\ request' = [request EXCEPT ![q] = "none"] /\ store' = store \ {session[q]}
        /\ task' = [task EXCEPT ![q] = "upgrading"] /\ response' = [response EXCEPT ![q] = "101"]
        /\ permits' = permits
    BY <1>3 DEF remove_session, Respond
  <2>2. Holders' = Holders
    BY <1>1, <2>1 DEF Holders, Running, IInv, TypeOK
  <2>3. PermitsAccounted'
    BY <2>1, <2>2, PermitKept DEF IInv
  <2>4. TypeOK'
    BY <1>0, <2>1 DEF IInv, TypeOK, Statuses, authVars
  <2>5. SessionOnce'
    BY <1>0, <1>1, <1>3, <2>1 DEF IInv, TypeOK, SessionOnce
  <2>6. BusyKeepsSession'
    BY <1>0, <2>1 DEF IInv, TypeOK, BusyKeepsSession
  <2>7. \A p \in Connections : Connected(p)' /\ Given(p)'
    BY <1>0, <1>1, <2>1 DEF IInv, TypeOK, Connected, Given, remove_session
  <2>8. ASSUME NEW p \in Connections PROVE Kept(p)'
    <3>1. Kept(p)
      BY DEF IInv
    <3>2. client[p] = "configuring" => p # session[q]
      BY <1>1, NotaryAssumption DEF IInv, Connected, Given
    <3>3. p = session[q] => \E x \in Connections : task'[x] # "none" /\ session'[x] = p
      BY <1>0, <2>1 DEF IInv, TypeOK
    <3>4. p # q \/ client[p] # "configuring"
      BY <1>1 DEF IInv, Connected
    <3> QED
      BY <1>0, <1>1, <2>1, <3>1, <3>2, <3>3, <3>4 DEF Kept, IInv, TypeOK
  <2> QED
    BY <2>3, <2>4, <2>5, <2>6, <2>7, <2>8 DEF IInv
<1>4. CASE session[q] \notin store
  <2>1. /\ request' = [request EXCEPT ![q] = "none"] /\ response' = [response EXCEPT ![q] = "400"]
        /\ permits' = permits + 1 /\ store' = store /\ task' = task
    BY <1>4 DEF remove_session, Respond
  <2>2. Holders' = Holders \ {q}
    BY <1>1, <2>1 DEF Holders, Running, IInv, TypeOK
  <2>3. PermitsAccounted'
    BY <1>2, <2>1, <2>2, PermitGivenBack DEF IInv, TypeOK
  <2>4. TypeOK'
    <3>1. permits' \in 0 .. Concurrency
      BY <1>2, <2>1, HolderHoldsPermit DEF IInv, TypeOK
    <3> QED
      BY <1>0, <2>1, <3>1 DEF IInv, TypeOK, Statuses, authVars
  <2>5. SessionOnce'
    BY <1>0, <2>1 DEF IInv, SessionOnce
  <2>6. BusyKeepsSession'
    <3>1. PICK p \in Connections : task[p] # "none" /\ session[p] = session[q]
      BY <1>1, <1>4 DEF IInv, Given, Kept
    <3>2. p # q
      BY <1>1, <3>1
    <3> QED
      BY <1>0, <2>1, <3>1, <3>2 DEF IInv, TypeOK, BusyKeepsSession
  <2>7. \A p \in Connections : Connected(p)' /\ Given(p)'
    BY <1>0, <1>1, <2>1 DEF IInv, TypeOK, Connected, Given
  <2>8. \A p \in Connections : Kept(p)'
    BY <1>0, <2>1 DEF IInv, TypeOK, Kept
  <2> QED
    BY <2>3, <2>4, <2>5, <2>6, <2>7, <2>8 DEF IInv
<1> QED
  BY <1>3, <1>4

LEMMA UpgradeStep ==
  ASSUME IInv, NEW q \in Connections, on_upgrade(q) \/ notarize_timeout(q) \/ notarize(q)
  PROVE  IInv'
<1>0. UNCHANGED <<store, authVars, asked, session, request, response>>
  BY DEF on_upgrade, notarize, notarize_timeout, httpVars
<1>1. task[q] \in Running /\ session[q] \in Connections /\ request[q] = "none"
  BY DEF on_upgrade, notarize, notarize_timeout, Running, IInv, TypeOK, Connected
<1>2. q \in Holders
  BY <1>1 DEF Holders
<1>3. \/ task' = [task EXCEPT ![q] = "notarizing"] /\ permits' = permits
      \/ task' = [task EXCEPT ![q] = "ended"] /\ permits' = permits + 1
  BY DEF on_upgrade, notarize, notarize_timeout
<1>4. \A p \in Connections : task'[p] = "none" <=> task[p] = "none"
  BY <1>1, <1>3 DEF Running, IInv, TypeOK
<1>5. \/ client' = client
      \/ client' = [client EXCEPT ![q] = IF @ = "accepted" THEN "finished" ELSE @]
  BY DEF on_upgrade, notarize, notarize_timeout, httpVars
<1>6. \A p \in Connections : client'[p] = client[p] \/ (client[p] = "accepted" /\ client'[p] = "finished")
  BY <1>5 DEF IInv, TypeOK
<1>7. PermitsAccounted' /\ permits' \in 0 .. Concurrency
  <2>1. CASE task' = [task EXCEPT ![q] = "notarizing"] /\ permits' = permits
    <3>1. Holders' = Holders
      BY <1>0, <1>1, <2>1 DEF Holders, Running, IInv, TypeOK
    <3> QED
      BY <2>1, <3>1, PermitKept DEF IInv, TypeOK
  <2>2. CASE task' = [task EXCEPT ![q] = "ended"] /\ permits' = permits + 1
    <3>1. Holders' = Holders \ {q}
      BY <1>0, <1>1, <2>2 DEF Holders, Running, IInv, TypeOK
    <3> QED
      BY <1>2, <2>2, <3>1, PermitGivenBack, HolderHoldsPermit DEF IInv, TypeOK
  <2> QED
    BY <1>3, <2>1, <2>2
<1>8. TypeOK'
  BY <1>0, <1>3, <1>5, <1>7 DEF IInv, TypeOK, authVars
<1>9. SessionOnce' /\ BusyKeepsSession'
  BY <1>0, <1>4, <1>6 DEF IInv, SessionOnce, BusyKeepsSession
<1>10. \A p \in Connections : Connected(p)' /\ Given(p)'
  BY <1>0, <1>4, <1>6 DEF IInv, TypeOK, Connected, Given
<1>11. \A p \in Connections : Kept(p)'
  BY <1>0, <1>4, <1>6 DEF IInv, TypeOK, Kept
<1> QED
  BY <1>7, <1>8, <1>9, <1>10, <1>11 DEF IInv

-----------------------------------------------------------------------------
LEMMA NextIInv == IInv /\ [Next]_vars => IInv'
<1> SUFFICES ASSUME IInv, [Next]_vars PROVE IInv'
  OBVIOUS
<1>1. CASE UNCHANGED vars
  <2>1. Holders' = Holders /\ permits' = permits
    BY <1>1 DEF vars, Holders
  <2>2. PermitsAccounted'
    BY <2>1, PermitKept DEF IInv
  <2> QED
    BY <1>1, <2>2
    DEF vars, IInv, TypeOK, SessionOnce, BusyKeepsSession, Connected, Given, Kept
<1>2. CASE \/ \E keys \in SUBSET Keys, parses \in BOOLEAN : modify_file(keys, parses)
           \/ reload_whitelist
  BY <1>2, FileStep
<1>3. CASE \E q \in Connections : Client(q) \/ Server(q) \/ notarize(q)
  BY <1>3, ClientStep, InitializeStep, AcquireStep, SessionStep, UpgradeStep DEF Server
<1> QED
  BY <1>1, <1>2, <1>3 DEF Next

\* The inductive invariant holds in every reachable state of the server.
THEOREM Invariance == Spec => []IInv
BY InitIInv, NextIInv, PTL DEF Spec

\* Every variable of the server keeps its type, in particular the semaphore never
\* has more permits than config.concurrency.
THEOREM TypeCorrect == Spec => []TypeOK
BY Invariance, PTL DEF IInv

\* upgrade_protocol and notary_service neither lose nor invent a permit.
THEOREM CapacityKept == Spec => []PermitsAccounted
BY Invariance, PTL DEF IInv

\* A session id starts one notarization at most, however the handlers interleave.
THEOREM SessionsUsedOnce == Spec => []SessionOnce
BY Invariance, PTL DEF IInv

\* A prover refused for lack of a permit keeps its session.
THEOREM RefusalKeepsSession == Spec => []BusyKeepsSession
BY Invariance, PTL DEF IInv
=============================================================================
