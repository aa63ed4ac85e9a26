---------------------------- MODULE StreamProofs ----------------------------
(* What a stream was told is done was done once, in the order of the submits, *)
(* for any number of streams, sandboxes, containers, calls and tries.         *)
EXTENDS Stream, FiniteSetTheorems, TLAPS

CallStates   == {"new", "waits", "sent", "done"}
ClientStates == {"none", "creating", "made", "bare", "attached", "touching", "open",
                 "killing", "closed", "failed"}
JobKinds     == {"none", "call", "sync", "record", "wait"}
WorkerStates == {"none", "idle", "busy", "failing", "dead", "ended"}

\* Calls that must not run twice and are not tried again.
Once == {"mutate", "write"}

\* A client in one of these states has a container, in the last three for good.
Lasting == {"open", "killing", "closed"}
Placed  == {"made", "bare", "attached", "touching"} \cup Lasting

AnyStream == CHOOSE q \in StreamObj : TRUE

CallRec   == [kind : CallKinds, path : Path \cup {NoCall.path}, x : Client \cup {NoCall.x},
              st : CallStates, try : Nat, out : {"none", "ok", "failed", "raised", "timeout"}]
ClientRec == [at : Container \cup {NoContainer}, st : ClientStates, try : Nat, vol : BOOLEAN]
JobRec    == [k : JobKinds, q : StreamObj \cup {AnyStream}, event : Op \cup {NoOp}]

RemoteTyped ==
    /\ client \in [Client -> ClientRec] /\ call \in [Op -> CallRec]
    /\ effects \in [Container -> Seq(Op)]
    /\ \A x \in Client : client[x].st \in Placed => client[x].at \in Container

QueueTyped ==
    /\ queue \in [StreamObj -> Seq(Op \cup {Stop})]
    /\ putting \in [StreamObj -> Op \cup {Stop, NoOp}]
    /\ worker \in [StreamObj -> WorkerStates]
    /\ current \in [StreamObj -> Op \cup {NoOp}]
    /\ job \in [Op -> JobRec]
    /\ taken \in [StreamObj -> Seq(Op)]

-----------------------------------------------------------------------------
(* The inductive invariant.  Operations are numbered as they come, so queues, *)
(* the put that waits behind one, and what was taken, are in numeric order.   *)

Used(o)    == job[o].k # "none"
Calls(q)   == {o \in Op : job[o].k = "call" /\ job[o].q = q}
Members(s) == {o \in Op : \E i \in DOMAIN s : s[i] = o}
Queued(q)  == Members(queue[q])
Pending(q) == Queued(q) \cup ({putting[q]} \cap Op)

Rising(s) == \A i, j \in DOMAIN s : i < j /\ s[i] \in Op /\ s[j] \in Op => s[i] < s[j]

Numbered ==
    /\ \A o, p \in Op : Used(o) /\ p < o => Used(p)
    /\ \A q \in StreamObj :
         /\ Rising(queue[q]) /\ Rising(taken[q])
         /\ putting[q] \in Op => \A o \in Queued(q) : o < putting[q]
         /\ \A o \in Pending(q) : Used(o) /\ job[o].q = q /\ call[o].st = "new"
         /\ \A i \in DOMAIN taken[q] : taken[q][i] \in Calls(q)
    /\ \A o \in Op : ~Used(o) => call[o].st = "new"

\* As long as its worker lives, a call that has left the queue of a stream is the one
\* the worker is on, or done.
Handed ==
    \A q \in StreamObj : worker[q] \notin {"failing", "dead"} =>
      \A a \in Calls(q) \ Pending(q) :
        call[a].st = "done" \/ (worker[q] = "busy" /\ current[q] = a)

\* A call starts when the earlier ones of its stream are done, also if a worker dies.
OneAtATime ==
    \A q \in StreamObj : \A a, b \in Calls(q) :
      a < b /\ call[b].st # "new" => call[a].st = "done"

Reached(c) == call[c].st \in {"sent", "done"}
Place(c)   == client[call[c].x].at
Bound(c)   == call[c].x \in Client /\ client[call[c].x].st \in Lasting

\* Requests and effects are of calls that were sent, to the container of their sandbox.
Traffic ==
    /\ \A q \in StreamObj : \A c \in Calls(q) : call[c].x = BoxOf[q]
    /\ \A r \in requests \cup ran :
         /\ r \in [op : Op, try : Nat, at : Container]
         /\ Reached(r.op) /\ Bound(r.op) /\ r.at = Place(r.op)
    /\ \A k \in Container : \A i \in DOMAIN effects[k] : Reached(effects[k][i])
    /\ \A c \in Op : call[c].st \in {"waits", "sent"} \/ call[c].out = "ok" => Bound(c)
    /\ \A c \in Op : call[c].out = "ok" => call[c].st = "done"

\* A request that is under way has not run, one that ran or was answered ran once.
OnceOnly ==
    \A c \in Op : call[c].kind \in Once =>
      /\ call[c].st \in {"waits", "sent"} => call[c].try = 1
      /\ \A r \in requests : r.op = c => r.try = 1 /\ Occurs(c, r.at) = {}
      /\ \A r \in ran : r.op = c => \E i \in Nat : Occurs(c, r.at) = {i}
      /\ call[c].out = "ok" => \E i \in Nat : Occurs(c, Place(c)) = {i}

InTurn ==
    \A q \in StreamObj : \A a, b \in Calls(q) :
      a < b /\ call[a].kind \in Once /\ call[a].out = "ok" =>
        \A m \in Occurs(a, Place(a)), n \in Occurs(b, Place(a)) : m < n

RemoteInv == RemoteTyped /\ OneAtATime /\ Traffic /\ OnceOnly /\ InTurn
QueueInv  == QueueTyped /\ Numbered /\ Handed
OrderInv  == RemoteInv /\ QueueInv

-----------------------------------------------------------------------------
(* Queues *)

\* What is left when the head of a queue is taken.
LEMMA TailOf ==
    ASSUME NEW S, NEW s \in Seq(S), s # <<>>
    PROVE  /\ Tail(s) \in Seq(S) /\ Head(s) \in S /\ Head(s) = s[1] /\ 1 \in DOMAIN s
           /\ DOMAIN s = 1..Len(s) /\ DOMAIN Tail(s) = 1..(Len(s) - 1)
           /\ \A i \in DOMAIN Tail(s) : i + 1 \in DOMAIN s /\ Tail(s)[i] = s[i + 1]
           /\ \A i \in DOMAIN s : i # 1 => i - 1 \in DOMAIN Tail(s) /\ Tail(s)[i - 1] = s[i]
    OBVIOUS

\* Append keeps what there is, and puts e behind it.
LEMMA AppendTo ==
    ASSUME NEW S, NEW s \in Seq(S), NEW e \in S
    PROVE  /\ Append(s, e) \in Seq(S)
           /\ DOMAIN s = 1..Len(s) /\ Len(s) \in Nat /\ DOMAIN Append(s, e) = 1..(Len(s) + 1)
           /\ \A i \in DOMAIN s : Append(s, e)[i] = s[i]
           /\ Append(s, e)[Len(s) + 1] = e
    OBVIOUS

\* Taking the head of a queue leaves the later operations, in order.
LEMMA RisingTail ==
    ASSUME NEW s \in Seq(Op \cup {Stop}), s # <<>>, Rising(s)
    PROVE  /\ Tail(s) \in Seq(Op \cup {Stop}) /\ Head(s) \in Op \cup {Stop}
           /\ Rising(Tail(s)) /\ Members(Tail(s)) = Members(s) \ {Head(s)}
           /\ \A o \in Members(Tail(s)) : Head(s) \in Op => Head(s) < o
           /\ Head(s) \in Op => Head(s) \in Members(s)
<1> DEFINE t == Tail(s)
<1>1. /\ t \in Seq(Op \cup {Stop}) /\ Head(s) \in Op \cup {Stop} /\ Head(s) = s[1]
      /\ 1 \in DOMAIN s /\ DOMAIN s = 1..Len(s) /\ DOMAIN t = 1..(Len(s) - 1)
      /\ \A i \in DOMAIN t : i + 1 \in DOMAIN s /\ t[i] = s[i + 1]
      /\ \A i \in DOMAIN s : i # 1 => i - 1 \in DOMAIN t /\ t[i - 1] = s[i]
  BY TailOf
<1> HIDE DEF t
<1>2. DOMAIN s \subseteq Nat /\ DOMAIN t \subseteq Nat /\ \A i \in DOMAIN t : 1 < i + 1
  BY <1>1
<1>3. Rising(t)
  BY <1>1, <1>2 DEF Rising
<1>4. \A o \in Members(t) : o \in Members(s) /\ (Head(s) \in Op => Head(s) < o)
  BY <1>1, <1>2 DEF Rising, Members
<1>5. \A o \in Op : ~(o < o)
  BY StreamConstants
<1>6. \A o \in Members(s) : o # Head(s) => o \in Members(t)
  BY <1>1 DEF Members
<1>7. Members(t) = Members(s) \ {Head(s)}
  BY <1>4, <1>5, <1>6 DEF Members
<1>8. Head(s) \in Op => Head(s) \in Members(s)
  BY <1>1 DEF Members
<1> QED
  BY <1>1, <1>3, <1>4, <1>7, <1>8 DEF t

\* A queue stays in order when the latest operation, or the end, is put.
LEMMA RisingAppend ==
    ASSUME NEW s \in Seq(Op \cup {Stop}), NEW e \in Op \cup {Stop}, Rising(s),
           e \in Op => \A o \in Members(s) : o < e
    PROVE  /\ Append(s, e) \in Seq(Op \cup {Stop}) /\ Rising(Append(s, e))
           /\ Members(Append(s, e)) = Members(s) \cup ({e} \cap Op)
<1> DEFINE t == Append(s, e)
<1>1. /\ t \in Seq(Op \cup {Stop})
      /\ DOMAIN s = 1..Len(s) /\ Len(s) \in Nat /\ DOMAIN t = 1..(Len(s) + 1)
      /\ \A i \in DOMAIN s : t[i] = s[i]
      /\ t[Len(s) + 1] = e
  BY AppendTo
<1> HIDE DEF t
<1>2. \A i \in DOMAIN t : i \in DOMAIN s \/ i = Len(s) + 1
  BY <1>1
<1>3. \A i \in DOMAIN s : i \in DOMAIN t /\ ~(Len(s) + 1 < i)
  BY <1>1
<1>4. Members(t) = Members(s) \cup ({e} \cap Op)
  BY <1>1, <1>2, <1>3 DEF Members
<1>5. Rising(t)
  <2> SUFFICES ASSUME NEW i \in DOMAIN t, NEW j \in DOMAIN t, i < j, t[i] \in Op, t[j] \in Op
               PROVE  t[i] < t[j]
    BY DEF Rising
  <2>1. i \in DOMAIN s
    BY <1>1
  <2>2. CASE j \in DOMAIN s
    BY <1>1, <2>1, <2>2 DEF Rising
  <2>3. CASE j = Len(s) + 1
    BY <1>1, <2>1, <2>3 DEF Members
  <2> QED
    BY <1>2, <2>2, <2>3
<1> QED
  BY <1>1, <1>4, <1>5 DEF t

-----------------------------------------------------------------------------
(* The sandbox side: clients, calls and the service *)

\* A step that changes neither calls nor the service, and starts no call.
LEMMA RemoteStill ==
    ASSUME RemoteInv, UNCHANGED <<client, call, requests, ran, effects>>,
           \A q \in StreamObj : Calls(q)' = Calls(q)
    PROVE  RemoteInv'
<1>1. RemoteTyped'
  BY DEF RemoteInv, RemoteTyped
<1>2. OneAtATime'
  BY DEF RemoteInv, OneAtATime
<1>3. Traffic'
  BY DEF RemoteInv, Traffic, Reached, Bound, Place
<1>4. OnceOnly'
  BY DEF RemoteInv, OnceOnly, Occurs, Place
<1>5. InTurn'
  BY DEF RemoteInv, InTurn, Occurs, Place
<1> QED
  BY <1>1, <1>2, <1>3, <1>4, <1>5 DEF RemoteInv

\* Clients keep their type and containers, and the container of an open one for good.
LEMMA ClientsLast ==
    ASSUME RemoteTyped, ClientNext
    PROVE  /\ client' \in [Client -> ClientRec]
           /\ \A x \in Client : client'[x].st \in Placed => client'[x].at \in Container
           /\ \A x \in Client : client[x].st \in Lasting =>
                client'[x].st \in Lasting /\ client'[x].at = client[x].at
           /\ UNCHANGED <<call, requests, ran, effects>>
<1> DEFINE Good ==
        /\ client' \in [Client -> ClientRec]
        /\ \A x \in Client : client'[x].st \in Placed => client'[x].at \in Container
        /\ \A x \in Client : client[x].st \in Lasting =>
             client'[x].st \in Lasting /\ client'[x].at = client[x].at
<1>0. UNCHANGED <<call, requests, ran, effects>>
  BY DEF ClientNext, AOpenRemote, CreateOnce, CreateTransient, BindRejected, CreateFails, OpenCoro,
         ACloseRemote, CloseCoro, RecordRemote, TouchRemote, ReattachRemote, Attach, DeleteRemote,
         calls, locks
<1> SUFFICES Good
  BY <1>0
<1>1. PICK x \in Client :
        \/ \E vol \in BOOLEAN : AOpenRemote(x, vol)
        \/ CreateOnce(x) \/ CreateTransient(x) \/ BindRejected(x) \/ CreateFails(x) \/ OpenCoro(x)
        \/ ACloseRemote(x) \/ CloseCoro(x) \/ RecordRemote(x) \/ TouchRemote(x)
        \/ \E k \in Container : ReattachRemote(x, k) \/ DeleteRemote(k)
  BY DEF ClientNext
<1>2. client[x] \in ClientRec /\ client \in [Client -> ClientRec]
  BY DEF RemoteTyped
\* Each step changes one client.
<1>3. ASSUME NEW rec \in ClientRec, client' = [client EXCEPT ![x] = rec],
             rec.st \in Placed => rec.at \in Container,
             client[x].st \in Lasting => rec.st \in Lasting /\ rec.at = client[x].at
      PROVE  Good
  BY <1>2, <1>3 DEF RemoteTyped
<1>4. Failed \in ClientRec /\ Failed.st \notin Placed
  BY OpenSandboxConstants DEF Failed, ClientRec, ClientStates, Placed, Lasting
<1>5. \A k \in Container : /\ Opened(k) \in ClientRec /\ Opened(k).at = k
                           /\ [Opened(k) EXCEPT !.st = "attached"] \in ClientRec
                           /\ [Opened(k) EXCEPT !.st = "attached"].at = k
  BY DEF Opened, ClientRec, ClientStates
<1>6. ASSUME NEW vol \in BOOLEAN, AOpenRemote(x, vol)
      PROVE  Good
  BY <1>3, <1>6 DEF AOpenRemote, ClientRec, ClientStates, Placed, Lasting
<1>7. CASE CreateOnce(x)
  <2>1. PICK k : k = CHOOSE c \in Fresh : TRUE
    OBVIOUS
  <2>2. k \in Container
    BY <1>7, <2>1 DEF CreateOnce, Fresh
  <2>3. PICK st : st = IF client[x].vol THEN "made" ELSE "bare"
    OBVIOUS
  <2>4. client' = [client EXCEPT ![x] = [client[x] EXCEPT !.at = k, !.st = st]]
    BY <1>7, <1>2, <2>1, <2>3 DEF CreateOnce
  <2> QED
    BY <1>2, <1>3, <1>7, <2>2, <2>3, <2>4 DEF CreateOnce, ClientRec, ClientStates, Lasting
<1>8. CASE CreateTransient(x)
  <2>1. CASE client' = [client EXCEPT ![x] = Failed]
    BY <1>3, <1>4, <1>8, <2>1 DEF CreateTransient, Lasting
  <2>2. CASE client' = [client EXCEPT ![x].try = @ + 1]
    <3>1. client' = [client EXCEPT ![x] = [client[x] EXCEPT !.try = @ + 1]]
      BY <2>2
    <3>2. client[x].st = "creating"
      BY <1>8 DEF CreateTransient
    <3>3. [client[x] EXCEPT !.try = @ + 1] \in ClientRec
      BY <1>2 DEF ClientRec
    <3> HIDE DEF Good
    <3> QED
      BY <1>2, <1>3, <3>1, <3>2, <3>3 DEF Lasting, Placed, ClientRec
  <2>3. client' = IF client[x].try >= CreateAttempts THEN [client EXCEPT ![x] = Failed]
                  ELSE [client EXCEPT ![x].try = @ + 1]
    BY <1>8 DEF CreateTransient
  <2> HIDE DEF Good
  <2> QED
    BY <2>1, <2>2, <2>3
<1>9. CASE BindRejected(x)
  <2>1. CASE client' = [client EXCEPT ![x] = Failed]
    BY <1>3, <1>4, <1>9, <2>1 DEF BindRejected, Lasting
  <2>2. CASE client' = [client EXCEPT ![x].vol = FALSE, ![x].try = 1]
    <3>1. client' = [client EXCEPT ![x] = [client[x] EXCEPT !.vol = FALSE, !.try = 1]]
      BY <2>2
    <3> QED
      BY <1>2, <1>3, <1>9, <3>1 DEF BindRejected, Lasting, Placed, ClientRec
  <2> QED
    BY <1>9, <2>1, <2>2 DEF BindRejected
<1>10. CASE CreateFails(x)
  BY <1>3, <1>4, <1>10 DEF CreateFails, Lasting
<1>11. CASE OpenCoro(x)
  <2>1. CASE client' = [client EXCEPT ![x] = Failed] /\ client[x].st = "bare"
    BY <1>3, <1>4, <2>1 DEF Lasting
  <2>2. CASE /\ client' = [client EXCEPT ![x] = Opened(client[x].at)]
             /\ client[x].st = "made" \/ client[x].st = "bare"
    <3>1. client[x].at \in Container
      BY <2>2 DEF RemoteTyped, Placed
    <3> QED
      BY <1>3, <1>5, <2>2, <3>1 DEF Lasting
  <2> QED
    BY <1>11, <2>1, <2>2 DEF OpenCoro
<1>12. CASE ACloseRemote(x)
  <2>1. PICK st : st = IF client[x].at \in natives THEN "killing" ELSE "closed"
    OBVIOUS
  <2>2. client' = [client EXCEPT ![x] = [client[x] EXCEPT !.st = st]]
    BY <1>12, <2>1 DEF ACloseRemote
  <2> QED
    BY <1>2, <1>3, <1>12, <2>1, <2>2
    DEF ACloseRemote, RemoteTyped, ClientRec, ClientStates, Lasting, Placed
<1>13. CASE CloseCoro(x)
  <2>1. client' = [client EXCEPT ![x] = [client[x] EXCEPT !.st = "closed"]]
    BY <1>13 DEF CloseCoro
  <2> QED
    BY <1>2, <1>3, <1>13, <2>1
    DEF CloseCoro, RemoteTyped, ClientRec, ClientStates, Lasting, Placed
<1>14. CASE UNCHANGED client
  BY <1>14 DEF RemoteTyped
<1>15. CASE TouchRemote(x)
  <2>1. /\ client[x].st \in {"attached", "touching"}
        /\ \/ client' = [client EXCEPT ![x].st = "touching"]
           \/ client' = [client EXCEPT ![x].st = "open"]
    BY <1>15 DEF TouchRemote
  <2>2. \/ client' = [client EXCEPT ![x] = [client[x] EXCEPT !.st = "touching"]]
        \/ client' = [client EXCEPT ![x] = [client[x] EXCEPT !.st = "open"]]
    BY <2>1
  <2> QED
    BY <1>2, <1>3, <2>1, <2>2
    DEF RemoteTyped, ClientRec, ClientStates, Lasting, Placed
<1>16. ASSUME NEW k \in Container, ReattachRemote(x, k)
       PROVE  Good
  BY <1>3, <1>5, <1>16 DEF ReattachRemote, Attach, Lasting
<1> QED
  <2>1. (RecordRemote(x) \/ \E k \in Container : DeleteRemote(k)) => UNCHANGED client
    BY DEF RecordRemote, DeleteRemote
  <2> HIDE DEF Good
  <2> QED
    BY <1>1, <1>6, <1>7, <1>8, <1>9, <1>10, <1>11, <1>12, <1>13, <1>14, <1>15, <1>16, <2>1

\* Opening, attaching and closing: no call that has been sent loses its container.
LEMMA ClientStep ==
    ASSUME RemoteInv, ClientNext, UNCHANGED job
    PROVE  RemoteInv'
<1>1. /\ client' \in [Client -> ClientRec]
      /\ \A x \in Client : client'[x].st \in Placed => client'[x].at \in Container
      /\ \A x \in Client : client[x].st \in Lasting =>
           client'[x].st \in Lasting /\ client'[x].at = client[x].at
      /\ UNCHANGED <<call, requests, ran, effects>>
  BY ClientsLast DEF RemoteInv
<1>2. RemoteTyped'
  BY <1>1 DEF RemoteInv, RemoteTyped
<1>3. \A c \in Op : Bound(c) => Bound(c)' /\ Place(c)' = Place(c)
  BY <1>1 DEF Bound, Place
<1>4. \A q : Calls(q)' = Calls(q)
  BY DEF Calls
<1>5. OneAtATime'
  BY <1>1, <1>4 DEF RemoteInv, OneAtATime
<1>6. \A c \in Op : call[c].out = "ok" => Place(c)' = Place(c)
  BY <1>3 DEF RemoteInv, Traffic
<1>7. \A c, k : Occurs(c, k)' = Occurs(c, k)
  BY <1>1 DEF Occurs
<1>8. Traffic'
  BY <1>1, <1>3, <1>4 DEF RemoteInv, Traffic, Reached
<1>9. OnceOnly'
  <2> SUFFICES ASSUME NEW c \in Op, (call[c].kind \in Once)'
               PROVE  (/\ call[c].st \in {"waits", "sent"} => call[c].try = 1
                       /\ \A r \in requests : r.op = c => r.try = 1 /\ Occurs(c, r.at) = {}
                       /\ \A r \in ran : r.op = c => \E i \in Nat : Occurs(c, r.at) = {i}
                       /\ call[c].out = "ok" => \E i \in Nat : Occurs(c, Place(c)) = {i})'
    BY DEF OnceOnly
  <2>1. /\ call[c].st \in {"waits", "sent"} => call[c].try = 1
        /\ \A r \in requests : r.op = c => r.try = 1 /\ Occurs(c, r.at) = {}
        /\ \A r \in ran : r.op = c => \E i \in Nat : Occurs(c, r.at) = {i}
        /\ call[c].out = "ok" => \E i \in Nat : Occurs(c, Place(c)) = {i}
    BY <1>1 DEF RemoteInv, OnceOnly
  <2>2. call[c].out = "ok" => Occurs(c, Place(c))' = Occurs(c, Place(c))
    BY <1>1, <1>6 DEF Occurs
  <2>3. (call[c].out = "ok" => \E i \in Nat : Occurs(c, Place(c)) = {i})'
    BY <1>1, <2>1, <2>2
  <2>4. (\A r \in requests : r.op = c => r.try = 1 /\ Occurs(c, r.at) = {})'
    BY <1>1, <2>1 DEF Occurs
  <2>5. (\A r \in ran : r.op = c => \E i \in Nat : Occurs(c, r.at) = {i})'
    BY <1>1, <2>1 DEF Occurs
  <2> QED
    BY <1>1, <2>1, <2>3, <2>4, <2>5
<1>10. InTurn'
  BY <1>1, <1>4, <1>6, <1>7 DEF RemoteInv, InTurn, Calls
<1> QED
  BY <1>2, <1>5, <1>8, <1>9, <1>10 DEF RemoteInv

\* Call c goes on to record rec: it is handed over, waits, is sent, sent again or ends.
\* It starts after the earlier ones; what must not run twice is sent once; and it has
\* succeeded only if its request has run.
Moves(c, rec) ==
    /\ call' = [call EXCEPT ![c] = rec] /\ rec.kind = call[c].kind /\ rec.x = call[c].x
    /\ \A q \in StreamObj : Calls(q)' = Calls(q)
    /\ UNCHANGED <<client, effects>> /\ ran' \subseteq ran
    /\ call[c].st # "done" /\ rec.st # "new" /\ (rec.st = "waits" => ~Reached(c))
    /\ \A q \in StreamObj : c \in Calls(q) => \A a \in Calls(q) : a < c => call[a].st = "done"
    /\ rec.st \in {"waits", "sent"} => Bound(c) /\ (rec.kind \in Once => rec.try = 1)
    /\ \/ requests' \subseteq requests
       \/ /\ requests' \subseteq requests \cup {Sent(c, rec.x, rec.try)}
          /\ rec.st = "sent" /\ (rec.kind \in Once => ~Reached(c))
    /\ rec.out = "ok" => rec.st = "done" /\ Request(c) \in ran

\* What a call does, in one place: every step of a call is an instance.
LEMMA CallMoves ==
    ASSUME RemoteInv, NEW c \in Op, NEW rec \in CallRec, Moves(c, rec)
    PROVE  RemoteInv'
<1>1. call' \in [Op -> CallRec] /\ call \in [Op -> CallRec] /\ call'[c] = rec
      /\ \A d \in Op : d # c => call'[d] = call[d]
  BY DEF RemoteInv, RemoteTyped, Moves
<1>2. RemoteTyped'
  BY <1>1 DEF RemoteInv, RemoteTyped, Moves
<1>3. \A d \in Op : /\ call'[d].kind = call[d].kind /\ call'[d].x = call[d].x
                    /\ Place(d)' = Place(d) /\ (Bound(d)' <=> Bound(d))
  BY <1>1 DEF Moves, Place, Bound
<1>4. \A d \in Op : Reached(d) => Reached(d)'
  BY <1>1 DEF RemoteInv, RemoteTyped, Moves, Reached, CallRec, CallStates
<1>5. \A d, k : Occurs(d, k)' = Occurs(d, k)
  BY DEF Moves, Occurs
<1>6. \A q \in StreamObj : Calls(q)' = Calls(q) /\ Calls(q) \subseteq Op
  BY DEF Moves, Calls
<1>7. \A d \in Op, k \in Container : ~Reached(d) => Occurs(d, k) = {}
  BY DEF RemoteInv, Traffic, Occurs
<1>8. OneAtATime'
  <2> SUFFICES ASSUME NEW q \in StreamObj, NEW a \in Calls(q), NEW b \in Calls(q),
                      a < b, call'[b].st # "new"
               PROVE  call'[a].st = "done"
    BY <1>6 DEF OneAtATime
  <2>1. call[a].st = "done"
    BY <1>1, <1>6 DEF RemoteInv, OneAtATime, Moves
  <2> QED
    BY <1>1, <1>6, <2>1 DEF Moves
\* The request that may be new.
<1>9. PICK n : n = Sent(c, rec.x, rec.try)
  OBVIOUS
<1>10. n.op = c /\ n.at = Place(c) /\ n.try = rec.try
  BY <1>9 DEF Sent, Place, Moves
<1>11. rec.st = "sent" => /\ n \in [op : Op, try : Nat, at : Container]
                          /\ Reached(c)' /\ Bound(c) /\ n.at \in Container
  <2>1. rec.st = "sent" => Bound(c) /\ Place(c) \in Container
    BY DEF Moves, RemoteInv, RemoteTyped, Bound, Place, Placed, Lasting
  <2>2. rec.try \in Nat
    BY DEF CallRec
  <2>3. rec.st = "sent" => Reached(c)'
    BY <1>1 DEF Reached
  <2> QED
    BY <1>9, <1>10, <2>1, <2>2, <2>3 DEF Sent
<1>12. Traffic'
  <2>1. \A q \in StreamObj : \A d \in Calls(q)' : call'[d].x = BoxOf[q]
    BY <1>3, <1>6 DEF RemoteInv, Traffic
  <2>2. \A r \in requests \cup ran : /\ r \in [op : Op, try : Nat, at : Container] /\ r.op \in Op
                                     /\ Reached(r.op)' /\ Bound(r.op)' /\ r.at = Place(r.op)'
    BY <1>3, <1>4 DEF RemoteInv, Traffic
  <2>3. rec.st = "sent" => /\ n \in [op : Op, try : Nat, at : Container]
                           /\ Reached(n.op)' /\ Bound(n.op)' /\ n.at = Place(n.op)'
    BY <1>3, <1>10, <1>11
  <2>4. \A r \in requests' \cup ran' : r \in requests \cup ran \/ (r = n /\ rec.st = "sent")
    BY <1>9 DEF Moves
  <2>5. \A r \in (requests \cup ran)' :
          /\ r \in [op : Op, try : Nat, at : Container]
          /\ Reached(r.op)' /\ Bound(r.op)' /\ r.at = Place(r.op)'
    BY <2>2, <2>3, <2>4
  <2>6. (\A k \in Container : \A i \in DOMAIN effects[k] : Reached(effects[k][i]))'
    <3>1. \A k \in Container : \A i \in DOMAIN effects[k] : effects[k][i] \in Op
      BY DEF RemoteInv, RemoteTyped
    <3>2. \A k \in Container : \A i \in DOMAIN effects[k] : Reached(effects[k][i])
      BY DEF RemoteInv, Traffic
    <3>3. effects' = effects
      BY DEF Moves
    <3> QED
      BY <1>4, <3>1, <3>2, <3>3 DEF Reached
  <2>7. \A d \in Op : call'[d].st \in {"waits", "sent"} \/ call'[d].out = "ok" => Bound(d)'
    <3> SUFFICES ASSUME NEW d \in Op, call'[d].st \in {"waits", "sent"} \/ call'[d].out = "ok"
                 PROVE  Bound(d)
      BY <1>3
    <3>1. CASE d # c
      BY <1>1, <3>1 DEF RemoteInv, Traffic
    <3>2. CASE d = c /\ rec.st \in {"waits", "sent"}
      BY <3>2 DEF Moves
    <3>3. CASE d = c /\ rec.out = "ok"
      BY <3>3 DEF Moves, RemoteInv, Traffic, Request, Sent
    <3> QED
      BY <1>1, <3>1, <3>2, <3>3
  <2>8. \A d \in Op : call'[d].out = "ok" => call'[d].st = "done"
    BY <1>1 DEF RemoteInv, Traffic, Moves
  <2> QED
    BY <2>1, <2>5, <2>6, <2>7, <2>8 DEF Traffic
<1>13. OnceOnly'
  <2> SUFFICES ASSUME NEW d \in Op, call[d].kind \in Once
               PROVE  /\ call'[d].st \in {"waits", "sent"} => call'[d].try = 1
                      /\ \A r \in requests' : r.op = d => r.try = 1 /\ Occurs(d, r.at) = {}
                      /\ \A r \in ran' : r.op = d => \E i \in Nat : Occurs(d, r.at) = {i}
                      /\ call'[d].out = "ok" => \E i \in Nat : Occurs(d, Place(d)) = {i}
    BY <1>3, <1>5 DEF OnceOnly
  <2>1. /\ call[d].st \in {"waits", "sent"} => call[d].try = 1
        /\ \A r \in requests : r.op = d => r.try = 1 /\ Occurs(d, r.at) = {}
        /\ \A r \in ran : r.op = d => \E i \in Nat : Occurs(d, r.at) = {i}
        /\ call[d].out = "ok" => \E i \in Nat : Occurs(d, Place(d)) = {i}
    BY DEF RemoteInv, OnceOnly
  <2>2. call'[d].st \in {"waits", "sent"} => call'[d].try = 1
    BY <1>1, <2>1 DEF Moves
  <2>3. \A r \in requests' : r.op = d => r.try = 1 /\ Occurs(d, r.at) = {}
    <3> SUFFICES ASSUME NEW r \in requests', r.op = d, r \notin requests
                 PROVE  r.try = 1 /\ Occurs(d, r.at) = {}
      BY <2>1
    <3>1. r = n /\ d = c /\ rec.st = "sent" /\ ~Reached(c)
      BY <1>9, <1>10 DEF Moves
    <3> QED
      BY <1>7, <1>10, <1>11, <3>1 DEF Moves
  <2>4. \A r \in ran' : r.op = d => \E i \in Nat : Occurs(d, r.at) = {i}
    BY <2>1 DEF Moves
  <2>5. call'[d].out = "ok" => \E i \in Nat : Occurs(d, Place(d)) = {i}
    <3>1. CASE d # c
      BY <1>1, <2>1, <3>1
    <3>2. CASE d = c
      BY <1>1, <2>1, <3>2 DEF Moves, Request, Sent, Place
    <3> QED
      BY <3>1, <3>2
  <2> QED
    BY <2>2, <2>3, <2>4, <2>5
<1>14. InTurn'
  <2> SUFFICES ASSUME NEW q \in StreamObj, NEW a \in Calls(q), NEW b \in Calls(q), a < b,
                      call[a].kind \in Once, call'[a].out = "ok",
                      NEW m \in Occurs(a, Place(a)), NEW l \in Occurs(b, Place(a))
               PROVE  m < l
    BY <1>3, <1>5, <1>6 DEF InTurn
  <2>1. CASE a # c
    BY <1>1, <1>6, <2>1 DEF RemoteInv, InTurn
  <2>2. CASE a = c
    <3>1. call[b].st = "new" /\ ~Reached(b)
      BY <2>2 DEF RemoteInv, OneAtATime, Moves, Reached
    <3>2. Request(c) \in ran /\ Request(c).at = Place(a)
      BY <1>1, <2>2 DEF Moves, Request, Sent, Place
    <3>3. Place(a) \in Container
      BY <3>2 DEF RemoteInv, Traffic
    <3> QED
      BY <1>6, <1>7, <3>1, <3>3
  <2> QED
    BY <2>1, <2>2
<1> QED
  BY <1>2, <1>8, <1>12, <1>13, <1>14 DEF RemoteInv

\* The service runs a request: one effect more, at the end.
LEMMA OneMore ==
    ASSUME effects \in [Container -> Seq(Op)], NEW k \in Container, NEW c \in Op,
           effects' = [effects EXCEPT ![k] = Append(@, c)]
    PROVE  /\ effects' \in [Container -> Seq(Op)] /\ Len(effects[k]) \in Nat
           /\ \A d \in Op, l \in Container : d # c \/ l # k => Occurs(d, l)' = Occurs(d, l)
           /\ Occurs(c, k)' = Occurs(c, k) \cup {Len(effects[k]) + 1}
           /\ \A d : \A m \in Occurs(d, k) : m < Len(effects[k]) + 1 /\ m \in Nat
           /\ \A l \in Container : \A i \in DOMAIN effects'[l] :
                \/ i \in DOMAIN effects[l] /\ effects'[l][i] = effects[l][i]
                \/ effects'[l][i] = c
<1> DEFINE s == effects[k]
           t == Append(s, c)
<1>1. /\ t \in Seq(Op) /\ DOMAIN s = 1..Len(s) /\ Len(s) \in Nat /\ DOMAIN t = 1..(Len(s) + 1)
      /\ \A i \in DOMAIN s : t[i] = s[i]
      /\ t[Len(s) + 1] = c
  BY AppendTo
<1>2. effects'[k] = t /\ \A l \in Container : l # k => effects'[l] = effects[l]
  OBVIOUS
<1> HIDE DEF t, s
<1>3. \A i \in DOMAIN t : i \in DOMAIN s \/ i = Len(s) + 1
  BY <1>1
<1>4. \A i \in DOMAIN s : i \in DOMAIN t /\ i < Len(s) + 1 /\ i \in Nat
  BY <1>1
<1> QED
  BY <1>1, <1>2, <1>3, <1>4 DEF Occurs, s

\* A request runs: of what must not run twice it is the first, and of its stream the last.
LEMMA ServeStep ==
    ASSUME RemoteInv, NEW r \in requests, Serve(r), UNCHANGED job
    PROVE  RemoteInv'
<1>1. /\ UNCHANGED <<client, call>> /\ requests' = requests \ {r} /\ ran' \subseteq ran \cup {r}
      /\ IF Changes(call[r.op].kind) THEN effects' = [effects EXCEPT ![r.at] = Append(@, r.op)]
         ELSE UNCHANGED effects
  BY DEF Serve
<1>2. /\ r \in [op : Op, try : Nat, at : Container] /\ r.op \in Op /\ r.at \in Container
      /\ Reached(r.op) /\ Bound(r.op) /\ r.at = Place(r.op)
  BY DEF RemoteInv, Traffic
<1>3. effects \in [Container -> Seq(Op)]
  BY DEF RemoteInv, RemoteTyped
<1>4. /\ effects' \in [Container -> Seq(Op)]
      /\ \A l \in Container : \A i \in DOMAIN effects'[l] :
           \/ i \in DOMAIN effects[l] /\ effects'[l][i] = effects[l][i]
           \/ effects'[l][i] = r.op
  BY <1>1, <1>2, <1>3, OneMore
<1>5. \A d \in Op, l \in Container : d # r.op \/ l # r.at => Occurs(d, l)' = Occurs(d, l)
  <2>1. CASE Changes(call[r.op].kind)
    BY <1>1, <1>2, <1>3, <2>1, OneMore
  <2>2. CASE ~Changes(call[r.op].kind)
    BY <1>1, <2>2 DEF Occurs
  <2> QED
    BY <2>1, <2>2
\* What is new comes after everything there is.
<1>6. PICK e \in Nat : /\ Occurs(r.op, r.at)' \subseteq Occurs(r.op, r.at) \cup {e}
                       /\ call[r.op].kind \in Once => e \in Occurs(r.op, r.at)'
                       /\ \A d : \A m \in Occurs(d, r.at) : m < e
  <2>1. CASE Changes(call[r.op].kind)
    <3>1. /\ Len(effects[r.at]) \in Nat
          /\ Occurs(r.op, r.at)' = Occurs(r.op, r.at) \cup {Len(effects[r.at]) + 1}
          /\ \A d : \A m \in Occurs(d, r.at) : m < Len(effects[r.at]) + 1
      BY <1>1, <1>2, <1>3, <2>1, OneMore
    <3>2. Len(effects[r.at]) + 1 \in Nat
      BY <3>1
    <3> QED
      BY <3>1, <3>2, Zenon
  <2>2. CASE ~Changes(call[r.op].kind)
    <3>1. Occurs(r.op, r.at)' = Occurs(r.op, r.at)
      BY <1>1, <2>2 DEF Occurs
    <3>2. call[r.op].kind \notin Once
      BY <2>2 DEF Changes, Once
    <3>3. /\ Len(effects[r.at]) + 1 \in Nat
          /\ \A d : \A m \in Occurs(d, r.at) : m < Len(effects[r.at]) + 1
      BY <1>2, <1>3 DEF Occurs
    <3> QED
      BY <3>1, <3>2, <3>3
  <2> QED
    BY <2>1, <2>2
<1>7. RemoteTyped'
  BY <1>1, <1>4 DEF RemoteInv, RemoteTyped
<1>8. \A q : Calls(q)' = Calls(q) /\ Calls(q) \subseteq Op
  BY DEF Calls
<1>9. OneAtATime'
  BY <1>1, <1>8 DEF RemoteInv, OneAtATime
<1>10. \A d \in Op : /\ Place(d)' = Place(d) /\ (Bound(d)' <=> Bound(d))
                     /\ (Reached(d)' <=> Reached(d))
  BY <1>1 DEF Place, Bound, Reached
<1>11. Traffic'
  <2>1. \A q \in StreamObj : \A d \in Calls(q)' : call'[d].x = BoxOf[q]
    BY <1>1, <1>8 DEF RemoteInv, Traffic
  <2>2. \A n \in requests \cup ran : /\ n \in [op : Op, try : Nat, at : Container] /\ n.op \in Op
                                     /\ Reached(n.op)' /\ Bound(n.op)' /\ n.at = Place(n.op)'
    BY <1>10 DEF RemoteInv, Traffic
  <2>3. \A n \in (requests \cup ran)' : n \in requests \cup ran
    BY <1>1
  <2>4. (\A k \in Container : \A i \in DOMAIN effects[k] : Reached(effects[k][i]))'
    <3>1. \A k \in Container : \A i \in DOMAIN effects[k] : Reached(effects[k][i])
      BY DEF RemoteInv, Traffic
    <3> QED
      BY <1>1, <1>2, <1>4, <3>1 DEF Reached
  <2>5. \A d \in Op : call'[d].st \in {"waits", "sent"} \/ call'[d].out = "ok" => Bound(d)'
    BY <1>1, <1>10 DEF RemoteInv, Traffic
  <2>6. \A d \in Op : call'[d].out = "ok" => call'[d].st = "done"
    BY <1>1 DEF RemoteInv, Traffic
  <2> QED
    BY <2>1, <2>2, <2>3, <2>4, <2>5, <2>6 DEF Traffic
<1>12. \A d \in Op : call[d].out = "ok" => Place(d) \in Container
  BY DEF RemoteInv, RemoteTyped, Traffic, Bound, Place, Placed
<1>13. OnceOnly'
  <2> SUFFICES ASSUME NEW d \in Op, call[d].kind \in Once
               PROVE  (/\ call[d].st \in {"waits", "sent"} => call[d].try = 1
                       /\ \A n \in requests : n.op = d => n.try = 1 /\ Occurs(d, n.at) = {}
                       /\ \A n \in ran : n.op = d => \E i \in Nat : Occurs(d, n.at) = {i}
                       /\ call[d].out = "ok" => \E i \in Nat : Occurs(d, Place(d)) = {i})'
    BY <1>1 DEF OnceOnly
  <2>1. /\ call[d].st \in {"waits", "sent"} => call[d].try = 1
        /\ \A n \in requests : n.op = d => n.try = 1 /\ Occurs(d, n.at) = {}
        /\ \A n \in ran : n.op = d => \E i \in Nat : Occurs(d, n.at) = {i}
        /\ call[d].out = "ok" => \E i \in Nat : Occurs(d, Place(d)) = {i}
    BY DEF RemoteInv, OnceOnly
  <2>2. \A n \in requests \cup ran : /\ n \in [op : Op, try : Nat, at : Container]
                                     /\ n.at \in Container /\ n.at = Place(n.op)
    BY DEF RemoteInv, Traffic
  <2>3. CASE d # r.op
    <3>1. \A l \in Container : Occurs(d, l)' = Occurs(d, l)
      BY <1>5, <2>3
    <3>2. (\A n \in requests : n.op = d => n.try = 1 /\ Occurs(d, n.at) = {})'
      BY <1>1, <2>1, <2>2, <3>1
    <3>3. (\A n \in ran : n.op = d => \E i \in Nat : Occurs(d, n.at) = {i})'
      BY <1>1, <2>1, <2>2, <2>3, <3>1
    <3>4. call[d].out = "ok" => Occurs(d, Place(d))' = Occurs(d, Place(d))
      BY <1>10, <1>12, <3>1
    <3>5. (call[d].out = "ok" => \E i \in Nat : Occurs(d, Place(d)) = {i})'
      BY <1>1, <2>1, <3>4
    <3> QED
      BY <1>1, <2>1, <3>2, <3>3, <3>5
  <2>4. CASE d = r.op
    <3>1. Occurs(d, r.at) = {} /\ r.try = 1 /\ Occurs(d, r.at)' = {e}
      BY <1>6, <2>1, <2>4
    <3>2. \A n \in requests \ {r} : n.op # d
      BY <1>2, <2>1, <2>2, <2>4
    <3>3. \A n \in ran : n.op # d
      BY <1>2, <2>1, <2>2, <2>4, <3>1
    <3>4. call[d].out # "ok"
      BY <1>2, <2>1, <2>4, <3>1
    <3>5. (\A n \in ran : n.op = d => \E i \in Nat : Occurs(d, n.at) = {i})'
      BY <1>1, <2>4, <3>1, <3>3
    <3> QED
      BY <1>1, <2>1, <3>2, <3>4, <3>5
  <2> QED
    BY <2>3, <2>4
<1>14. InTurn'
  <2> SUFFICES ASSUME NEW q \in StreamObj, NEW a \in Calls(q), NEW b \in Calls(q), a < b,
                      call[a].kind \in Once, call[a].out = "ok",
                      NEW m \in Occurs(a, Place(a))', NEW l \in Occurs(b, Place(a))'
               PROVE  m < l
    BY <1>1, <1>8 DEF InTurn
  <2>1. a \in Op /\ b \in Op /\ Place(a) \in Container /\ Place(a)' = Place(a)
    BY <1>8, <1>10, <1>12
  <2>2. PICK k \in Container : k = Place(a)
    BY <2>1
  <2>3. m \in Occurs(a, k)' /\ l \in Occurs(b, k)'
    BY <2>1, <2>2
  <2>4. \A i \in Occurs(a, k), j \in Occurs(b, k) : i < j
    BY <2>2 DEF RemoteInv, InTurn
  <2>5. a # r.op
    <3>1. Occurs(a, Place(a)) # {}
      BY <2>1 DEF RemoteInv, OnceOnly
    <3>2. r.op = a => Occurs(a, Place(a)) = {}
      BY <1>2 DEF RemoteInv, OnceOnly
    <3> QED
      BY <3>1, <3>2
  <2>6. m \in Occurs(a, k)
    BY <1>5, <2>1, <2>3, <2>5
  <2>7. CASE b # r.op \/ k # r.at
    BY <1>5, <2>1, <2>3, <2>4, <2>6, <2>7
  <2>8. CASE b = r.op /\ k = r.at
    BY <1>6, <2>3, <2>4, <2>6, <2>8
  <2> QED
    BY <2>7, <2>8
<1> QED
  BY <1>7, <1>9, <1>11, <1>13, <1>14 DEF RemoteInv

\* Calls go forward: one that is new or done stays so.
Forward == \A c \in Op : /\ call[c].st = "new" => call'[c].st = "new"
                         /\ call[c].st = "done" => call'[c].st = "done"

\* TakeLock, Answer and TimeOut move one call.
LEMMA CallStep ==
    ASSUME RemoteInv, CallNext, UNCHANGED job
    PROVE  RemoteInv' /\ Forward
<1>1. PICK c \in Op : TakeLock(c) \/ Answer(c) \/ TimeOut(c)
  BY DEF CallNext
<1>2. call[c] \in CallRec /\ call \in [Op -> CallRec]
  BY DEF RemoteInv, RemoteTyped
<1>3. \A q \in StreamObj : Calls(q)' = Calls(q)
  BY DEF Calls
<1>4. \A q \in StreamObj : c \in Calls(q) /\ call[c].st \in {"waits", "sent"} =>
        \A a \in Calls(q) : a < c => call[a].st = "done"
  BY DEF RemoteInv, OneAtATime
<1>5. call[c].st \in {"waits", "sent"} =>
        Bound(c) /\ call[c].out # "ok" /\ (call[c].kind \in Once => call[c].try = 1)
  BY DEF RemoteInv, Traffic, OnceOnly
<1>6. UNCHANGED <<client, effects>> /\ ran' \subseteq ran
  BY <1>1 DEF TakeLock, Answer, TimeOut
<1>7. call[c].st \in {"waits", "sent"}
  BY <1>1 DEF TakeLock, Answer, TimeOut
<1>8. ASSUME NEW rec \in CallRec, Moves(c, rec)
      PROVE  RemoteInv' /\ Forward
  <2>1. RemoteInv'
    BY <1>8, CallMoves
  <2>2. Forward
    BY <1>2, <1>7, <1>8 DEF Moves, Forward
  <2> QED
    BY <2>1, <2>2
<1>9. CASE TakeLock(c)
  <2>1. PICK rec : rec = [call[c] EXCEPT !.st = "sent"]
    OBVIOUS
  <2>2. /\ rec \in CallRec /\ rec.kind = call[c].kind /\ rec.x = call[c].x /\ rec.st = "sent"
        /\ rec.try = call[c].try /\ rec.out = call[c].out
    BY <1>2, <2>1 DEF CallRec, CallStates
  <2>3. call' = [call EXCEPT ![c] = rec] /\ requests' = requests \cup {Sent(c, rec.x, rec.try)}
    BY <1>2, <1>9, <2>1, <2>2 DEF TakeLock, Request
  <2>4. call[c].st = "waits" /\ ~Reached(c)
    BY <1>9 DEF TakeLock, Reached
  <2> QED
    BY <1>3, <1>4, <1>5, <1>6, <1>8, <2>2, <2>3, <2>4 DEF Moves
\* Answers and timeouts end the call or send it again.
<1>10. ASSUME NEW out \in {"ok", "failed", "timeout"}, Finish(c, out), call[c].st = "sent",
              requests' \subseteq requests, out = "ok" => Request(c) \in ran
       PROVE  RemoteInv' /\ Forward
  <2>1. PICK rec : rec = [call[c] EXCEPT !.st = "done", !.out = out]
    OBVIOUS
  <2>2. /\ rec \in CallRec /\ rec.kind = call[c].kind /\ rec.x = call[c].x /\ rec.st = "done"
        /\ rec.out = out
    BY <1>2, <2>1 DEF CallRec, CallStates
  <2>3. call' = [call EXCEPT ![c] = rec]
    BY <1>2, <1>10, <2>1 DEF Finish
  <2> QED
    BY <1>3, <1>4, <1>5, <1>6, <1>8, <1>10, <2>2, <2>3 DEF Moves
<1>11. ASSUME NEW pending, pending \subseteq requests, TryAgain(c, pending), call[c].st = "sent",
              call[c].kind \notin Once
       PROVE  RemoteInv' /\ Forward
  <2>1. PICK rec : rec = [call[c] EXCEPT !.try = @ + 1]
    OBVIOUS
  <2>2. /\ rec \in CallRec /\ rec.kind = call[c].kind /\ rec.x = call[c].x /\ rec.st = "sent"
        /\ rec.try = call[c].try + 1 /\ rec.out = call[c].out
    BY <1>2, <1>11, <2>1 DEF CallRec, CallStates
  <2>3. call' = [call EXCEPT ![c] = rec] /\ requests' \subseteq requests \cup {Sent(c, rec.x, rec.try)}
    BY <1>2, <1>11, <2>1, <2>2 DEF TryAgain
  <2> QED
    BY <1>3, <1>4, <1>5, <1>6, <1>8, <1>11, <2>2, <2>3 DEF Moves
<1>12. CASE Answer(c)
  <2>1. call[c].st = "sent"
    BY <1>12 DEF Answer
  <2>2. PICK r : r = Request(c)
    OBVIOUS
  <2>3. \/ r \in ran /\ Finish(c, "ok") /\ UNCHANGED requests
        \/ call[c].kind \in CommandKinds /\ CommandStdoutRerunAllowed(call[c].kind) /\ TryAgain(c, requests)
        \/ call[c].kind = "code" /\ TryAgain(c, requests \ {r})
        \/ Finish(c, "failed") /\ requests' \in {requests, requests \ {r}}
    BY <1>12, <2>2 DEF Answer
  <2>4. CommandStdoutRerunAllowed(call[c].kind) => call[c].kind \notin Once
    BY DEF CommandStdoutRerunAllowed, Once
  <2>5. call[c].kind = "code" => call[c].kind \notin Once
    BY DEF Once
  <2> QED
    BY <1>10, <1>11, <2>1, <2>2, <2>3, <2>4, <2>5
<1>13. CASE TimeOut(c)
  <2>1. call[c].kind = "code" => call[c].kind \notin Once
    BY DEF Once
  <2>2. \/ call[c].kind = "code" /\ TryAgain(c, requests)
        \/ Finish(c, "timeout") /\ UNCHANGED requests
    BY <1>13 DEF TimeOut
  <2>3. call[c].st = "sent"
    BY <1>13 DEF TimeOut
  <2> QED
    BY <1>10, <1>11, <2>1, <2>2, <2>3
<1> QED
  BY <1>1, <1>9, <1>12, <1>13

-----------------------------------------------------------------------------
(* The stream side: callers and workers *)

\* The order of queues does not depend on how far a call is, once it has started.
LEMMA QueueStill ==
    ASSUME QueueInv, Forward, UNCHANGED streamOnly
    PROVE  QueueInv'
<1>1. UNCHANGED <<queue, putting, worker, current, job, taken>>
  BY DEF streamOnly
<1>2. QueueTyped'
  BY <1>1 DEF QueueInv, QueueTyped
<1>3. \A q : Calls(q)' = Calls(q) /\ Pending(q)' = Pending(q) /\ Queued(q)' = Queued(q)
             /\ Calls(q) \subseteq Op /\ Pending(q) \subseteq Op
  BY <1>1 DEF Calls, Pending, Queued, Members
<1>4. Numbered'
  <2>1. \A o \in Op : Used(o)' <=> Used(o)
    BY <1>1 DEF Used
  <2>3. (\A q \in StreamObj : Rising(queue[q]) /\ Rising(taken[q]))'
    BY <1>1 DEF QueueInv, Numbered, Rising
  <2>4. (\A q \in StreamObj : \A o \in Pending(q) : Used(o) /\ job[o].q = q /\ call[o].st = "new")'
    BY <1>1, <1>3, <2>1 DEF QueueInv, Numbered, Forward
  <2>5. (\A q \in StreamObj : putting[q] \in Op => \A o \in Queued(q) : o < putting[q])'
    BY <1>1, <1>3 DEF QueueInv, Numbered
  <2>6. (\A o, p \in Op : Used(o) /\ p < o => Used(p))'
    BY <2>1 DEF QueueInv, Numbered
  <2>7. (\A o \in Op : ~Used(o) => call[o].st = "new")'
    BY <2>1 DEF QueueInv, Numbered, Forward
  <2>8. (\A q \in StreamObj : \A i \in DOMAIN taken[q] : taken[q][i] \in Calls(q))'
    BY <1>1, <1>3 DEF QueueInv, Numbered
  <2> QED
    BY <2>3, <2>4, <2>5, <2>6, <2>7, <2>8 DEF Numbered
<1>5. Handed'
  BY <1>1, <1>3 DEF QueueInv, Handed, Forward
<1> QED
  BY <1>2, <1>4, <1>5 DEF QueueInv

\* Steps of clients, calls and the service.
LEMMA RemoteStep ==
    ASSUME RemoteInv, QueueInv, RemoteNext
    PROVE  RemoteInv' /\ QueueInv'
<1>1. UNCHANGED streamOnly /\ UNCHANGED job
  BY DEF RemoteNext, streamOnly
<1>2. CASE ClientNext
  <2>1. UNCHANGED call
    BY <1>2, ClientsLast DEF RemoteInv
  <2>2. Forward
    BY <2>1 DEF Forward
  <2> QED
    BY <1>1, <1>2, <2>2, ClientStep, QueueStill
<1>3. CASE CallNext
  BY <1>1, <1>3, CallStep, QueueStill
<1>4. CASE ServiceNext
  <2>1. PICK r \in requests : Serve(r)
    BY <1>4 DEF ServiceNext
  <2>2. Forward
    BY <2>1 DEF Serve, Forward
  <2> QED
    BY <1>1, <2>1, <2>2, ServeStep, QueueStill
<1> QED
  BY <1>2, <1>3, <1>4 DEF RemoteNext

\* A new operation comes after all others.
LEMMA NewIsLast ==
    ASSUME QueueInv, NEW o \in Op, New(o)
    PROVE  /\ ~Used(o) /\ call[o].st = "new" /\ \A p \in Op : Used(p) => p < o
           /\ \A q \in StreamObj : o \notin Pending(q) /\ \A p \in Pending(q) : p < o
           /\ \A q : o \notin Calls(q)
<1>1. ~Used(o) /\ call[o].st = "new"
  BY DEF QueueInv, Numbered, New, Used
<1>2. \A p \in Op : Used(p) => p < o
  <2> SUFFICES ASSUME NEW p \in Op, Used(p)
               PROVE  p < o
    OBVIOUS
  <2>1. p \in Nat /\ o \in Nat /\ p # o
    BY <1>1, StreamConstants
  <2>2. ~(o < p)
    BY <1>1 DEF QueueInv, Numbered
  <2> QED
    BY <2>1, <2>2
<1>3. \A q \in StreamObj : \A p \in Pending(q) : p \in Op /\ Used(p)
  BY DEF QueueInv, Numbered, Pending, Queued, Members
<1>4. \A q : o \notin Calls(q)
  BY <1>1 DEF Calls, Used
<1> QED
  BY <1>1, <1>2, <1>3, <1>4

\* A put under the lock of the stream: the operation is the last of what is pending.
LEMMA EnqueueAtEnd ==
    ASSUME QueueInv, NEW q \in StreamObj, NEW e \in Op \cup {Stop}, Enqueue(q, e),
           e \in Op => New(e)
    PROVE  /\ queue' \in [StreamObj -> Seq(Op \cup {Stop})]
           /\ putting' \in [StreamObj -> Op \cup {Stop, NoOp}]
           /\ Rising(queue'[q]) /\ Pending(q)' = Pending(q) \cup ({e} \cap Op)
           /\ putting'[q] \in Op => \A o \in Queued(q)' : o < putting'[q]
           /\ \A p \in StreamObj : p # q => queue'[p] = queue[p] /\ putting'[p] = putting[p]
<1>1. /\ queue \in [StreamObj -> Seq(Op \cup {Stop})] /\ queue[q] \in Seq(Op \cup {Stop})
      /\ putting \in [StreamObj -> Op \cup {Stop, NoOp}]
      /\ Rising(queue[q]) /\ putting[q] = NoOp
  BY DEF QueueInv, QueueTyped, Numbered, Enqueue
<1>2. e \in Op => \A o \in Members(queue[q]) : o < e
  BY NewIsLast DEF Pending, Queued
<1>3. Pending(q) = Members(queue[q])
  BY <1>1, OpenSandboxConstants DEF Pending, Queued
<1>4. CASE queue' = [queue EXCEPT ![q] = Append(@, e)] /\ UNCHANGED putting
  <2>1. queue'[q] = Append(queue[q], e)
    BY <1>1, <1>4
  <2>2. /\ Append(queue[q], e) \in Seq(Op \cup {Stop}) /\ Rising(Append(queue[q], e))
        /\ Members(Append(queue[q], e)) = Members(queue[q]) \cup ({e} \cap Op)
    BY <1>1, <1>2, RisingAppend
  <2>3. Queued(q)' = Members(queue[q]) \cup ({e} \cap Op)
    BY <2>1, <2>2 DEF Queued, Members
  <2>4. Pending(q)' = Pending(q) \cup ({e} \cap Op)
    BY <1>1, <1>3, <1>4, <2>3, OpenSandboxConstants DEF Pending
  <2>5. putting'[q] \notin Op
    BY <1>1, <1>4, OpenSandboxConstants
  <2> QED
    BY <1>1, <1>4, <2>1, <2>2, <2>4, <2>5
<1>5. CASE putting' = [putting EXCEPT ![q] = e] /\ UNCHANGED queue
  <2>1. putting'[q] = e /\ Queued(q)' = Members(queue[q])
    BY <1>1, <1>5 DEF Queued, Members
  <2>2. Pending(q)' = Pending(q) \cup ({e} \cap Op)
    BY <1>3, <2>1 DEF Pending
  <2> QED
    BY <1>1, <1>2, <1>5, <2>1, <2>2
<1> QED
  BY <1>4, <1>5 DEF Enqueue

\* A stream accepts operation e, or the end of the stream.
Accepts(q, e) ==
    /\ Enqueue(q, e)
    /\ \/ e = Stop /\ UNCHANGED <<job, taken>>
       \/ /\ e \in Op /\ New(e)
          /\ \E k \in JobKinds \ {"none"}, v \in Op \cup {NoOp} :
               /\ As(e, k, q, v)
               /\ UNCHANGED taken \/ (k = "call" /\ taken' = [taken EXCEPT ![q] = Append(@, e)])
    /\ \A c \in Op : call'[c].st = call[c].st
    /\ UNCHANGED <<worker, current>>

\* What a stream accepts is the last it has taken, and is pending.
LEMMA Accepted ==
    ASSUME QueueInv, NEW q \in StreamObj, NEW e \in Op \cup {Stop}, Accepts(q, e)
    PROVE  QueueInv' /\ \A p \in Op : p # e => job'[p] = job[p]
<1>1. e \in Op => New(e)
  BY StreamConstants DEF Accepts
<1>2. /\ queue' \in [StreamObj -> Seq(Op \cup {Stop})]
      /\ putting' \in [StreamObj -> Op \cup {Stop, NoOp}]
      /\ Rising(queue'[q]) /\ Pending(q)' = Pending(q) \cup ({e} \cap Op)
      /\ putting'[q] \in Op => \A o \in Queued(q)' : o < putting'[q]
      /\ \A p \in StreamObj : p # q => queue'[p] = queue[p] /\ putting'[p] = putting[p]
  BY <1>1, EnqueueAtEnd DEF Accepts
<1>3. /\ job' \in [Op -> JobRec] /\ \A p \in Op : p # e => job'[p] = job[p]
      /\ e \in Op => Used(e)' /\ job'[e].q = q
      /\ \/ UNCHANGED taken
         \/ e \in Op /\ job'[e].k = "call" /\ taken' = [taken EXCEPT ![q] = Append(@, e)]
  <2>1. CASE e = Stop
    BY <2>1, StreamConstants DEF QueueInv, QueueTyped, Accepts
  <2>2. CASE e \in Op
    <3>1. PICK k \in JobKinds \ {"none"}, v \in Op \cup {NoOp} :
            /\ As(e, k, q, v)
            /\ UNCHANGED taken \/ (k = "call" /\ taken' = [taken EXCEPT ![q] = Append(@, e)])
      BY <2>2, StreamConstants DEF Accepts
    <3>2. job \in [Op -> JobRec] /\ [k |-> k, q |-> q, event |-> v] \in JobRec
      BY DEF QueueInv, QueueTyped, JobRec
    <3> QED
      BY <2>2, <3>1, <3>2 DEF As, Used
  <2> QED
    BY <2>1, <2>2
<1>4. \A p \in Op : Used(p) => Used(p)'
  BY <1>3 DEF Used
<1>5. \A p \in Op : Used(p)' => Used(p) \/ p = e
  BY <1>3 DEF Used
<1>6. e \in Op => ~Used(e) /\ call[e].st = "new" /\ \A p \in Op : Used(p) => p < e
  BY <1>1, NewIsLast
<1>7. /\ taken' \in [StreamObj -> Seq(Op)] /\ (\A p \in StreamObj : Rising(taken[p]))'
      /\ (\A p \in StreamObj : \A i \in DOMAIN taken[p] : taken[p][i] \in Calls(p))'
  <2>1. /\ taken \in [StreamObj -> Seq(Op)] /\ taken[q] \in Seq(Op)
        /\ \A p \in StreamObj : /\ Rising(taken[p])
                                /\ \A i \in DOMAIN taken[p] : taken[p][i] \in Calls(p) /\ taken[p][i] \in Op
    BY DEF QueueInv, QueueTyped, Numbered, Calls
  <2> \A p \in StreamObj : Calls(p) \subseteq Calls(p)'
    BY <1>3, <1>6 DEF Calls, Used
  <2>2. CASE UNCHANGED taken
    <3>1. (\A p \in StreamObj : Rising(taken[p]))'
      BY <2>1, <2>2 DEF Rising
    <3>2. (\A p \in StreamObj : \A i \in DOMAIN taken[p] : taken[p][i] \in Calls(p))'
      BY <2>1, <2>2
    <3> QED
      BY <2>1, <2>2, <3>1, <3>2
  <2>3. CASE e \in Op /\ job'[e].k = "call" /\ taken' = [taken EXCEPT ![q] = Append(@, e)]
    <3> DEFINE s == taken[q]
               t == Append(s, e)
    <3>1. /\ t \in Seq(Op) /\ DOMAIN s = 1..Len(s) /\ Len(s) \in Nat
          /\ DOMAIN t = 1..(Len(s) + 1) /\ (\A i \in DOMAIN s : t[i] = s[i]) /\ t[Len(s) + 1] = e
      BY <2>1, <2>3, AppendTo
    <3>2. taken'[q] = t /\ \A p \in StreamObj : p # q => taken'[p] = taken[p]
      BY <2>1, <2>3
    <3>3. Rising(s) /\ \A i \in DOMAIN s : s[i] \in Calls(q) /\ Used(s[i]) /\ s[i] \in Op
      BY <2>1 DEF Calls, Used
    <3>4. taken' \in [StreamObj -> Seq(Op)]
      BY <2>1, <2>3, <3>1
    <3> HIDE DEF s, t
    <3>5. \A i \in DOMAIN t : i \in DOMAIN s \/ i = Len(s) + 1
      BY <3>1
    <3>6. Rising(t)
      <4> SUFFICES ASSUME NEW i \in DOMAIN t, NEW j \in DOMAIN t, i < j
                   PROVE  t[i] < t[j]
        BY DEF Rising
      <4>1. i \in DOMAIN s
        BY <3>1
      <4> QED
        BY <1>6, <2>3, <3>1, <3>3, <3>5, <4>1 DEF Rising
    <3>7. \A i \in DOMAIN t : t[i] \in Calls(q)'
      BY <1>3, <2>3, <3>1, <3>3, <3>5 DEF Calls
    <3>8. (\A p \in StreamObj : Rising(taken[p]))'
      BY <2>1, <3>2, <3>6 DEF Rising
    <3>9. (\A p \in StreamObj : \A i \in DOMAIN taken[p] : taken[p][i] \in Calls(p))'
      BY <2>1, <3>2, <3>7
    <3> QED
      BY <3>4, <3>8, <3>9
  <2> QED
    BY <1>3, <2>2, <2>3
<1>8. QueueTyped'
  BY <1>2, <1>3, <1>7 DEF QueueInv, QueueTyped, Accepts
<1>9. \A p \in StreamObj : p # q => Pending(p)' = Pending(p) /\ Queued(p)' = Queued(p)
  BY <1>2 DEF Pending, Queued, Members
<1>10. \A p : Pending(p) \subseteq Op
  BY DEF Pending, Queued, Members
<1>11. Numbered'
  <2>1. (\A o, p \in Op : Used(o) /\ p < o => Used(p))'
    <3> SUFFICES ASSUME NEW o \in Op, NEW p \in Op, Used(o)', p < o
                 PROVE  Used(p)'
      OBVIOUS
    <3>1. CASE Used(o)
      BY <1>4, <3>1 DEF QueueInv, Numbered
    <3>2. CASE o = e
      BY <1>1, <1>4, <3>2 DEF New, Used
    <3> QED
      BY <1>5, <3>1, <3>2
  <2>2. (\A p \in StreamObj : Rising(queue[p]))'
    BY <1>2 DEF QueueInv, Numbered, Rising
  <2>3. (\A p \in StreamObj : putting[p] \in Op => \A o \in Queued(p) : o < putting[p])'
    BY <1>2, <1>9 DEF QueueInv, Numbered
  <2>4. (\A p \in StreamObj : \A o \in Pending(p) : Used(o) /\ job[o].q = p /\ call[o].st = "new")'
    <3> SUFFICES ASSUME NEW p \in StreamObj, NEW o \in Pending(p)'
                 PROVE  Used(o)' /\ job'[o].q = p /\ call'[o].st = "new"
      OBVIOUS
    <3>1. o \in Pending(p) \/ (p = q /\ o = e /\ e \in Op)
      BY <1>2, <1>9
    <3>2. CASE o \in Pending(p)
      <4>1. o \in Op /\ Used(o) /\ job[o].q = p /\ call[o].st = "new"
        BY <1>10, <3>2 DEF QueueInv, Numbered
      <4>2. o # e
        BY <1>6, <4>1
      <4> QED
        BY <1>3, <1>4, <4>1, <4>2 DEF Accepts
    <3>3. CASE p = q /\ o = e /\ e \in Op
      BY <1>3, <1>6, <3>3 DEF Accepts
    <3> QED
      BY <3>1, <3>2, <3>3
  <2>5. (\A o \in Op : ~Used(o) => call[o].st = "new")'
    BY <1>4 DEF QueueInv, Numbered, Accepts
  <2> QED
    BY <1>7, <2>1, <2>2, <2>3, <2>4, <2>5 DEF Numbered
<1>12. Handed'
  <2> SUFFICES ASSUME NEW p \in StreamObj, worker[p] \notin {"failing", "dead"},
                      NEW a \in Calls(p)', a \notin Pending(p)'
               PROVE  call[a].st = "done" \/ (worker[p] = "busy" /\ current[p] = a)
    BY DEF Handed, Accepts, Calls
  <2>1. a \in Op /\ Used(a)'
    BY DEF Calls, Used
  <2>2. a # e /\ a \notin Pending(p)
    <3>1. a = e => p = q
      BY <1>3, <2>1 DEF Calls
    <3> QED
      BY <1>2, <1>9, <2>1, <3>1
  <2>3. a \in Calls(p)
    BY <1>3, <2>1, <2>2 DEF Calls
  <2> QED
    BY <2>2, <2>3 DEF QueueInv, Handed
<1> QED
  BY <1>3, <1>8, <1>11, <1>12 DEF QueueInv

\* A submitted call is new: nothing on the side of the service is about it.
LEMMA SubmitStep ==
    ASSUME RemoteInv, QueueInv, NEW q \in StreamObj, NEW o \in Op, NEW kind \in CallKinds,
           NEW p \in Path, SubmitCall(q, o, kind, p)
    PROVE  RemoteInv' /\ QueueInv'
<1>1. /\ New(o) /\ Enqueue(q, o) /\ As(o, "call", q, NoOp)
      /\ call' = [call EXCEPT ![o].kind = kind, ![o].path = p, ![o].x = BoxOf[q]]
      /\ taken' = [taken EXCEPT ![q] = Append(@, o)]
      /\ UNCHANGED <<client, requests, ran, effects, worker, current>>
  BY DEF SubmitCall
<1>2. PICK rec : rec = [call[o] EXCEPT !.kind = kind, !.path = p, !.x = BoxOf[q]]
  OBVIOUS
<1>3. call \in [Op -> CallRec] /\ call[o] \in CallRec
  BY DEF RemoteInv, RemoteTyped
<1>4. rec \in CallRec /\ rec.st = call[o].st /\ rec.out = call[o].out /\ rec.x = BoxOf[q]
  BY <1>2, <1>3, StreamConstants DEF CallRec
<1>5. call' = [call EXCEPT ![o] = rec]
  BY <1>1, <1>2, <1>3
<1>6. call' \in [Op -> CallRec] /\ call'[o] = rec /\ \A d \in Op : d # o => call'[d] = call[d]
  BY <1>3, <1>4, <1>5
<1>7. \A d \in Op : call'[d].st = call[d].st
  BY <1>4, <1>6
<1>8. "call" \in JobKinds \ {"none"} /\ NoOp \in Op \cup {NoOp}
  BY DEF JobKinds
<1>9. Accepts(q, o)
  BY <1>1, <1>7, <1>8 DEF Accepts
<1>10. QueueInv' /\ \A d \in Op : d # o => job'[d] = job[d]
  BY <1>9, Accepted
<1>11. call[o].st = "new" /\ ~Used(o) /\ (\A d \in Op : Used(d) => d < o) /\ \A l : o \notin Calls(l)
  BY <1>1, NewIsLast
<1>12. ~Reached(o) /\ call[o].out # "ok"
  BY <1>11 DEF Reached, RemoteInv, Traffic
<1>13. /\ \A l \in StreamObj : Calls(l)' \subseteq Calls(l) \cup {o} /\ Calls(l) \subseteq Op
       /\ \A l \in StreamObj : o \in Calls(l)' => l = q
  <2>1. job'[o] = [k |-> "call", q |-> q, event |-> NoOp]
    BY <1>1 DEF As, QueueInv, QueueTyped
  <2> QED
    BY <1>10, <2>1 DEF Calls
<1>14. \A d \in Op : d # o => /\ Place(d)' = Place(d) /\ (Bound(d)' <=> Bound(d))
                              /\ (Reached(d)' <=> Reached(d))
  BY <1>1, <1>6 DEF Place, Bound, Reached
<1>15. \A r \in requests \cup ran : r.op # o
  BY <1>12 DEF RemoteInv, Traffic
<1>16. RemoteTyped'
  BY <1>1, <1>6 DEF RemoteInv, RemoteTyped
<1>17. OneAtATime'
  <2> SUFFICES ASSUME NEW l \in StreamObj, NEW a \in Calls(l)', NEW b \in Calls(l)', a < b,
                      call'[b].st # "new"
               PROVE  call'[a].st = "done"
    BY DEF OneAtATime
  <2>1. b # o /\ b \in Calls(l) /\ b \in Op
    BY <1>7, <1>11, <1>13
  <2>2. b < o /\ b \in Nat /\ o \in Nat
    BY <1>11, <2>1, StreamConstants DEF Calls, Used
  <2>3. a \in Calls(l) /\ a \in Op
    BY <1>13, <2>2
  <2> QED
    BY <1>7, <2>1, <2>3 DEF RemoteInv, OneAtATime
<1>18. Traffic'
  <2>1. (\A l \in StreamObj : \A c \in Calls(l) : call[c].x = BoxOf[l])'
    BY <1>4, <1>6, <1>13 DEF RemoteInv, Traffic
  <2>2. (\A r \in requests \cup ran :
           /\ r \in [op : Op, try : Nat, at : Container]
           /\ Reached(r.op) /\ Bound(r.op) /\ r.at = Place(r.op))'
    <3>1. \A r \in requests \cup ran :
            /\ r \in [op : Op, try : Nat, at : Container] /\ r.op \in Op
            /\ Reached(r.op) /\ Bound(r.op) /\ r.at = Place(r.op)
      BY DEF RemoteInv, Traffic
    <3> QED
      BY <1>1, <1>14, <1>15, <3>1
  <2>3. (\A k \in Container : \A i \in DOMAIN effects[k] : Reached(effects[k][i]))'
    <3>1. \A k \in Container : \A i \in DOMAIN effects[k] :
            effects[k][i] \in Op /\ Reached(effects[k][i])
      BY DEF RemoteInv, RemoteTyped, Traffic
    <3> QED
      BY <1>1, <1>7, <3>1 DEF Reached
  <2>4. (\A c \in Op : call[c].st \in {"waits", "sent"} \/ call[c].out = "ok" => Bound(c))'
    BY <1>4, <1>6, <1>11, <1>12, <1>14 DEF RemoteInv, Traffic
  <2>5. (\A c \in Op : call[c].out = "ok" => call[c].st = "done")'
    BY <1>4, <1>6 DEF RemoteInv, Traffic
  <2> QED
    BY <2>1, <2>2, <2>3, <2>4, <2>5 DEF Traffic
<1>19. OnceOnly'
  <2> SUFFICES ASSUME NEW c \in Op, (call[c].kind \in Once)'
               PROVE  (/\ call[c].st \in {"waits", "sent"} => call[c].try = 1
                       /\ \A r \in requests : r.op = c => r.try = 1 /\ Occurs(c, r.at) = {}
                       /\ \A r \in ran : r.op = c => \E i \in Nat : Occurs(c, r.at) = {i}
                       /\ call[c].out = "ok" => \E i \in Nat : Occurs(c, Place(c)) = {i})'
    BY DEF OnceOnly
  <2>1. CASE c = o
    BY <1>1, <1>4, <1>6, <1>11, <1>12, <1>15, <2>1
  <2>2. CASE c # o
    <3>1. /\ call[c].st \in {"waits", "sent"} => call[c].try = 1
          /\ \A r \in requests : r.op = c => r.try = 1 /\ Occurs(c, r.at) = {}
          /\ \A r \in ran : r.op = c => \E i \in Nat : Occurs(c, r.at) = {i}
          /\ call[c].out = "ok" => \E i \in Nat : Occurs(c, Place(c)) = {i}
      BY <1>6, <2>2 DEF RemoteInv, OnceOnly
    <3>2. (\A r \in requests : r.op = c => r.try = 1 /\ Occurs(c, r.at) = {})'
      BY <1>1, <3>1 DEF Occurs
    <3>3. (\A r \in ran : r.op = c => \E i \in Nat : Occurs(c, r.at) = {i})'
      BY <1>1, <3>1 DEF Occurs
    <3>4. Occurs(c, Place(c))' = Occurs(c, Place(c))
      BY <1>1, <1>14, <2>2 DEF Occurs
    <3> QED
      BY <1>6, <2>2, <3>1, <3>2, <3>3, <3>4
  <2> QED
    BY <2>1, <2>2
<1>20. InTurn'
  <2> SUFFICES ASSUME NEW l \in StreamObj, NEW a \in Calls(l)', NEW b \in Calls(l)', a < b,
                      (call[a].kind \in Once)', (call[a].out = "ok")',
                      NEW m \in Occurs(a, Place(a))', NEW n \in Occurs(b, Place(a))'
               PROVE  m < n
    BY DEF InTurn
  <2>1. a # o /\ a \in Calls(l) /\ a \in Op
    BY <1>4, <1>6, <1>12, <1>13
  <2>2. call[a].kind \in Once /\ call[a].out = "ok" /\ Place(a)' = Place(a) /\ Bound(a)
    BY <1>6, <1>14, <2>1 DEF RemoteInv, Traffic
  <2>3. PICK k \in Container : k = Place(a)
    BY <2>1, <2>2 DEF RemoteInv, RemoteTyped, Bound, Place, Placed
  <2>4. m \in Occurs(a, k) /\ n \in Occurs(b, k)
    BY <1>1, <2>2, <2>3 DEF Occurs
  <2>5. b # o
    <3>1. \A i \in DOMAIN effects[k] : effects[k][i] # o
      BY <1>12, <2>3 DEF RemoteInv, Traffic
    <3> QED
      BY <2>4, <3>1 DEF Occurs
  <2>6. b \in Calls(l)
    BY <1>13, <2>5
  <2> QED
    BY <2>1, <2>2, <2>3, <2>4, <2>6 DEF RemoteInv, InTurn
<1> QED
  BY <1>10, <1>16, <1>17, <1>18, <1>19, <1>20 DEF RemoteInv

\* Steps of the callers.
LEMMA CallerStep ==
    ASSUME RemoteInv, QueueInv, CallerNext
    PROVE  RemoteInv' /\ QueueInv'
<1>1. PICK q \in StreamObj :
        \/ EnterStream(q) \/ ExitStream(q)
        \/ \E o \in Op :
             \/ \E kind \in CallKinds, p \in Path : SubmitCall(q, o, kind, p)
             \/ \E k \in {"sync", "record"} : SubmitMark(q, o, k)
             \/ \E e \in Op : WaitEvent(q, o, e)
  BY DEF CallerNext
<1>2. CASE EnterStream(q)
  <2>1. /\ worker[q] = "none" /\ worker' = [worker EXCEPT ![q] = "idle"]
        /\ UNCHANGED <<client, call, requests, ran, effects, queue, putting, current, job, taken>>
    BY <1>2 DEF EnterStream, openSandboxVars
  <2>2. RemoteInv'
    BY <2>1, RemoteStill DEF Calls
  <2>3. QueueTyped'
    BY <2>1 DEF QueueInv, QueueTyped, WorkerStates
  <2>4. Numbered'
    BY <2>1 DEF QueueInv, Numbered, Used, Rising, Pending, Queued, Members, Calls
  <2>5. \A l : Calls(l)' = Calls(l) /\ Pending(l)' = Pending(l)
    BY <2>1 DEF Calls, Pending, Queued, Members
  <2>6. Handed'
    <3>1. worker \in [StreamObj -> WorkerStates]
      BY DEF QueueInv, QueueTyped
    <3> QED
      BY <2>1, <2>5, <3>1 DEF QueueInv, Handed
  <2> QED
    BY <2>2, <2>3, <2>4, <2>6 DEF QueueInv
<1>3. ASSUME NEW e \in Op \cup {Stop}, Accepts(q, e), UNCHANGED openSandboxVars,
             e \in Op => job'[e].k # "call"
      PROVE  RemoteInv' /\ QueueInv'
  <2>1. QueueInv' /\ \A p \in Op : p # e => job'[p] = job[p]
    BY <1>3, Accepted
  <2>2. e \in Op => \A l : e \notin Calls(l)
    BY <1>3, NewIsLast, StreamConstants DEF Accepts
  <2>3. \A l \in StreamObj : Calls(l)' = Calls(l)
    BY <1>3, <2>1, <2>2 DEF Calls
  <2>4. RemoteInv'
    BY <1>3, <2>3, RemoteStill DEF openSandboxVars
  <2> QED
    BY <2>1, <2>4
<1>4. CASE ExitStream(q)
  <2>1. Accepts(q, Stop) /\ UNCHANGED openSandboxVars
    BY <1>4 DEF ExitStream, Accepts, openSandboxVars
  <2> QED
    BY <1>3, <2>1, StreamConstants
<1>5. ASSUME NEW o \in Op, NEW k \in {"sync", "record", "wait"}, NEW v \in Op \cup {NoOp},
             New(o), Enqueue(q, o), As(o, k, q, v),
             UNCHANGED <<openSandboxVars, worker, current, taken>>
      PROVE  RemoteInv' /\ QueueInv'
  <2>1. k \in JobKinds \ {"none"} /\ v \in Op \cup {NoOp}
    BY <1>5 DEF JobKinds
  <2>2. Accepts(q, o)
    <3>1. \E l \in JobKinds \ {"none"}, w \in Op \cup {NoOp} :
            /\ As(o, l, q, w)
            /\ UNCHANGED taken \/ (l = "call" /\ taken' = [taken EXCEPT ![q] = Append(@, o)])
      <4> k \in JobKinds \ {"none"} /\ v \in Op \cup {NoOp}
        BY <2>1
      <4> WITNESS k \in JobKinds \ {"none"}, v \in Op \cup {NoOp}
      <4> QED
        BY <1>5 DEF As
    <3>2. UNCHANGED call
      BY <1>5 DEF openSandboxVars
    <3> QED
      BY <1>5, <3>1, <3>2 DEF Accepts
  <2>3. job'[o].k # "call"
    BY <1>5 DEF As, QueueInv, QueueTyped
  <2> QED
    BY <1>3, <1>5, <2>2, <2>3
<1>6. ASSUME NEW o \in Op, NEW k \in {"sync", "record"}, SubmitMark(q, o, k)
      PROVE  RemoteInv' /\ QueueInv'
  BY <1>5, <1>6 DEF SubmitMark
<1>7. ASSUME NEW o \in Op, NEW e \in Op, WaitEvent(q, o, e)
      PROVE  RemoteInv' /\ QueueInv'
  BY <1>5, <1>7 DEF WaitEvent
<1> QED
  BY <1>1, <1>2, <1>4, <1>6, <1>7, SubmitStep

\* A caller that waited for room puts what it was putting.
LEMMA PutStep ==
    ASSUME RemoteInv, QueueInv, NEW q \in StreamObj, Put(q)
    PROVE  RemoteInv' /\ QueueInv'
<1>1. /\ queue' = [queue EXCEPT ![q] = Append(@, putting[q])]
      /\ putting' = [putting EXCEPT ![q] = NoOp] /\ putting[q] # NoOp
      /\ UNCHANGED <<client, call, requests, ran, effects, worker, current, job, taken>>
  BY DEF Put, openSandboxVars
<1>2. RemoteInv'
  BY <1>1, RemoteStill DEF Calls
<1>3. /\ queue \in [StreamObj -> Seq(Op \cup {Stop})] /\ queue[q] \in Seq(Op \cup {Stop})
      /\ putting \in [StreamObj -> Op \cup {Stop, NoOp}] /\ putting[q] \in Op \cup {Stop}
      /\ Rising(queue[q])
      /\ putting[q] \in Op => \A o \in Members(queue[q]) : o < putting[q]
  BY <1>1 DEF QueueInv, QueueTyped, Numbered, Queued
<1>4. PICK e \in Op \cup {Stop} : e = putting[q]
  BY <1>3
<1>5. /\ Append(queue[q], e) \in Seq(Op \cup {Stop}) /\ Rising(Append(queue[q], e))
      /\ Members(Append(queue[q], e)) = Members(queue[q]) \cup ({e} \cap Op)
  BY <1>3, <1>4, RisingAppend
<1>6. /\ queue'[q] = Append(queue[q], e) /\ putting'[q] = NoOp
      /\ \A p \in StreamObj : p # q => queue'[p] = queue[p] /\ putting'[p] = putting[p]
  BY <1>1, <1>3, <1>4
<1>7. Queued(q)' = Members(queue[q]) \cup ({e} \cap Op)
  BY <1>5, <1>6 DEF Queued, Members
<1>8. Pending(q)' = Pending(q)
  BY <1>4, <1>6, <1>7, OpenSandboxConstants DEF Pending, Queued
<1>9. \A p \in StreamObj : Pending(p)' = Pending(p) /\ (p # q => Queued(p)' = Queued(p))
  BY <1>6, <1>8 DEF Pending, Queued, Members
<1>10. QueueTyped'
  BY <1>1, <1>3, <1>4, <1>5 DEF QueueInv, QueueTyped
<1>11. Numbered'
  <2>1. (\A p \in StreamObj : Rising(queue[p]) /\ Rising(taken[p]))'
    BY <1>1, <1>5, <1>6 DEF QueueInv, Numbered, Rising
  <2>2. (\A p \in StreamObj : putting[p] \in Op => \A o \in Queued(p) : o < putting[p])'
    BY <1>6, <1>9, OpenSandboxConstants DEF QueueInv, Numbered
  <2>3. (\A p \in StreamObj : \A o \in Pending(p) : Used(o) /\ job[o].q = p /\ call[o].st = "new")'
    BY <1>1, <1>9 DEF QueueInv, Numbered, Used
  <2>4. (\A o, p \in Op : Used(o) /\ p < o => Used(p))'
        /\ (\A p \in StreamObj : \A i \in DOMAIN taken[p] : taken[p][i] \in Calls(p))'
        /\ (\A o \in Op : ~Used(o) => call[o].st = "new")'
    BY <1>1 DEF QueueInv, Numbered, Used, Calls
  <2> QED
    BY <2>1, <2>2, <2>3, <2>4 DEF Numbered
<1>12. \A p : Calls(p)' = Calls(p)
  BY <1>1 DEF Calls
<1>13. Handed'
  BY <1>1, <1>9, <1>12 DEF QueueInv, Handed
<1> QED
  BY <1>2, <1>10, <1>11, <1>13 DEF QueueInv

\* The worker of q takes the head of its queue, and goes on to state w with operation n:
\* a worker that lives is busy with a call that it takes.
Takes(q, w, n) ==
    /\ queue[q] # <<>> /\ queue' = [queue EXCEPT ![q] = Tail(@)]
    /\ UNCHANGED <<putting, job, taken>>
    /\ worker' = [worker EXCEPT ![q] = w] /\ current' = [current EXCEPT ![q] = n]
    /\ \A c \in Op : c # Head(queue[q]) => call'[c].st = call[c].st
    /\ w \notin {"failing", "dead"} =>
         /\ worker[q] = "idle"
         /\ Head(queue[q]) \in Calls(q) => w = "busy" /\ n = Head(queue[q])

\* What is left in a queue is pending as before.
LEMMA HeadTaken ==
    ASSUME QueueInv, NEW q \in StreamObj, NEW w \in WorkerStates, NEW n \in Op \cup {NoOp},
           Takes(q, w, n)
    PROVE  QueueInv'
<1>1. PICK h : h = Head(queue[q])
  OBVIOUS
<1>2. /\ queue \in [StreamObj -> Seq(Op \cup {Stop})] /\ queue[q] \in Seq(Op \cup {Stop})
      /\ Rising(queue[q]) /\ queue[q] # <<>>
  BY DEF QueueInv, QueueTyped, Numbered, Takes
<1>3. /\ Tail(queue[q]) \in Seq(Op \cup {Stop}) /\ h \in Op \cup {Stop}
      /\ Rising(Tail(queue[q])) /\ Members(Tail(queue[q])) = Members(queue[q]) \ {h}
      /\ h \in Op => h \in Members(queue[q])
  BY <1>1, <1>2, RisingTail
<1>4. /\ queue'[q] = Tail(queue[q])
      /\ \A p \in StreamObj : p # q => queue'[p] = queue[p]
  BY <1>2 DEF Takes
<1>5. UNCHANGED <<putting, job, taken>>
  BY DEF Takes
<1>6. /\ Queued(q)' = Queued(q) \ {h}
      /\ \A p \in StreamObj : p # q => Queued(p)' = Queued(p)
  BY <1>3, <1>4 DEF Queued, Members
<1>7. h \in Op => h \in Queued(q) /\ h \in Pending(q) /\ h # putting[q] /\ job[h].q = q /\ Used(h)
  <2>1. \A o \in Op : ~(o < o)
    BY StreamConstants
  <2>2. h \in Op => h \in Queued(q) /\ h \in Pending(q)
    BY <1>3 DEF Queued, Pending
  <2> QED
    BY <2>1, <2>2 DEF QueueInv, Numbered
<1>8. /\ Pending(q)' = Pending(q) \ {h}
      /\ \A p \in StreamObj : p # q => Pending(p)' = Pending(p) /\ h \notin Pending(p)
  <2>1. Pending(q)' = Pending(q) \ {h}
    <3>1. h \notin {putting[q]} \cap Op
      BY <1>7
    <3> QED
      BY <1>5, <1>6, <3>1 DEF Pending
  <2>2. \A p \in StreamObj : p # q => Pending(p)' = Pending(p)
    BY <1>5, <1>6 DEF Pending
  <2>3. \A p : Pending(p) \subseteq Op
    BY DEF Pending, Queued, Members
  <2>4. \A p \in StreamObj : p # q => h \notin Pending(p)
    BY <1>7, <2>3 DEF QueueInv, Numbered
  <2> QED
    BY <2>1, <2>2, <2>4
<1>9. \A p : Pending(p) \subseteq Op /\ Queued(p) \subseteq Op /\ Calls(p)' = Calls(p) /\ Calls(p) \subseteq Op
  BY <1>5 DEF Pending, Queued, Members, Calls
<1>10. \A c \in Op : c # h => call'[c].st = call[c].st
  BY <1>1 DEF Takes
<1>11. QueueTyped'
  BY <1>2, <1>3 DEF QueueInv, QueueTyped, Takes
<1>12. Numbered'
  <2>1. (\A p \in StreamObj : Rising(queue[p]) /\ Rising(taken[p]))'
    BY <1>3, <1>4, <1>5 DEF QueueInv, Numbered, Rising
  <2>2. (\A p \in StreamObj : putting[p] \in Op => \A o \in Queued(p) : o < putting[p])'
    BY <1>5, <1>6 DEF QueueInv, Numbered
  <2>3. (\A p \in StreamObj : \A o \in Pending(p) : Used(o) /\ job[o].q = p /\ call[o].st = "new")'
    BY <1>5, <1>8, <1>9, <1>10 DEF QueueInv, Numbered, Used
  <2>4. (\A o, p \in Op : Used(o) /\ p < o => Used(p))'
        /\ (\A p \in StreamObj : \A i \in DOMAIN taken[p] : taken[p][i] \in Calls(p))'
    BY <1>5 DEF QueueInv, Numbered, Used, Calls
  <2>5. (\A o \in Op : ~Used(o) => call[o].st = "new")'
    BY <1>5, <1>7, <1>10 DEF QueueInv, Numbered, Used
  <2> QED
    BY <2>1, <2>2, <2>3, <2>4, <2>5 DEF Numbered
<1>13. Handed'
  <2> SUFFICES ASSUME NEW p \in StreamObj, worker'[p] \notin {"failing", "dead"},
                      NEW a \in Calls(p), a \notin Pending(p)'
               PROVE  call'[a].st = "done" \/ (worker'[p] = "busy" /\ current'[p] = a)
    BY <1>9 DEF Handed
  <2>1. worker \in [StreamObj -> WorkerStates] /\ current \in [StreamObj -> Op \cup {NoOp}]
    BY DEF QueueInv, QueueTyped
  <2>2. CASE p # q
    <3>1. worker'[p] = worker[p] /\ current'[p] = current[p]
      BY <2>1, <2>2 DEF Takes
    <3>2. a # h
      BY <1>7, <1>9, <2>2 DEF Calls
    <3> QED
      BY <1>8, <1>9, <1>10, <2>2, <3>1, <3>2 DEF QueueInv, Handed
  <2>3. CASE p = q
    <3>1. worker'[q] = w /\ current'[q] = n /\ w \notin {"failing", "dead"} /\ worker[q] = "idle"
      BY <2>1, <2>3 DEF Takes
    <3>2. CASE a = h
      BY <1>1, <2>3, <3>1, <3>2 DEF Takes
    <3>3. CASE a # h
      BY <1>8, <1>9, <1>10, <2>3, <3>1, <3>3 DEF QueueInv, Handed
    <3> QED
      BY <3>2, <3>3
  <2> QED
    BY <2>2, <2>3
<1> QED
  BY <1>11, <1>12, <1>13 DEF QueueInv

\* The head of a queue is the earliest call of its stream that is not done.
LEMMA HeadIsNext ==
    ASSUME QueueInv, NEW q \in StreamObj, worker[q] = "idle", queue[q] # <<>>,
           NEW o \in Calls(q), o = Head(queue[q])
    PROVE  /\ call[o].st = "new"
           /\ \A l \in StreamObj : o \in Calls(l) => \A a \in Calls(l) : a < o => call[a].st = "done"
<1>1. /\ queue[q] \in Seq(Op \cup {Stop}) /\ Rising(queue[q])
  BY DEF QueueInv, QueueTyped, Numbered
<1>2. o \in Op
  BY DEF Calls
<1>3. o \in Queued(q) /\ \A p \in Queued(q) : p = o \/ o < p
  BY <1>1, <1>2, RisingTail DEF Queued
<1>4. o \in Pending(q)
  BY <1>3 DEF Pending
<1>5. putting[q] \in Op => o < putting[q]
  BY <1>3 DEF QueueInv, Numbered
<1>6. \A p \in Pending(q) : p = o \/ o < p
  BY <1>3, <1>5 DEF Pending
<1>7. \A a, b \in Op : a < b => ~(b < a) /\ a # b
  BY StreamConstants
<1>8. \A a \in Calls(q) : a < o => a \notin Pending(q)
  BY <1>2, <1>6, <1>7 DEF Calls
<1>9. \A a \in Calls(q) : a < o => call[a].st = "done"
  BY <1>8 DEF QueueInv, Handed
<1>10. call[o].st = "new"
  BY <1>4 DEF QueueInv, Numbered
<1>11. \A l \in StreamObj : o \in Calls(l) => l = q
  BY DEF Calls
<1> QED
  BY <1>9, <1>10, <1>11

\* dispatch: the call fails at once, waits for a lock or is sent.
LEMMA DispatchStep ==
    ASSUME RemoteInv, QueueInv, NEW q \in StreamObj, worker[q] = "idle", queue[q] # <<>>,
           NEW o \in Calls(q), o = Head(queue[q]),
           ADispatchRemote(o, BoxOf[q], call[o].kind, call[o].path),
           UNCHANGED <<client, ran, effects, job>>
    PROVE  RemoteInv' /\ \A c \in Op : c # o => call'[c].st = call[c].st
<1>1. /\ call[o].st = "new"
      /\ \A l \in StreamObj : o \in Calls(l) => \A a \in Calls(l) : a < o => call[a].st = "done"
  BY HeadIsNext
<1>2. o \in Op /\ call[o] \in CallRec /\ call \in [Op -> CallRec]
      /\ call[o].x = BoxOf[q] /\ BoxOf[q] \in Client
  BY StreamConstants DEF Calls, RemoteInv, RemoteTyped, Traffic
<1>3. PICK as : as = [kind |-> call[o].kind, path |-> call[o].path, x |-> BoxOf[q],
                      st |-> "sent", try |-> 1, out |-> "none"]
  OBVIOUS
<1>4. /\ as \in CallRec /\ as.kind = call[o].kind /\ as.x = call[o].x
      /\ as.st = "sent" /\ as.try = 1 /\ as.out = "none"
  BY <1>2, <1>3 DEF CallRec, CallStates
<1>5. \A l \in StreamObj : Calls(l)' = Calls(l)
  BY DEF Calls
<1>6. ~Reached(o)
  BY <1>1 DEF Reached
<1>7. ASSUME NEW rec \in CallRec, Moves(o, rec)
      PROVE  RemoteInv' /\ \A c \in Op : c # o => call'[c].st = call[c].st
  <2>1. RemoteInv'
    BY <1>2, <1>7, CallMoves
  <2>2. \A c \in Op : c # o => call'[c].st = call[c].st
    BY <1>2, <1>7 DEF Moves
  <2> QED
    BY <2>1, <2>2
<1>8. \/ \E out \in {"raised", "failed"} :
           call' = [call EXCEPT ![o] = [as EXCEPT !.st = "done", !.out = out]] /\ UNCHANGED requests
      \/ /\ client[BoxOf[q]].st = "open"
         /\ \/ requests' = requests \cup {Sent(o, BoxOf[q], 1)} /\ call' = [call EXCEPT ![o] = as]
            \/ call' = [call EXCEPT ![o] = [as EXCEPT !.st = "waits"]] /\ UNCHANGED requests
  BY <1>3 DEF ADispatchRemote
<1>9. ASSUME NEW out \in {"raised", "failed"}, UNCHANGED requests,
             call' = [call EXCEPT ![o] = [as EXCEPT !.st = "done", !.out = out]]
      PROVE  RemoteInv' /\ \A c \in Op : c # o => call'[c].st = call[c].st
  <2>1. PICK rec : rec = [as EXCEPT !.st = "done", !.out = out]
    OBVIOUS
  <2>2. /\ rec \in CallRec /\ rec.kind = call[o].kind /\ rec.x = call[o].x
        /\ rec.st = "done" /\ rec.out # "ok"
    BY <1>4, <2>1 DEF CallRec, CallStates
  <2>3. call' = [call EXCEPT ![o] = rec]
    BY <1>9, <2>1
  <2> QED
    BY <1>1, <1>5, <1>7, <1>9, <2>2, <2>3 DEF Moves
<1>10. client[BoxOf[q]].st = "open" => Bound(o)
  BY <1>2 DEF Bound, Lasting
<1>11. CASE /\ client[BoxOf[q]].st = "open"
            /\ requests' = requests \cup {Sent(o, BoxOf[q], 1)} /\ call' = [call EXCEPT ![o] = as]
  <2>1. requests' \subseteq requests \cup {Sent(o, as.x, as.try)}
    BY <1>2, <1>4, <1>11
  <2> QED
    BY <1>1, <1>4, <1>5, <1>6, <1>7, <1>10, <1>11, <2>1 DEF Moves
<1>12. CASE /\ client[BoxOf[q]].st = "open"
            /\ call' = [call EXCEPT ![o] = [as EXCEPT !.st = "waits"]] /\ UNCHANGED requests
  <2>1. PICK rec : rec = [as EXCEPT !.st = "waits"]
    OBVIOUS
  <2>2. /\ rec \in CallRec /\ rec.kind = call[o].kind /\ rec.x = call[o].x
        /\ rec.st = "waits" /\ rec.out # "ok" /\ rec.try = 1
    BY <1>4, <2>1 DEF CallRec, CallStates
  <2>3. call' = [call EXCEPT ![o] = rec]
    BY <1>12, <2>1
  <2> QED
    BY <1>1, <1>5, <1>6, <1>7, <1>10, <1>12, <2>2, <2>3 DEF Moves
<1> QED
  BY <1>8, <1>9, <1>11, <1>12

\* _run takes an operation and hands a call over.
LEMMA GetStep ==
    ASSUME RemoteInv, QueueInv, NEW q \in StreamObj, WorkerGet(q)
    PROVE  RemoteInv' /\ QueueInv'
<1>1. PICK o : o = Head(queue[q])
  OBVIOUS
<1>2. /\ worker[q] = "idle" /\ queue[q] # <<>> /\ queue' = [queue EXCEPT ![q] = Tail(@)]
      /\ UNCHANGED <<putting, job, taken>>
  BY DEF WorkerGet
<1>3. /\ worker \in [StreamObj -> WorkerStates] /\ current \in [StreamObj -> Op \cup {NoOp}]
      /\ queue[q] \in Seq(Op \cup {Stop})
  BY DEF QueueInv, QueueTyped
<1>4. o \in Op \cup {Stop}
  BY <1>1, <1>2, <1>3, TailOf
<1>5. \/ o = Stop /\ worker' = [worker EXCEPT ![q] = "ended"] /\ UNCHANGED <<openSandboxVars, current>>
      \/ /\ o # Stop /\ job[o].k \in {"record", "sync"} /\ UNCHANGED <<openSandboxVars, worker, current>>
      \/ /\ o # Stop /\ job[o].k = "wait" /\ UNCHANGED openSandboxVars
         /\ worker' = [worker EXCEPT ![q] = "busy"] /\ current' = [current EXCEPT ![q] = o]
      \/ /\ o # Stop /\ job[o].k = "call"
         /\ worker' = [worker EXCEPT ![q] = "busy"] /\ current' = [current EXCEPT ![q] = o]
         /\ ADispatchRemote(o, BoxOf[q], call[o].kind, call[o].path)
         /\ UNCHANGED <<client, ran, effects>>
  BY <1>1 DEF WorkerGet
<1>6. \A l : Calls(l)' = Calls(l)
  BY <1>2 DEF Calls
<1>7. ASSUME UNCHANGED openSandboxVars
      PROVE  RemoteInv' /\ UNCHANGED call
  BY <1>6, <1>7, RemoteStill DEF openSandboxVars
<1>8. /\ worker = [worker EXCEPT ![q] = worker[q]] /\ current = [current EXCEPT ![q] = current[q]]
      /\ worker[q] \in WorkerStates /\ current[q] \in Op \cup {NoOp}
  BY <1>3
<1>9. "ended" \in WorkerStates /\ "busy" \in WorkerStates
  BY DEF WorkerStates
<1>10. CASE o = Stop /\ worker' = [worker EXCEPT ![q] = "ended"] /\ UNCHANGED <<openSandboxVars, current>>
  <2>1. Takes(q, "ended", current[q])
    BY <1>1, <1>2, <1>7, <1>8, <1>10, StreamConstants DEF Takes, Calls
  <2> QED
    BY <1>7, <1>8, <1>9, <1>10, <2>1, HeadTaken
<1>11. CASE /\ o # Stop /\ job[o].k \in {"record", "sync"}
            /\ UNCHANGED <<openSandboxVars, worker, current>>
  <2>1. Takes(q, worker[q], current[q])
    BY <1>1, <1>2, <1>7, <1>8, <1>11 DEF Takes, Calls
  <2> QED
    BY <1>7, <1>8, <1>11, <2>1, HeadTaken
<1>12. CASE /\ o # Stop /\ job[o].k = "wait" /\ UNCHANGED openSandboxVars
            /\ worker' = [worker EXCEPT ![q] = "busy"] /\ current' = [current EXCEPT ![q] = o]
  <2>1. Takes(q, "busy", o)
    BY <1>1, <1>2, <1>7, <1>12 DEF Takes
  <2> QED
    BY <1>4, <1>7, <1>9, <1>12, <2>1, HeadTaken
<1>13. CASE /\ o # Stop /\ job[o].k = "call"
            /\ worker' = [worker EXCEPT ![q] = "busy"] /\ current' = [current EXCEPT ![q] = o]
            /\ ADispatchRemote(o, BoxOf[q], call[o].kind, call[o].path)
            /\ UNCHANGED <<client, ran, effects>>
  <2>1. o \in Calls(q)
    <3>1. o \in Pending(q)
      BY <1>1, <1>2, <1>3, <1>4, <1>13, RisingTail DEF QueueInv, Numbered, Pending, Queued
    <3> QED
      BY <1>4, <1>13, <3>1 DEF QueueInv, Numbered, Calls
  <2>2. RemoteInv' /\ \A c \in Op : c # o => call'[c].st = call[c].st
    BY <1>1, <1>2, <1>13, <2>1, DispatchStep
  <2>3. Takes(q, "busy", o)
    BY <1>1, <1>2, <1>13, <2>2 DEF Takes
  <2> QED
    BY <1>4, <1>9, <1>13, <2>2, <2>3, HeadTaken
<1> QED
  BY <1>5, <1>10, <1>11, <1>12, <1>13

\* The worker leaves its operation and goes on, or dies.
LEMMA LeaveStep ==
    ASSUME RemoteInv, QueueInv, NEW q \in StreamObj, NEW w \in WorkerStates, worker[q] = "busy",
           worker' = [worker EXCEPT ![q] = w], current' = [current EXCEPT ![q] = NoOp],
           UNCHANGED <<openSandboxVars, queue, putting, job, taken>>,
           \/ w \in {"failing", "dead"}
           \/ current[q] \in Calls(q) => call[current[q]].st = "done"
    PROVE  RemoteInv' /\ QueueInv'
<1>1. \A l : Calls(l)' = Calls(l) /\ Pending(l)' = Pending(l) /\ Queued(l)' = Queued(l)
  BY DEF Calls, Pending, Queued, Members
<1>2. RemoteInv' /\ UNCHANGED call
  BY <1>1, RemoteStill DEF openSandboxVars
<1>3. QueueTyped'
  BY DEF QueueInv, QueueTyped
<1>4. Numbered'
  BY <1>2 DEF QueueInv, Numbered, Used, Rising, Pending, Queued, Members, Calls
<1>5. Handed'
  <2>1. worker \in [StreamObj -> WorkerStates] /\ current \in [StreamObj -> Op \cup {NoOp}]
    BY DEF QueueInv, QueueTyped
  <2> QED
    BY <1>1, <1>2, <2>1 DEF QueueInv, Handed
<1> QED
  BY <1>2, <1>3, <1>4, <1>5 DEF QueueInv

\* _fail_remaining empties the queue and starts nothing.
LEMMA FailStep ==
    ASSUME RemoteInv, QueueInv, NEW q \in StreamObj, FailRemaining(q)
    PROVE  RemoteInv' /\ QueueInv'
<1>1. /\ worker[q] = "failing" /\ UNCHANGED <<openSandboxVars, putting, current, job, taken>>
      /\ worker' = [worker EXCEPT ![q] = "dead"] \/ UNCHANGED worker
      /\ \/ queue[q] = <<>> /\ UNCHANGED queue
         \/ queue[q] # <<>> /\ queue' = [queue EXCEPT ![q] = Tail(@)]
  BY DEF FailRemaining
<1>2. \A l : Calls(l)' = Calls(l)
  BY <1>1 DEF Calls
<1>3. RemoteInv' /\ UNCHANGED call
  BY <1>1, <1>2, RemoteStill DEF openSandboxVars
<1>4. /\ worker \in [StreamObj -> WorkerStates] /\ current \in [StreamObj -> Op \cup {NoOp}]
      /\ worker = [worker EXCEPT ![q] = worker[q]] /\ current = [current EXCEPT ![q] = current[q]]
      /\ current[q] \in Op \cup {NoOp} /\ "dead" \in WorkerStates /\ "failing" \in WorkerStates
  BY DEF QueueInv, QueueTyped, WorkerStates
<1>5. CASE queue[q] # <<>> /\ queue' = [queue EXCEPT ![q] = Tail(@)]
  <2>1. Takes(q, "dead", current[q]) \/ Takes(q, "failing", current[q])
    BY <1>1, <1>3, <1>4, <1>5 DEF Takes
  <2> QED
    BY <1>3, <1>4, <2>1, HeadTaken
<1>6. CASE UNCHANGED queue
  <2>1. \A l : Pending(l)' = Pending(l)
    BY <1>1, <1>6 DEF Pending, Queued, Members
  <2>2. QueueTyped'
    BY <1>1, <1>4, <1>6 DEF QueueInv, QueueTyped
  <2>3. Numbered'
    BY <1>1, <1>3, <1>6 DEF QueueInv, Numbered, Used, Rising, Pending, Queued, Members, Calls
  <2>4. Handed'
    BY <1>1, <1>2, <1>3, <1>4, <2>1 DEF QueueInv, Handed
  <2> QED
    BY <1>3, <2>2, <2>3, <2>4 DEF QueueInv
<1> QED
  BY <1>1, <1>5, <1>6

-----------------------------------------------------------------------------
(* The theorem *)

\* The first state has no operation.
LEMMA StreamStart == StreamInit => OrderInv
<1> SUFFICES ASSUME StreamInit
             PROVE  OrderInv
  OBVIOUS
<1> USE DEF StreamInit, OpenSandboxInit
<1>1. NoCall \in CallRec /\ NoCall.st = "new" /\ NoCall.out = "none"
  BY DEF NoCall, CallRec, CallKinds, ExecKinds, CommandKinds, CallStates
<1>2. RemoteTyped
  <2>1. [at |-> NoContainer, st |-> "none", try |-> 0, vol |-> FALSE] \in ClientRec
    BY DEF ClientRec, ClientStates
  <2>2. client \in [Client -> ClientRec] /\ \A x \in Client : client[x].st = "none"
    BY <2>1
  <2>3. call \in [Op -> CallRec] /\ effects \in [Container -> Seq(Op)]
    BY <1>1
  <2> QED
    BY <2>2, <2>3 DEF RemoteTyped, Placed, Lasting
<1>3. QueueTyped /\ \A o \in Op : job[o].k = "none"
  <2>1. PICK q : q = CHOOSE p \in StreamObj : TRUE
    OBVIOUS
  <2>2. [k |-> "none", q |-> q, event |-> NoOp] \in JobRec
    BY <2>1 DEF JobRec, JobKinds, AnyStream
  <2>3. PICK rec : rec = [k |-> "none", q |-> q, event |-> NoOp]
    OBVIOUS
  <2>4. job = [o \in Op |-> rec] /\ rec \in JobRec /\ rec.k = "none"
    BY <2>1, <2>2, <2>3
  <2>5. queue \in [StreamObj -> Seq(Op \cup {Stop})] /\ taken \in [StreamObj -> Seq(Op)]
    OBVIOUS
  <2>6. job \in [Op -> JobRec] /\ \A o \in Op : job[o].k = "none"
    <3> HIDE DEF StreamInit
    <3> QED
      BY <2>4
  <2> QED
    BY <2>5, <2>6 DEF QueueTyped, WorkerStates
<1>4. \A q : Calls(q) = {}
  BY <1>3 DEF Calls
<1>5. \A c \in Op : call[c] = NoCall
  OBVIOUS
<1>6. Numbered
  <2>1. \A q \in StreamObj : Rising(queue[q]) /\ Rising(taken[q]) /\ Pending(q) = {} /\ putting[q] \notin Op
    BY OpenSandboxConstants DEF Rising, Pending, Queued, Members
  <2> QED
    BY <1>1, <1>3, <1>5, <2>1 DEF Numbered, Used
<1>7. Handed /\ OneAtATime /\ InTurn
  BY <1>4 DEF Handed, OneAtATime, InTurn
<1>8. Traffic /\ OnceOnly
  BY <1>1, <1>4, <1>5 DEF Traffic, OnceOnly
<1> QED
  BY <1>2, <1>3, <1>6, <1>7, <1>8 DEF OrderInv, RemoteInv, QueueInv

\* Every step keeps the invariant.
LEMMA StreamStep == OrderInv /\ [StreamNext]_streamVars => OrderInv'
<1> SUFFICES ASSUME OrderInv, [StreamNext]_streamVars
             PROVE  OrderInv'
  OBVIOUS
<1> USE DEF OrderInv
<1>1. CASE CallerNext
  BY <1>1, CallerStep
<1>2. CASE RemoteNext
  BY <1>2, RemoteStep
<1>3. ASSUME NEW q \in StreamObj, Put(q)
      PROVE  OrderInv'
  BY <1>3, PutStep
<1>4. ASSUME NEW q \in StreamObj, WorkerStep(q)
      PROVE  OrderInv'
  <2>1. CASE WorkerHandle(q)
    <3>1. /\ worker[q] = "busy" /\ worker' = [worker EXCEPT ![q] = "idle"]
          /\ current' = [current EXCEPT ![q] = NoOp]
          /\ UNCHANGED <<openSandboxVars, queue, putting, job, taken>>
      BY <2>1 DEF WorkerHandle
    <3>2. current[q] \in Calls(q) => call[current[q]].st = "done"
      BY <2>1 DEF WorkerHandle, Calls
    <3>3. "idle" \in WorkerStates
      BY DEF WorkerStates
    <3> QED
      BY <3>1, <3>2, <3>3, LeaveStep
  <2> QED
    BY <1>4, <2>1, GetStep, FailStep DEF WorkerStep
<1>5. ASSUME NEW q \in StreamObj, WaitTimesOut(q)
      PROVE  OrderInv'
  <2>1. /\ worker[q] = "busy" /\ worker' = [worker EXCEPT ![q] = "idle"]
        /\ current' = [current EXCEPT ![q] = NoOp]
        /\ UNCHANGED <<openSandboxVars, queue, putting, job, taken>>
    BY <1>5 DEF WaitTimesOut
  <2>2. current[q] \notin Calls(q)
    BY <1>5 DEF WaitTimesOut, Calls
  <2>3. "idle" \in WorkerStates
    BY DEF WorkerStates
  <2> QED
    BY <2>1, <2>2, <2>3, LeaveStep
<1>6. ASSUME NEW q \in StreamObj, FatalError(q)
      PROVE  OrderInv'
  <2>1. /\ worker[q] = "busy" /\ worker' = [worker EXCEPT ![q] = "failing"]
        /\ current' = [current EXCEPT ![q] = NoOp]
        /\ UNCHANGED <<openSandboxVars, queue, putting, job, taken>>
    BY <1>6 DEF FatalError
  <2>2. "failing" \in WorkerStates
    BY DEF WorkerStates
  <2> QED
    BY <2>1, <2>2, LeaveStep
<1>7. CASE UNCHANGED streamVars
  <2>1. UNCHANGED <<client, call, requests, ran, effects>> /\ UNCHANGED streamOnly /\ UNCHANGED job
    BY <1>7 DEF streamVars, streamOnly, openSandboxVars
  <2>2. Forward /\ \A q : Calls(q)' = Calls(q)
    BY <2>1 DEF Forward, Calls
  <2> QED
    BY <2>1, <2>2, RemoteStill, QueueStill
<1> QED
  BY <1>1, <1>2, <1>3, <1>4, <1>5, <1>6, <1>7 DEF StreamNext

\* A call that must not run twice and whose answer says it was done was done once, and
\* before the effects of every later call of its stream: BackendSandbox dispatch behind
\* the worker of a Stream, with a service that runs requests when it likes.
THEOREM CallsAnsweredInOrder == StreamSpec => []AnsweredInOrder
<1>1. OrderInv => AnsweredInOrder
  <2> SUFFICES ASSUME OrderInv, NEW q \in StreamObj, NEW i \in DOMAIN taken[q],
                      NEW j \in DOMAIN taken[q], taken[q][i] \in Told(q)
               PROVE  /\ Cardinality(Occurs(taken[q][i], client[BoxOf[q]].at)) = 1
                      /\ i < j =>
                           \A m \in Occurs(taken[q][i], client[BoxOf[q]].at),
                              n \in Occurs(taken[q][j], client[BoxOf[q]].at) : m < n
    BY DEF AnsweredInOrder
  <2>1. PICK a, b : a = taken[q][i] /\ b = taken[q][j]
    OBVIOUS
  <2>2. \A o \in Told(q) : /\ o \in Op /\ o \in Calls(q) /\ call[o].kind \in Once
                           /\ call[o].out = "ok" /\ call[o].x = BoxOf[q]
    BY DEF Told, Calls, Once, OrderInv, RemoteInv, Traffic
  <2>3. a \in Told(q) /\ Place(a) = client[BoxOf[q]].at /\ b \in Calls(q)
    BY <2>1, <2>2 DEF Place, OrderInv, QueueInv, Numbered
  <2>4. Cardinality(Occurs(a, Place(a))) = 1
    <3>1. PICK e \in Nat : Occurs(a, Place(a)) = {e}
      BY <2>2, <2>3 DEF OrderInv, RemoteInv, OnceOnly
    <3> QED
      BY <3>1, FS_Singleton
  <2>5. ASSUME i < j, NEW m \in Occurs(a, Place(a)), NEW n \in Occurs(b, Place(a))
        PROVE  m < n
    <3>1. a < b /\ a \in Op /\ b \in Op
      BY <2>1, <2>2, <2>3, <2>5 DEF OrderInv, QueueInv, Numbered, Rising, Calls
    <3> QED
      BY <2>2, <2>3, <2>5, <3>1 DEF OrderInv, RemoteInv, InTurn
  <2> QED
    BY <2>1, <2>3, <2>4, <2>5
<1> QED
  BY <1>1, StreamStart, StreamStep, PTL DEF StreamSpec
=============================================================================
