------------------------ MODULE McpConnection_proofs ------------------------
(***************************************************************************)
(* What holds of one MCP server's connection for any tasks and any number  *)
(* of clients, however often it is opened, closed and reconnected.         *)
(*                                                                         *)
(* The types hold whatever happens (Sound).  That no server is orphaned    *)
(* needs to know who answers for each client that may be behind a server   *)
(* (Alone), and that is true until one of the excuses occurred.            *)
(***************************************************************************)
EXTENDS McpConnection, FiniteSetTheorems, TLAPS

Connections ==
  [client : Clients \cup {None}, closed : BOOLEAN, opening : Clients \cup {None}]
Places == {"idle", "opening", "sending", "calling", "awaiting", "closing"}
Purposes == {"call", "connect"} \cup Teardowns
Excuses == {"overlap", "late waiter", "broken pipe", "late failure", "cut"}

(* The attempt of the connection was started, and a client that a task is  *)
(* closing is not given to anybody any more.                               *)
Known ==
  /\ self.opening # None => life[self.opening] # "unused"
  /\ \A t \in Tasks : pc[t] = "closing" => life[on[t]] \in {"closing", "closed", "cut"}

Sound == TypeOK /\ Known

(* At most one task shuts the connection down, which then is closed, and   *)
(* whoever waits for an attempt waits for the same one.                    *)
Teardown(t) == pc[t] \in {"awaiting", "closing"}
Waits(t) == pc[t] \in {"opening", "awaiting"}
InLine ==
  /\ \A t, u \in Tasks : Teardown(t) /\ Teardown(u) => t = u
  /\ \A t \in Tasks : Teardown(t) => self.closed
  /\ \A t, u \in Tasks : Waits(t) /\ Waits(u) => on[t] = on[u]

(* An attempt under way is the connection's, there is no client beside it, *)
(* somebody waits for it, and when the connection was closed, it was       *)
(* cancelled and the task that closed the connection waits for it too.     *)
Attempted(c) ==
  life[c] \in Attempting =>
    /\ c = self.opening /\ ~IsConnected(self.client)
    /\ \E t \in Tasks : Waits(t) /\ on[t] = c
    /\ self.closed => life[c] # "starting" /\ \E t \in Tasks : pc[t] = "awaiting"

(* A connected client is the connection's, which is not closed, and nobody *)
(* waits for another; one that is being closed has its task.               *)
Held(c) ==
  /\ life[c] = "connected" =>
       /\ c = self.client /\ ~self.closed
       /\ \A t \in Tasks : Waits(t) => on[t] = c
  /\ life[c] = "closing" => \E t \in Tasks : pc[t] = "closing" /\ on[t] = c
  /\ life[c] # "cut"

Alone == InLine /\ \A c \in Clients : Attempted(c) /\ Held(c)

IInv == Sound /\ (excuses = {} => Alone)

----------------------------------------------------------------------------
(* Types *)

(* The parts of the type invariant that speak of one task. *)
Engaged(t) ==
  /\ pc[t] # "idle" => on[t] # None /\ life[on[t]] # "unused"
  /\ pc[t] = "calling" => IsConnected(on[t])
  /\ pc[t] = "closing" => life[on[t]] \in {"closing", "closed", "cut"}

(* Sound, as the types of the fields and one condition for each task. *)
LEMMA SoundParts ==
  Sound <=> /\ self \in Connections /\ life \in [Clients -> Lives]
            /\ pc \in [Tasks -> Places] /\ kind \in [Tasks -> Purposes]
            /\ on \in [Tasks -> Clients \cup {None}] /\ excuses \subseteq Excuses
            /\ self.opening # None => life[self.opening] # "unused"
            /\ \A t \in Tasks : Engaged(t)
BY DEF Sound, TypeOK, Known, Connections, Places, Purposes, Excuses, Engaged

(* What a step has to show to keep it. *)
LEMMA SoundNext ==
  ASSUME self' \in Connections, life' \in [Clients -> Lives],
         pc' \in [Tasks -> Places], kind' \in [Tasks -> Purposes],
         on' \in [Tasks -> Clients \cup {None}], excuses' \subseteq Excuses,
         self'.opening # None => life'[self'.opening] # "unused",
         \A t \in Tasks : Engaged(t)'
  PROVE  Sound'
BY DEF Sound, TypeOK, Known, Connections, Places, Purposes, Excuses, Engaged

(* Excuses are only ever added, and only the ones named. *)
LEMMA ExcusesStep ==
  ASSUME Sound, [Next]_vars
  PROVE  excuses' \subseteq Excuses /\ excuses \subseteq excuses'
<1>1. excuses \subseteq Excuses
  BY DEF Sound, TypeOK, Excuses
<1>2. CASE UNCHANGED vars
  BY <1>1, <1>2 DEF vars
<1>3. ASSUME NEW t \in Tasks,
             \/ UseClient(t) \/ Send(t) \/ Answer(t) \/ SendFails(t)
             \/ CancelCall(t) \/ ClientClosed(t) \/ CancelTeardown(t)
      PROVE  excuses' \subseteq Excuses /\ excuses \subseteq excuses'
  BY <1>1, <1>3 DEF UseClient, Send, Answer, SendFails, CancelCall, ClientClosed,
     CancelTeardown, CancelAttempt, LateWaiter, Excuses
<1>4. ASSUME NEW t \in Tasks, NEW what \in {"call", "connect"},
             StartAttempt(t, what) \/ JoinAttempt(t, what) \/ JoinFinished(t, what)
      PROVE  excuses' \subseteq Excuses /\ excuses \subseteq excuses'
  BY <1>1, <1>4 DEF StartAttempt, JoinAttempt, JoinFinished, LateWaiter, Excuses
<1>5. ASSUME NEW t \in Tasks, NEW what \in Teardowns,
             Close(t, what) \/ ReconnectClosed(t, what)
      PROVE  excuses' \subseteq Excuses /\ excuses \subseteq excuses'
  BY <1>1, <1>5 DEF Close, ReconnectClosed, CancelAttempt, LateWaiter, Excuses
<1>6. ASSUME NEW c \in Clients,
             Connect(c) \/ Fail(c) \/ TransportClosed(c) \/ Resume(c) \/ Drop(c)
      PROVE  excuses' \subseteq Excuses /\ excuses \subseteq excuses'
  BY <1>1, <1>6 DEF Connect, Fail, TransportClosed, Resume, Drop
<1> QED
  BY <1>2, <1>3, <1>4, <1>5, <1>6 DEF Next

(* What comes behind close, when the tasks and clients fit the connection. *)
LEMMA AfterCloseSound ==
  ASSUME Sound, NEW t \in Tasks, NEW what \in Purposes,
         NEW places \in [Tasks -> Places], NEW lives \in [Clients -> Lives],
         NEW conn \in Connections,
         conn.opening # None => lives[conn.opening] # "unused",
         \A u \in Tasks \ {t} :
           /\ places[u] # "idle" => on[u] # None /\ lives[on[u]] # "unused"
           /\ places[u] = "calling" => lives[on[u]] = "connected"
           /\ places[u] = "closing" => lives[on[u]] \in {"closing", "closed", "cut"},
         AfterClose(t, what, places, lives, conn), excuses' \subseteq Excuses
  PROVE  Sound'
<1>1. kind' \in [Tasks -> Purposes] /\ on \in [Tasks -> Clients \cup {None}]
  BY SoundParts DEF AfterClose, Purposes
<1>2. ASSUME what = "reconnect", NEW c \in Clients, lives[c] = "unused",
             life' = [lives EXCEPT ![c] = "starting"],
             self' = [client |-> None, closed |-> FALSE, opening |-> c],
             pc' = [places EXCEPT ![t] = "opening"], on' = [on EXCEPT ![t] = c]
      PROVE  Sound'
  <2>1. /\ self' \in Connections /\ life' \in [Clients -> Lives]
        /\ pc' \in [Tasks -> Places] /\ on' \in [Tasks -> Clients \cup {None}]
        /\ self'.opening # None => life'[self'.opening] # "unused"
    BY <1>1, <1>2 DEF Connections, Places, Lives, Attempting
  <2>2. Engaged(t)'
    BY <1>1, <1>2, NoneAssumption DEF Engaged
  <2>3. ASSUME NEW u \in Tasks \ {t} PROVE Engaged(u)'
    <3>1. pc'[u] = places[u] /\ on'[u] = on[u] /\ on[u] \in Clients \cup {None}
      BY <1>1, <1>2
    <3>2. ASSUME places[u] # "idle"
          PROVE  on[u] \in Clients /\ lives[on[u]] # "unused" /\ life'[on[u]] = lives[on[u]]
      BY <1>2, <3>1, <3>2
    <3> QED
      BY <3>1, <3>2 DEF Engaged, IsConnected
  <2> QED
    BY <1>1, <2>1, <2>2, <2>3, SoundNext
<1>3. ASSUME \/ self' = conn
             \/ self' = [client |-> None, closed |-> FALSE, opening |-> None],
             pc' = [places EXCEPT ![t] = "idle"], life' = lives, on' = on
      PROVE  Sound'
  <2>1. /\ self' \in Connections /\ life' \in [Clients -> Lives]
        /\ pc' \in [Tasks -> Places] /\ on' \in [Tasks -> Clients \cup {None}]
        /\ self'.opening # None => life'[self'.opening] # "unused"
    <3>1. pc' \in [Tasks -> Places]
      BY <1>1, <1>3 DEF Places
    <3>2. CASE self' = conn
      BY <1>1, <1>3, <3>1, <3>2
    <3>3. CASE self' = [client |-> None, closed |-> FALSE, opening |-> None]
      BY <1>1, <1>3, <3>1, <3>3 DEF Connections
    <3> QED
      BY <1>3, <3>2, <3>3
  <2>2. \A u \in Tasks : Engaged(u)'
    BY <1>1, <1>3 DEF Engaged, IsConnected
  <2> QED
    BY <1>1, <2>1, <2>2, SoundNext
<1> QED
  BY <1>2, <1>3 DEF AfterClose

(* The second half of close. *)
LEMMA TakeClientSound ==
  ASSUME Sound, NEW t \in Tasks, NEW what \in Purposes,
         NEW places \in [Tasks -> Places], NEW conn \in Connections,
         conn.opening # None => life[conn.opening] # "unused",
         \A u \in Tasks \ {t} :
           /\ places[u] # "idle" => pc[u] # "idle"
           /\ places[u] = "calling" => pc[u] = "calling"
           /\ places[u] = "closing" => pc[u] = "closing",
         TakeClient(t, what, places, conn), excuses' \subseteq Excuses
  PROVE  Sound'
<1> DEFINE taken == [conn EXCEPT !.client = None]
<1>1. /\ taken \in Connections /\ taken.opening = conn.opening
      /\ life \in [Clients -> Lives] /\ on \in [Tasks -> Clients \cup {None}]
      /\ kind \in [Tasks -> Purposes] /\ pc \in [Tasks -> Places]
  BY SoundParts DEF Connections
<1>2. CASE IsConnected(conn.client)
  <2>1. /\ self' = taken /\ life' = [life EXCEPT ![conn.client] = "closing"]
        /\ pc' = [u \in Tasks |-> IF u = t THEN "closing"
                                  ELSE IF u \in Requests(conn.client) THEN "idle"
                                  ELSE places[u]]
        /\ kind' = [kind EXCEPT ![t] = what] /\ on' = [on EXCEPT ![t] = conn.client]
    BY <1>2 DEF TakeClient
  <2>2. conn.client \in Clients /\ life[conn.client] = "connected"
    BY <1>2 DEF Connections, IsConnected
  <2>3. /\ self' \in Connections /\ life' \in [Clients -> Lives]
        /\ pc' \in [Tasks -> Places] /\ on' \in [Tasks -> Clients \cup {None}]
        /\ kind' \in [Tasks -> Purposes]
    BY <1>1, <2>1, <2>2 DEF Places, Lives, Purposes
  <2>4. self'.opening # None => life'[self'.opening] # "unused"
    BY <1>1, <2>1, <2>2 DEF Connections
  <2>5. Engaged(t)'
    BY <1>1, <2>1, <2>2, NoneAssumption DEF Engaged
  <2>6. ASSUME NEW u \in Tasks \ {t} PROVE Engaged(u)'
    <3>1. /\ Engaged(u) /\ on'[u] = on[u] /\ on[u] \in Clients \cup {None}
          /\ pc'[u] = IF u \in Requests(conn.client) THEN "idle" ELSE places[u]
      BY <1>1, <2>1, SoundParts
    <3>2. CASE places[u] = "idle" \/ u \in Requests(conn.client)
      BY <3>1, <3>2 DEF Engaged
    <3>3. CASE places[u] # "idle" /\ u \notin Requests(conn.client)
      <4>1. /\ pc[u] # "idle" /\ on[u] \in Clients /\ life[on[u]] # "unused"
            /\ pc'[u] = places[u]
            /\ places[u] = "calling" => pc[u] = "calling"
            /\ places[u] = "closing" => pc[u] = "closing"
        BY <3>1, <3>3 DEF Engaged
      <4>2. life'[on[u]] = IF on[u] = conn.client THEN "closing" ELSE life[on[u]]
        BY <1>1, <2>1, <2>2, <4>1
      <4>3. pc[u] = "calling" => on[u] # conn.client
        BY <3>3 DEF Requests
      <4> QED
        BY <3>1, <4>1, <4>2, <4>3, NoneAssumption DEF Engaged, IsConnected
    <3> QED
      BY <3>2, <3>3
  <2> QED
    BY <2>3, <2>4, <2>5, <2>6, SoundNext
<1>3. CASE ~IsConnected(conn.client)
  <2>1. AfterClose(t, what, places, life, taken)
    BY <1>3 DEF TakeClient
  <2>2. ASSUME NEW u \in Tasks \ {t}
        PROVE  /\ places[u] # "idle" => on[u] # None /\ life[on[u]] # "unused"
               /\ places[u] = "calling" => life[on[u]] = "connected"
               /\ places[u] = "closing" => life[on[u]] \in {"closing", "closed", "cut"}
    BY SoundParts DEF Engaged, IsConnected
  <2> HIDE DEF taken
  <2> QED
    BY <1>1, <2>1, <2>2, AfterCloseSound
<1> QED
  BY <1>2, <1>3

(* A cancel leaves an attempt that was started. *)
LEMMA AfterCancelLives ==
  ASSUME NEW c \in Clients, life[c] \in Attempting
  PROVE  AfterCancel(c) \subseteq {"cancelling", "cancelled", "cut"}
BY DEF AfterCancel, Attempting

(* A step that moves one client on, which no request needs. *)
LEMMA MoveSound ==
  ASSUME Sound, NEW c \in Clients, NEW l \in Lives \ {"unused"},
         life' = [life EXCEPT ![c] = l], excuses' \subseteq Excuses,
         self' \in Connections, self'.opening = self.opening,
         pc' \in [Tasks -> Places],
         \A t \in Tasks : pc'[t] \in {pc[t], "idle"},
         l # "connected" => \A t \in Tasks : pc'[t] = "calling" => on[t] # c,
         life[c] = "closing" \/ life[c] \notin {"closing", "closed", "cut"},
         life[c] = "closing" => l \in {"closing", "closed", "cut"},
         kind' = kind, on' = on
  PROVE  Sound'
<1>1. /\ life \in [Clients -> Lives] /\ self \in Connections
      /\ on \in [Tasks -> Clients \cup {None}] /\ kind \in [Tasks -> Purposes]
      /\ \A t \in Tasks : Engaged(t)
  BY SoundParts
<1>2. life' \in [Clients -> Lives] /\ kind' \in [Tasks -> Purposes]
      /\ on' \in [Tasks -> Clients \cup {None}]
  BY <1>1
<1>3. self'.opening # None => life'[self'.opening] # "unused"
  BY <1>1, SoundParts DEF Connections
<1>4. ASSUME NEW t \in Tasks PROVE Engaged(t)'
  <2>1. CASE pc'[t] = "idle"
    BY <2>1 DEF Engaged
  <2>2. CASE pc'[t] = pc[t] /\ pc[t] # "idle"
    <3>1. /\ Engaged(t) /\ on'[t] = on[t] /\ on[t] \in Clients
          /\ life'[on[t]] = IF on[t] = c THEN l ELSE life[on[t]]
      BY <1>1, <2>2 DEF Engaged
    <3>2. pc[t] = "closing" /\ on[t] = c => l \in {"closing", "closed", "cut"}
      BY <3>1 DEF Engaged
    <3>3. pc[t] = "calling" => on[t] # c \/ l = "connected"
      BY <2>2
    <3> QED
      BY <2>2, <3>1, <3>2, <3>3 DEF Engaged, IsConnected
  <2> QED
    BY <2>1, <2>2
<1> QED
  BY <1>2, <1>3, <1>4, SoundNext

(* A step that changes no client: a task stops, or goes to one.            *)
LEMMA GoSound ==
  ASSUME Sound, life' = life, excuses' \subseteq Excuses, NEW t \in Tasks,
         self' \in Connections, self'.opening \in {self.opening, None},
         pc' \in [Tasks -> Places], kind' \in [Tasks -> Purposes],
         on' \in [Tasks -> Clients \cup {None}],
         \A u \in Tasks \ {t} : pc'[u] = pc[u] /\ on'[u] = on[u],
         pc'[t] # "idle" => on'[t] # None /\ life[on'[t]] # "unused",
         pc'[t] = "calling" => IsConnected(on'[t]),
         pc'[t] # "closing"
  PROVE  Sound'
<1>1. /\ life' \in [Clients -> Lives] /\ self \in Connections
      /\ self.opening # None => life[self.opening] # "unused"
      /\ \A u \in Tasks : Engaged(u)
  BY SoundParts
<1>2. self'.opening # None => life'[self'.opening] # "unused"
  BY <1>1
<1>3. Engaged(t)'
  BY DEF Engaged, IsConnected
<1>4. ASSUME NEW u \in Tasks \ {t} PROVE Engaged(u)'
  <2>1. Engaged(u) /\ pc'[u] = pc[u] /\ on'[u] = on[u]
    BY <1>1
  <2> QED
    BY <2>1 DEF Engaged, IsConnected
<1> QED
  BY <1>1, <1>2, <1>3, <1>4, SoundNext

(* The attempt that close or a caller waits for is cancelled. *)
LEMMA CancelSound ==
  ASSUME Sound, NEW c \in Clients, life[c] \in Attempting, CancelAttempt(c),
         UNCHANGED <<self, pc, kind, on>>, excuses' \subseteq Excuses
  PROVE  Sound'
<1>1. PICK l \in AfterCancel(c) : life' = [life EXCEPT ![c] = l]
  BY DEF CancelAttempt
<1>2. l \in {"cancelling", "cancelled", "cut"}
  BY <1>1, AfterCancelLives
<1>3. /\ self \in Connections /\ pc \in [Tasks -> Places]
      /\ \A t \in Tasks : pc[t] = "calling" => on[t] # c
  BY SoundParts DEF Engaged, IsConnected, Attempting
<1>4. l \in Lives \ {"unused"} /\ l # "closing" /\ life[c] \notin {"closing", "closed", "cut"}
  BY <1>2 DEF Lives, Attempting
<1> QED
  BY <1>1, <1>3, <1>4, MoveSound

(* The actions of a task, one by one. *)
LEMMA StartSound ==
  ASSUME Sound, NEW t \in Tasks, NEW what \in {"call", "connect"}, StartAttempt(t, what),
         excuses' \subseteq Excuses
  PROVE  Sound'
<1>1. PICK c \in Clients :
        /\ life[c] = "unused" /\ life' = [life EXCEPT ![c] = "starting"]
        /\ self' = [self EXCEPT !.opening = c]
        /\ pc' = [pc EXCEPT ![t] = "opening"] /\ kind' = [kind EXCEPT ![t] = what]
        /\ on' = [on EXCEPT ![t] = c]
  BY DEF StartAttempt, Go
<1>2. /\ self \in Connections /\ life \in [Clients -> Lives] /\ pc \in [Tasks -> Places]
      /\ kind \in [Tasks -> Purposes] /\ on \in [Tasks -> Clients \cup {None}]
      /\ \A u \in Tasks : Engaged(u)
  BY SoundParts
<1>3. /\ self' \in Connections /\ self'.opening = c
  BY <1>1, <1>2 DEF Connections
<1>4. /\ life' \in [Clients -> Lives] /\ life'[c] # "unused"
      /\ pc' \in [Tasks -> Places] /\ kind' \in [Tasks -> Purposes]
      /\ on' \in [Tasks -> Clients \cup {None}]
  BY <1>1, <1>2 DEF Lives, Attempting, Places, Purposes
<1>5. Engaged(t)'
  BY <1>1, <1>2, NoneAssumption DEF Engaged
<1>6. ASSUME NEW u \in Tasks \ {t} PROVE Engaged(u)'
  <2>1. Engaged(u) /\ pc'[u] = pc[u] /\ on'[u] = on[u]
    BY <1>1, <1>2
  <2>2. pc[u] # "idle" => on[u] \in Clients /\ on[u] # c /\ life'[on[u]] = life[on[u]]
    BY <1>1, <1>2, <2>1 DEF Engaged
  <2> QED
    BY <2>1, <2>2 DEF Engaged, IsConnected
<1> QED
  BY <1>3, <1>4, <1>5, <1>6, SoundNext

(* A task that joins an attempt, under way or finished. *)
LEMMA JoinSound ==
  ASSUME Sound, NEW t \in Tasks, NEW what \in {"call", "connect"},
         JoinAttempt(t, what) \/ JoinFinished(t, what), excuses' \subseteq Excuses
  PROVE  Sound'
<1>1. /\ self \in Connections /\ pc \in [Tasks -> Places] /\ kind \in [Tasks -> Purposes]
      /\ on \in [Tasks -> Clients \cup {None}] /\ life' = life
      /\ self.opening \in Clients /\ life[self.opening] # "unused" /\ pc[t] = "idle"
  BY SoundParts DEF JoinAttempt, JoinFinished, NeedsClient, Connections
<1>2. self' \in Connections /\ self'.opening \in {self.opening, None}
  <2>1. CASE JoinAttempt(t, what)
    BY <1>1, <2>1 DEF JoinAttempt
  <2>2. CASE JoinFinished(t, what)
    BY <1>1, <2>2 DEF JoinFinished, Awaited, Connections
  <2> QED
    BY <2>1, <2>2
<1>3. CASE UNCHANGED tasks
  BY <1>1, <1>2, <1>3, GoSound DEF tasks
<1>4. ASSUME NEW place \in {"opening", "sending"}, Go(t, what, place, self.opening)
      PROVE  Sound'
  <2>1. /\ pc' \in [Tasks -> Places] /\ kind' \in [Tasks -> Purposes]
        /\ on' \in [Tasks -> Clients \cup {None}]
        /\ \A u \in Tasks \ {t} : pc'[u] = pc[u] /\ on'[u] = on[u]
        /\ pc'[t] = place /\ on'[t] = self.opening
    BY <1>1, <1>4 DEF Go, Places, Purposes
  <2> QED
    BY <1>1, <1>2, <2>1, NoneAssumption, GoSound
<1> QED
  BY <1>3, <1>4 DEF JoinAttempt, JoinFinished

(* A request is begun, sent, answered, or cannot be sent. *)
LEMMA RequestSound ==
  ASSUME Sound, NEW t \in Tasks, UseClient(t) \/ Send(t) \/ Answer(t) \/ SendFails(t),
         excuses' \subseteq Excuses
  PROVE  Sound'
<1>1. /\ self \in Connections /\ pc \in [Tasks -> Places] /\ kind \in [Tasks -> Purposes]
      /\ on \in [Tasks -> Clients \cup {None}] /\ life' = life
  BY SoundParts DEF UseClient, Send, Answer, SendFails
<1>2. self' \in Connections /\ self'.opening = self.opening
  BY <1>1 DEF UseClient, Send, Answer, SendFails, Connections
<1>3. CASE UseClient(t)
  <2>1. /\ pc' \in [Tasks -> Places] /\ kind' \in [Tasks -> Purposes]
        /\ on' \in [Tasks -> Clients \cup {None}]
        /\ \A u \in Tasks \ {t} : pc'[u] = pc[u] /\ on'[u] = on[u]
        /\ pc'[t] = "sending" /\ on'[t] = self.client
    BY <1>1, <1>3 DEF UseClient, Go, Places, Purposes, Connections
  <2>2. self.client # None /\ life[self.client] # "unused"
    BY <1>3 DEF UseClient, IsConnected
  <2> QED
    BY <1>1, <1>2, <2>1, <2>2, GoSound
<1>4. CASE Send(t) \/ Answer(t) \/ SendFails(t)
  <2>1. kind' = kind /\ on' = on
    BY <1>4 DEF Send, Answer, SendFails
  <2>2. /\ pc' \in [Tasks -> Places] /\ pc'[t] \in {"calling", "idle"}
        /\ \A u \in Tasks \ {t} : pc'[u] = pc[u]
    BY <1>1, <1>4 DEF Send, Answer, SendFails, Places
  <2>3. pc'[t] = "calling" => IsConnected(on[t])
    BY <1>1, <1>4 DEF Send, Answer, SendFails
  <2>4. pc'[t] = "calling" => on[t] # None /\ life[on[t]] # "unused"
    BY <2>3 DEF IsConnected
  <2> QED
    BY <1>1, <1>2, <2>1, <2>2, <2>3, <2>4, GoSound
<1> QED
  BY <1>3, <1>4

(* The task of a call or of a teardown is cancelled. *)
LEMMA CancelTaskSound ==
  ASSUME Sound, NEW t \in Tasks, CancelCall(t) \/ CancelTeardown(t),
         excuses' \subseteq Excuses
  PROVE  Sound'
<1>1. /\ self \in Connections /\ pc \in [Tasks -> Places] /\ life \in [Clients -> Lives]
      /\ on \in [Tasks -> Clients \cup {None}] /\ kind \in [Tasks -> Purposes]
      /\ self' = self /\ kind' = kind /\ on' = on /\ Engaged(t)
  BY SoundParts DEF CancelCall, CancelTeardown
<1>2. CASE pc[t] \in {"opening", "awaiting"} /\ ~Finished(on[t]) /\ CancelAttempt(on[t])
             /\ UNCHANGED pc
  <2>1. on[t] \in Clients /\ life[on[t]] \in Attempting
    BY <1>1, <1>2 DEF Engaged, Finished
  <2> QED
    BY <1>1, <1>2, <2>1, CancelSound
<1>3. CASE pc' = [pc EXCEPT ![t] = "idle"] /\ life' = life
  <2>1. /\ pc' \in [Tasks -> Places] /\ pc'[t] = "idle"
        /\ \A u \in Tasks \ {t} : pc'[u] = pc[u]
    BY <1>1, <1>3 DEF Places
  <2> QED
    BY <1>1, <1>3, <2>1, GoSound
<1>4. ASSUME pc[t] = "closing", NEW l \in {"closed", "cut"},
             life' = [life EXCEPT ![on[t]] = l], pc' = [pc EXCEPT ![t] = "idle"]
      PROVE  Sound'
  <2>1. /\ on[t] \in Clients /\ life[on[t]] \in {"closing", "closed", "cut"}
    BY <1>1, <1>4 DEF Engaged
  <2>2. /\ life' \in [Clients -> Lives] /\ pc' \in [Tasks -> Places]
        /\ self.opening # None => life'[self.opening] # "unused"
    BY <1>1, <1>4, <2>1, SoundParts DEF Lives, Places, Connections
  <2>3. ASSUME NEW u \in Tasks PROVE Engaged(u)'
    <3>1. CASE u = t
      BY <1>1, <1>4, <3>1 DEF Engaged
    <3>2. CASE u # t /\ pc[u] # "idle"
      <4>1. /\ Engaged(u) /\ pc'[u] = pc[u] /\ on'[u] = on[u] /\ on[u] \in Clients
            /\ life'[on[u]] = IF on[u] = on[t] THEN l ELSE life[on[u]]
        BY <1>1, <1>4, <3>2, SoundParts DEF Engaged
      <4>2. pc[u] = "calling" => on[u] # on[t]
        BY <2>1, <4>1 DEF Engaged, IsConnected
      <4> QED
        BY <1>4, <4>1, <4>2 DEF Engaged, IsConnected
    <3>3. CASE u # t /\ pc[u] = "idle"
      BY <1>1, <1>4, <3>3 DEF Engaged
    <3> QED
      BY <3>1, <3>2, <3>3
  <2> QED
    BY <1>1, <2>2, <2>3, SoundNext
<1> QED
  BY <1>2, <1>3, <1>4 DEF CancelCall, CancelTeardown

(* The connection is shut down, and its attempt cancelled if there is one. *)
LEMMA CloseSound ==
  ASSUME Sound, NEW t \in Tasks, NEW what \in Teardowns, Close(t, what),
         excuses' \subseteq Excuses
  PROVE  Sound'
<1> DEFINE shut == [self EXCEPT !.closed = TRUE]
<1>1. /\ self \in Connections /\ shut \in Connections /\ shut.opening = self.opening
      /\ pc \in [Tasks -> Places] /\ life \in [Clients -> Lives]
      /\ on \in [Tasks -> Clients \cup {None}] /\ kind \in [Tasks -> Purposes]
      /\ pc[t] = "idle" /\ (self.opening # None => life[self.opening] # "unused")
  BY SoundParts DEF Close, Connections
<1>2. CASE self.opening # None /\ ~Finished(self.opening)
  <2> DEFINE c == self.opening
  <2>1. /\ self' = shut /\ c \in Clients /\ life[c] \in Attempting
        /\ CancelAttempt(c) /\ Go(t, what, "awaiting", c)
    BY <1>1, <1>2 DEF Close, Finished, Connections
  <2>2. PICK l \in AfterCancel(c) : life' = [life EXCEPT ![c] = l]
    BY <2>1 DEF CancelAttempt
  <2>3. l \in {"cancelling", "cancelled", "cut"}
    BY <2>1, <2>2, AfterCancelLives
  <2>4. /\ life' \in [Clients -> Lives] /\ pc' \in [Tasks -> Places]
        /\ kind' \in [Tasks -> Purposes] /\ on' \in [Tasks -> Clients \cup {None}]
    BY <1>1, <2>1, <2>2, <2>3 DEF Go, Lives, Attempting, Places, Purposes
  <2>5. self' \in Connections /\ self'.opening = c /\ life'[c] # "unused"
    BY <1>1, <2>1, <2>2, <2>3
  <2>6. ASSUME NEW u \in Tasks PROVE Engaged(u)'
    <3>1. CASE u = t
      <4>1. pc'[t] = "awaiting" /\ on'[t] = c
        BY <1>1, <2>1 DEF Go
      <4> QED
        BY <2>1, <2>5, <3>1, <4>1, NoneAssumption DEF Engaged
    <3>2. CASE u # t
      <4>1. Engaged(u) /\ pc'[u] = pc[u] /\ on'[u] = on[u]
        BY <1>1, <2>1, <3>2, SoundParts DEF Go
      <4>2. pc[u] # "idle" => life'[on[u]] = IF on[u] = c THEN l ELSE life[on[u]]
        BY <1>1, <2>2, <4>1 DEF Engaged
      <4>3. pc[u] \in {"calling", "closing"} => on[u] # c
        BY <2>1, <4>1 DEF Engaged, IsConnected, Attempting
      <4> QED
        BY <2>3, <4>1, <4>2, <4>3 DEF Engaged, IsConnected
    <3> QED
      BY <3>1, <3>2
  <2> QED
    BY <2>4, <2>5, <2>6, SoundNext
<1>3. CASE ~(self.opening # None /\ ~Finished(self.opening))
  <2>1. TakeClient(t, what, pc, shut)
    BY <1>3 DEF Close
  <2>2. what \in Purposes
    BY DEF Purposes
  <2> HIDE DEF shut
  <2> QED
    BY <1>1, <2>1, <2>2, TakeClientSound
<1> QED
  BY <1>2, <1>3

(* What comes behind a client that was closed, or a closed connection. *)
LEMMA ClosedSound ==
  ASSUME Sound, NEW t \in Tasks, excuses' \subseteq Excuses,
         ClientClosed(t) \/ \E what \in Teardowns : ReconnectClosed(t, what)
  PROVE  Sound'
<1>1. /\ self \in Connections /\ pc \in [Tasks -> Places] /\ life \in [Clients -> Lives]
      /\ on \in [Tasks -> Clients \cup {None}] /\ kind \in [Tasks -> Purposes]
      /\ (self.opening # None => life[self.opening] # "unused")
      /\ \A u \in Tasks : Engaged(u)
  BY SoundParts
<1>2. ASSUME NEW what \in Teardowns, ReconnectClosed(t, what)
      PROVE  Sound'
  <2>1. AfterClose(t, what, pc, life, self) /\ what \in Purposes
    BY <1>2 DEF ReconnectClosed, Purposes
  <2> QED
    BY <1>1, <2>1, AfterCloseSound DEF Engaged, IsConnected
<1>3. CASE ClientClosed(t)
  <2> DEFINE lives == [life EXCEPT ![on[t]] = "closed"]
  <2>1. pc[t] = "closing" /\ AfterClose(t, kind[t], pc, lives, self)
    BY <1>3 DEF ClientClosed
  <2>2. on[t] \in Clients /\ life[on[t]] \in {"closing", "closed", "cut"}
    BY <1>1, <2>1 DEF Engaged
  <2>3. /\ lives \in [Clients -> Lives]
        /\ self.opening # None => lives[self.opening] # "unused"
    BY <1>1, <2>2 DEF Lives, Connections
  <2>4. ASSUME NEW u \in Tasks \ {t}
        PROVE  /\ pc[u] # "idle" => on[u] # None /\ lives[on[u]] # "unused"
               /\ pc[u] = "calling" => lives[on[u]] = "connected"
               /\ pc[u] = "closing" => lives[on[u]] \in {"closing", "closed", "cut"}
    <3>1. Engaged(u)
      BY <1>1
    <3>2. pc[u] # "idle" => lives[on[u]] = IF on[u] = on[t] THEN "closed" ELSE life[on[u]]
      BY <1>1, <3>1 DEF Engaged
    <3> QED
      BY <2>2, <3>1, <3>2 DEF Engaged, IsConnected
  <2> HIDE DEF lives
  <2>5. kind[t] \in Purposes
    BY <1>1
  <2> QED
    BY <1>1, <2>1, <2>3, <2>4, <2>5, AfterCloseSound
<1> QED
  BY <1>2, <1>3

(* Whoever waited for an attempt goes on, and the task that closes last. *)
LEMMA ResumeSound ==
  ASSUME Sound, NEW c \in Clients, Resume(c), excuses' \subseteq Excuses
  PROVE  Sound'
<1> DEFINE calling == {t \in Waiting(c) : pc[t] = "opening" /\ kind[t] = "call"}
           closing == {t \in Waiting(c) : pc[t] = "awaiting"}
           places == [t \in Tasks |->
                        IF t \in calling /\ IsConnected(c) THEN "sending"
                        ELSE IF t \in Waiting(c) THEN "idle" ELSE pc[t]]
           conn == Awaited(c, calling # {})
<1>1. /\ self \in Connections /\ pc \in [Tasks -> Places] /\ life \in [Clients -> Lives]
      /\ on \in [Tasks -> Clients \cup {None}] /\ kind \in [Tasks -> Purposes]
      /\ \A u \in Tasks : Engaged(u)
  BY SoundParts
<1>2. conn \in Connections /\ conn.opening = None
  BY <1>1 DEF Awaited, Connections
<1>3. /\ places \in [Tasks -> Places]
      /\ \A u \in Tasks : /\ places[u] # "idle" => pc[u] # "idle"
                          /\ places[u] = "calling" => pc[u] = "calling"
                          /\ places[u] = "closing" => pc[u] = "closing"
                          /\ places[u] \in {"idle", "sending"} \/ places[u] = pc[u]
  BY <1>1 DEF Waiting, Places
<1>4. \/ pc' = places /\ self' = conn /\ UNCHANGED <<life, kind, on>>
      \/ \E t \in closing : TakeClient(t, kind[t], places, conn)
  BY DEF Resume
<1> HIDE DEF conn, places
<1>5. CASE pc' = places /\ self' = conn /\ UNCHANGED <<life, kind, on>>
  <2>1. \A u \in Tasks : Engaged(u)'
    BY <1>1, <1>3, <1>5 DEF Engaged, IsConnected
  <2> QED
    BY <1>1, <1>2, <1>3, <1>5, <2>1, SoundNext
<1>6. ASSUME NEW t \in closing, TakeClient(t, kind[t], places, conn)
      PROVE  Sound'
  <2>1. t \in Tasks /\ kind[t] \in Purposes
    BY <1>1 DEF Waiting
  <2> QED
    BY <1>2, <1>3, <1>6, <2>1, TakeClientSound
<1> QED
  BY <1>4, <1>5, <1>6

(* A client connects, fails or drops. *)
LEMMA ClientSound ==
  ASSUME Sound, NEW c \in Clients, Connect(c) \/ Fail(c) \/ TransportClosed(c) \/ Drop(c),
         excuses' \subseteq Excuses
  PROVE  Sound'
<1>1. /\ self \in Connections /\ pc \in [Tasks -> Places] /\ life \in [Clients -> Lives]
      /\ \A u \in Tasks : Engaged(u)
  BY SoundParts
<1>2. PICK l \in {"connected", "failing", "failed", "cancelled", "dropped"} :
        /\ life' = [life EXCEPT ![c] = l]
        /\ life[c] \in Attempting \cup {"connected"}
        /\ l = "dropped" <=> life[c] = "connected"
  BY DEF Connect, Fail, TransportClosed, Drop, Attempting
<1>3. /\ self' \in Connections /\ self'.opening = self.opening
      /\ kind' = kind /\ on' = on
  BY <1>1 DEF Connect, Fail, TransportClosed, Drop, Connections, tasks
<1>4. /\ pc' \in [Tasks -> Places] /\ \A t \in Tasks : pc'[t] \in {pc[t], "idle"}
      /\ life[c] = "connected" => \A t \in Requests(c) : pc'[t] = "idle"
  BY <1>1, <1>2 DEF Connect, Fail, TransportClosed, Drop, tasks, Places, Requests, Attempting
<1>5. ASSUME NEW t \in Tasks, l # "connected", pc'[t] = "calling" PROVE on[t] # c
  BY <1>1, <1>2, <1>4, <1>5 DEF Engaged, IsConnected, Requests, Attempting
<1>6. l \in Lives \ {"unused"} /\ l # "closing" /\ life[c] \notin {"closing", "closed", "cut"}
  BY <1>2 DEF Lives, Attempting
<1> QED
  BY <1>2, <1>3, <1>4, <1>5, <1>6, MoveSound

(* Every step keeps the types, whatever happened before. *)
LEMMA SoundStep ==
  ASSUME Sound, [Next]_vars
  PROVE  Sound'
<1>1. excuses' \subseteq Excuses
  BY ExcusesStep
<1>2. CASE UNCHANGED vars
  BY <1>2 DEF vars, tasks, Sound, TypeOK, Known, IsConnected
<1> QED
  BY <1>1, <1>2, StartSound, JoinSound, RequestSound, CancelTaskSound, CloseSound,
     ClosedSound, ResumeSound, ClientSound DEF Next

----------------------------------------------------------------------------
(* Who answers for each client *)

Dead == Lives \ (Attempting \cup {"connected", "closing", "cut"})

(* While the connection is shut down and no other task has to do with a    *)
(* client, what comes behind close has the only one.                       *)
LEMMA AfterCloseAlone ==
  ASSUME Sound, NEW t \in Tasks, NEW what, NEW places \in [Tasks -> Places],
         NEW lives \in [Clients -> Dead], NEW conn,
         \A u \in Tasks \ {t} : places[u] \in {"idle", "sending", "calling"},
         AfterClose(t, what, places, lives, conn)
  PROVE  Alone'
<1>1. on \in [Tasks -> Clients \cup {None}]
  BY SoundParts
<1>2. ASSUME NEW c \in Clients, life' = [lives EXCEPT ![c] = "starting"],
             self' = [client |-> None, closed |-> FALSE, opening |-> c],
             pc' = [places EXCEPT ![t] = "opening"], on' = [on EXCEPT ![t] = c]
      PROVE  Alone'
  <2>1. /\ pc'[t] = "opening" /\ on'[t] = c /\ life'[c] = "starting"
        /\ \A u \in Tasks \ {t} : pc'[u] \in {"idle", "sending", "calling"}
        /\ \A d \in Clients \ {c} : life'[d] \in Dead
    BY <1>1, <1>2
  <2>2. InLine'
    BY <2>1 DEF InLine, Teardown, Waits
  <2>3. Attempted(c)' /\ Held(c)'
    BY <1>2, <2>1 DEF Attempted, Held, Waits, IsConnected
  <2>4. \A d \in Clients \ {c} : Attempted(d)' /\ Held(d)'
    BY <2>1 DEF Attempted, Held, Dead
  <2> QED
    BY <2>2, <2>3, <2>4 DEF Alone
<1>3. ASSUME pc' = [places EXCEPT ![t] = "idle"], life' = lives
      PROVE  Alone'
  <2>1. \A u \in Tasks : pc'[u] \in {"idle", "sending", "calling"}
    BY <1>3
  <2>2. InLine'
    BY <2>1 DEF InLine, Teardown, Waits
  <2>3. \A d \in Clients : Attempted(d)' /\ Held(d)'
    BY <1>3 DEF Attempted, Held, Dead
  <2> QED
    BY <2>2, <2>3 DEF Alone
<1> QED
  BY <1>2, <1>3 DEF AfterClose

(* The client that is taken to be closed is the only one, too. *)
LEMMA TakeClientAlone ==
  ASSUME Sound, NEW t \in Tasks, NEW what, NEW places \in [Tasks -> Places],
         NEW conn \in Connections, conn.closed,
         \A u \in Tasks \ {t} : places[u] \in {"idle", "sending", "calling"},
         \A c \in Clients : life[c] \in Dead \/ (life[c] = "connected" /\ c = conn.client),
         TakeClient(t, what, places, conn)
  PROVE  Alone'
<1> DEFINE taken == [conn EXCEPT !.client = None]
<1>1. life \in [Clients -> Lives] /\ on \in [Tasks -> Clients \cup {None}]
  BY SoundParts
<1>2. CASE IsConnected(conn.client)
  <2>1. /\ self' = taken /\ life' = [life EXCEPT ![conn.client] = "closing"]
        /\ pc' = [u \in Tasks |-> IF u = t THEN "closing"
                                  ELSE IF u \in Requests(conn.client) THEN "idle"
                                  ELSE places[u]]
        /\ on' = [on EXCEPT ![t] = conn.client]
    BY <1>2 DEF TakeClient
  <2>2. conn.client \in Clients /\ self'.closed
    BY <1>2, <2>1 DEF Connections, IsConnected
  <2>3. /\ pc'[t] = "closing" /\ on'[t] = conn.client
        /\ \A u \in Tasks \ {t} : pc'[u] \in {"idle", "sending", "calling"}
    BY <1>1, <2>1
  <2>4. \A c \in Clients : \/ life'[c] \in Dead
                           \/ life'[c] = "closing" /\ c = conn.client
    BY <1>1, <2>1, <2>2
  <2>5. InLine'
    BY <2>2, <2>3 DEF InLine, Teardown, Waits
  <2>6. \A c \in Clients : Attempted(c)' /\ Held(c)'
    BY <2>3, <2>4 DEF Attempted, Held, Dead, Attempting
  <2> QED
    BY <2>5, <2>6 DEF Alone
<1>3. CASE ~IsConnected(conn.client)
  <2>1. AfterClose(t, what, places, life, taken)
    BY <1>3 DEF TakeClient
  <2>2. life \in [Clients -> Dead]
    BY <1>1, <1>3, NoneAssumption DEF IsConnected
  <2> HIDE DEF taken
  <2> QED
    BY <2>1, <2>2, AfterCloseAlone
<1> QED
  BY <1>2, <1>3

(* A step that changes no client nor who waits or shuts down.              *)
LEMMA QuietStep ==
  ASSUME Sound, Alone, life' = life, self' = self,
         \A u \in Tasks : \/ pc'[u] = pc[u] /\ on'[u] = on[u]
                          \/ {pc[u], pc'[u]} \subseteq {"idle", "sending", "calling"}
  PROVE  Alone'
<1>1. \A u \in Tasks : /\ Teardown(u)' <=> Teardown(u)
                       /\ Waits(u)' <=> Waits(u)
                       /\ (pc'[u] = "awaiting") <=> (pc[u] = "awaiting")
                       /\ (pc'[u] = "closing") <=> (pc[u] = "closing")
                       /\ Teardown(u) \/ Waits(u) => on'[u] = on[u]
  BY DEF Teardown, Waits
<1>2. InLine'
  BY <1>1 DEF Alone, InLine
<1>3. ASSUME NEW c \in Clients PROVE Attempted(c)' /\ Held(c)'
  <2>1. Attempted(c) /\ Held(c)
    BY DEF Alone
  <2>2. Attempted(c)'
    BY <1>1, <2>1 DEF Attempted, IsConnected
  <2>3. (\E u \in Tasks : pc[u] = "closing" /\ on[u] = c)
          => (\E u \in Tasks : pc'[u] = "closing" /\ on'[u] = c)
    BY <1>1 DEF Teardown
  <2> QED
    BY <1>1, <2>1, <2>2, <2>3 DEF Held
<1> QED
  BY <1>2, <1>3 DEF Alone

(* Consequences of Alone that several steps use. *)
LEMMA AloneFacts ==
  ASSUME Sound, Alone
  PROVE  /\ \A c \in Clients : life[c] = "connected" => c = self.client /\ ~self.closed
         /\ \A c \in Clients : life[c] \in Attempting =>
              /\ c = self.opening
              /\ \A d \in Clients : life[d] # "connected"
              /\ \A u \in Tasks : Waits(u) => on[u] = c
         /\ \A c \in Clients : life[c] = "closing" =>
              self.closed /\ \E u \in Tasks : pc[u] = "closing" /\ on[u] = c
         /\ \A c, d \in Clients : life[c] = "closing" => life[d] \notin Attempting
         /\ \A c \in Clients : life[c] # "cut"
<1>1. ASSUME NEW c \in Clients
      PROVE  /\ life[c] = "connected" => c = self.client /\ ~self.closed
             /\ life[c] # "cut"
             /\ life[c] = "closing" =>
                  self.closed /\ \E u \in Tasks : pc[u] = "closing" /\ on[u] = c
  BY DEF Alone, Held, InLine, Teardown
<1>2. ASSUME NEW c \in Clients, life[c] \in Attempting
      PROVE  /\ c = self.opening
             /\ \A d \in Clients : life[d] # "connected"
             /\ \A u \in Tasks : Waits(u) => on[u] = c
  <2>1. Attempted(c) /\ InLine
    BY DEF Alone
  <2>2. \A d \in Clients : life[d] # "connected"
    BY <1>1, <1>2, <2>1, NoneAssumption DEF Attempted, IsConnected
  <2> QED
    BY <1>2, <2>1, <2>2 DEF Attempted, InLine
<1>3. ASSUME NEW c \in Clients, NEW d \in Clients, life[c] = "closing",
             life[d] \in Attempting
      PROVE  FALSE
  <2>1. PICK u \in Tasks : pc[u] = "closing"
    BY <1>1, <1>3
  <2>2. PICK v \in Tasks : pc[v] = "awaiting"
    BY <1>1, <1>3 DEF Alone, Attempted
  <2> QED
    BY <2>1, <2>2 DEF Alone, InLine, Teardown
<1> QED
  BY <1>1, <1>2, <1>3

(* A cancel of an attempt: unless it cuts the closing of the transport     *)
(* short, the attempt ends, at once or when its transport is closed.       *)
LEMMA CancelAlone ==
  ASSUME Sound, Alone, NEW c \in Clients, life[c] \in Attempting, CancelAttempt(c),
         excuses' = {}, UNCHANGED <<self, pc, kind, on>>
  PROVE  Alone'
<1>1. PICK l \in {"cancelling", "cancelled"} : life' = [life EXCEPT ![c] = l]
  BY AfterCancelLives DEF CancelAttempt
<1>2. /\ life \in [Clients -> Lives] /\ Attempted(c) /\ InLine
      /\ \A d \in Clients \ {c} : life'[d] = life[d]
      /\ life'[c] = l /\ (l \in Attempting => l = "cancelling")
  BY <1>1, SoundParts DEF Alone, Attempting
<1>3. InLine'
  BY <1>2 DEF InLine, Teardown, Waits
<1>4. Attempted(c)' /\ Held(c)'
  <2>1. ~IsConnected(self.client)'
    BY <1>1, <1>2 DEF Attempted, IsConnected
  <2> QED
    BY <1>1, <1>2, <2>1 DEF Attempted, Held, Waits, Attempting
<1>5. \A d \in Clients \ {c} : Attempted(d)' /\ Held(d)'
  <2> SUFFICES ASSUME NEW d \in Clients \ {c} PROVE Attempted(d)' /\ Held(d)'
    OBVIOUS
  <2>1. life'[d] = life[d] /\ life[d] \notin Attempting \cup {"connected", "closing", "cut"}
    BY <1>2, AloneFacts
  <2> QED
    BY <2>1 DEF Attempted, Held
<1> QED
  BY <1>3, <1>4, <1>5 DEF Alone

(* An attempt is only begun where no client is left. *)
LEMMA StartAlone ==
  ASSUME Sound, Alone, NEW t \in Tasks, NEW what \in {"call", "connect"},
         StartAttempt(t, what), excuses' = {}
  PROVE  Alone'
<1>1. PICK c \in Clients :
        /\ life[c] = "unused" /\ life' = [life EXCEPT ![c] = "starting"]
        /\ self' = [self EXCEPT !.opening = c]
        /\ pc' = [pc EXCEPT ![t] = "opening"] /\ on' = [on EXCEPT ![t] = c]
  BY DEF StartAttempt, Go
<1>2. /\ self \in Connections /\ life \in [Clients -> Lives] /\ pc \in [Tasks -> Places]
      /\ on \in [Tasks -> Clients \cup {None}] /\ \A u \in Tasks : Engaged(u)
      /\ ~self.closed /\ ~IsConnected(self.client) /\ self.opening = None
      /\ LateWaiter = {}
  BY SoundParts DEF StartAttempt, NeedsClient
<1>3. \A d \in Clients : life[d] \in Dead
  BY <1>2, AloneFacts, NoneAssumption DEF Dead, IsConnected
<1>4. ASSUME NEW u \in Tasks PROVE ~Waits(u) /\ ~Teardown(u)
  <2>1. ~Teardown(u)
    BY <1>2 DEF Alone, InLine
  <2>2. ASSUME Waits(u) PROVE FALSE
    <3>1. on[u] \in Clients /\ Finished(on[u]) /\ u \in Waiting(on[u])
      BY <1>2, <1>3, <2>2 DEF Waits, Engaged, Finished, Dead, Waiting
    <3> QED
      BY <1>2, <3>1 DEF LateWaiter
  <2> QED
    BY <2>1, <2>2
<1>5. /\ self'.closed = FALSE /\ self'.opening = c /\ self'.client = self.client
      /\ life'[c] = "starting" /\ pc'[t] = "opening" /\ on'[t] = c
      /\ \A d \in Clients \ {c} : life'[d] \in Dead
      /\ \A u \in Tasks \ {t} : ~Waits(u)' /\ ~Teardown(u)'
  BY <1>1, <1>2, <1>3, <1>4 DEF Connections, Waits, Teardown
<1>6. InLine'
  BY <1>5 DEF InLine, Teardown, Waits
<1>7. ~IsConnected(self.client)'
  BY <1>1, <1>2, <1>3, <1>5 DEF IsConnected, Connections
<1>8. Attempted(c)' /\ Held(c)'
  BY <1>1, <1>5, <1>7 DEF Attempted, Held, Waits
<1>9. \A d \in Clients \ {c} : Attempted(d)' /\ Held(d)'
  BY <1>5 DEF Attempted, Held, Dead
<1> QED
  BY <1>6, <1>8, <1>9 DEF Alone

(* Who joins an attempt waits where everybody waits. *)
LEMMA JoinAlone ==
  ASSUME Sound, Alone, NEW t \in Tasks, NEW what \in {"call", "connect"},
         JoinAttempt(t, what)
  PROVE  Alone'
<1>1. PICK c \in Clients :
      /\ c = self.opening /\ self' = self /\ life' = life /\ life[c] \in Attempting
      /\ ~self.closed /\ pc[t] = "idle"
      /\ pc' = [pc EXCEPT ![t] = "opening"] /\ on' = [on EXCEPT ![t] = c]
      /\ pc \in [Tasks -> Places] /\ on \in [Tasks -> Clients \cup {None}]
  BY SoundParts DEF JoinAttempt, NeedsClient, Go, Finished, Connections
<1>2. /\ pc'[t] = "opening" /\ on'[t] = c
      /\ \A u \in Tasks \ {t} : pc'[u] = pc[u] /\ on'[u] = on[u]
  BY <1>1
<1>3. /\ \A u \in Tasks : Waits(u) => on[u] = c
      /\ \A u \in Tasks : ~Teardown(u)
      /\ \A d \in Clients \ {c} : life[d] \notin Attempting \cup {"connected", "closing"}
      /\ \A d \in Clients : life[d] # "cut"
  BY <1>1, AloneFacts DEF Alone, InLine
<1>4. InLine'
  BY <1>1, <1>2, <1>3 DEF InLine, Teardown, Waits
<1>5. Attempted(c)' /\ Held(c)'
  <2>1. Attempted(c)
    BY <1>1 DEF Alone
  <2>2. ~IsConnected(self.client)'
    BY <1>1, <2>1 DEF Attempted, IsConnected
  <2> QED
    BY <1>1, <1>2, <2>1, <2>2 DEF Attempted, Held, Waits, Attempting
<1>6. \A d \in Clients \ {c} : Attempted(d)' /\ Held(d)'
  BY <1>1, <1>3 DEF Attempted, Held
<1> QED
  BY <1>4, <1>5, <1>6 DEF Alone

(* Without a client behind a server, only the tasks are left to look at.   *)
LEMMA DeadStep ==
  ASSUME Sound, life' \in [Clients -> Dead], InLine'
  PROVE  Alone'
<1>1. \A c \in Clients : Attempted(c)' /\ Held(c)'
  BY DEF Attempted, Held, Dead
<1> QED
  BY <1>1 DEF Alone

(* The attempt that has failed is forgotten. *)
LEMMA JoinFinishedAlone ==
  ASSUME Sound, Alone, NEW t \in Tasks, NEW what \in {"call", "connect"},
         JoinFinished(t, what)
  PROVE  Alone'
<1>1. /\ self \in Connections /\ life \in [Clients -> Lives] /\ pc \in [Tasks -> Places]
      /\ on \in [Tasks -> Clients \cup {None}] /\ life' = life
      /\ ~self.closed /\ ~IsConnected(self.client) /\ Finished(self.opening)
      /\ pc[t] = "idle"
  BY SoundParts DEF JoinFinished, NeedsClient
<1>2. life' \in [Clients -> Dead]
  BY <1>1, AloneFacts, NoneAssumption DEF Dead, IsConnected, Finished
<1>3. \A u \in Tasks : (pc'[u] = pc[u] /\ on'[u] = on[u]) \/ pc'[u] = "sending"
  BY <1>1 DEF JoinFinished, Go, tasks
<1>4. \A u \in Tasks : ~Teardown(u)
  BY <1>1 DEF Alone, InLine
<1>5. InLine'
  BY <1>3, <1>4 DEF Alone, InLine, Teardown, Waits
<1> QED
  BY <1>2, <1>5, DeadStep

(* A request that cannot be sent forgets no client that lives. *)
LEMMA RequestAlone ==
  ASSUME Sound, Alone, NEW t \in Tasks,
         UseClient(t) \/ Send(t) \/ Answer(t) \/ SendFails(t), excuses' = {}
  PROVE  Alone'
<1>1. /\ life \in [Clients -> Lives] /\ pc \in [Tasks -> Places] /\ life' = life
      /\ on \in [Tasks -> Clients \cup {None}] /\ self \in Connections
  BY SoundParts DEF UseClient, Send, Answer, SendFails
<1>2. CASE UseClient(t) \/ Send(t) \/ Answer(t)
  <2>1. ASSUME NEW u \in Tasks
        PROVE  \/ pc'[u] = pc[u] /\ on'[u] = on[u]
               \/ {pc[u], pc'[u]} \subseteq {"idle", "sending", "calling"}
    BY <1>1, <1>2 DEF UseClient, Send, Answer, Go
  <2> QED
    BY <1>1, <1>2, <2>1, QuietStep DEF UseClient, Send, Answer
<1>3. CASE SendFails(t)
  <2>1. ~IsConnected(on[t]) /\ (self.client # on[t] => ~IsConnected(self.client))
    BY <1>3 DEF SendFails
  <2>2. \A c \in Clients : life[c] # "connected"
    BY <2>1, AloneFacts, NoneAssumption DEF IsConnected
  <2>3. /\ self'.closed = self.closed /\ self'.opening = self.opening
        /\ self'.client = None /\ on' = on
        /\ \A u \in Tasks : pc'[u] = pc[u] \/ (u = t /\ pc[u] = "sending" /\ pc'[u] = "idle")
    BY <1>1, <1>3 DEF SendFails, Connections
  <2>4. InLine'
    BY <2>3 DEF Alone, InLine, Teardown, Waits
  <2>5. ASSUME NEW c \in Clients PROVE Attempted(c)' /\ Held(c)'
    <3>1. Attempted(c) /\ Held(c)
      BY DEF Alone
    <3>2. Attempted(c)'
      BY <1>1, <2>3, <3>1 DEF Attempted, IsConnected, Waits
    <3>3. Held(c)'
      BY <1>1, <2>2, <2>3, <3>1 DEF Held
    <3> QED
      BY <3>2, <3>3
  <2> QED
    BY <2>4, <2>5 DEF Alone
<1> QED
  BY <1>2, <1>3

(* A teardown that is cancelled while it closes the client leaves none. *)
LEMMA CancelTaskAlone ==
  ASSUME Sound, Alone, NEW t \in Tasks, CancelCall(t) \/ CancelTeardown(t), excuses' = {}
  PROVE  Alone'
<1>1. /\ life \in [Clients -> Lives] /\ pc \in [Tasks -> Places]
      /\ on \in [Tasks -> Clients \cup {None}] /\ self' = self /\ on' = on /\ Engaged(t)
  BY SoundParts DEF CancelCall, CancelTeardown
<1>2. CASE pc[t] \in {"opening", "awaiting"} /\ ~Finished(on[t]) /\ CancelAttempt(on[t])
             /\ UNCHANGED pc
  <2>1. on[t] \in Clients /\ life[on[t]] \in Attempting
    BY <1>1, <1>2 DEF Engaged, Finished
  <2>2. kind' = kind
    BY DEF CancelCall, CancelTeardown
  <2> QED
    BY <1>1, <1>2, <2>1, <2>2, CancelAlone
<1>3. CASE pc[t] \in {"sending", "calling"} /\ pc' = [pc EXCEPT ![t] = "idle"]
             /\ life' = life
  <2>1. \A u \in Tasks : \/ pc'[u] = pc[u] /\ on'[u] = on[u]
                         \/ {pc[u], pc'[u]} \subseteq {"idle", "sending", "calling"}
    BY <1>1, <1>3
  <2> QED
    BY <1>1, <1>3, <2>1, QuietStep
<1>4. ASSUME pc[t] = "closing", life' = [life EXCEPT ![on[t]] = "closed"],
             pc' = [pc EXCEPT ![t] = "idle"]
      PROVE  Alone'
  <2>1. on[t] \in Clients /\ self.closed /\ \A u \in Tasks : Teardown(u) => u = t
    BY <1>1, <1>4 DEF Engaged, Alone, InLine, Teardown
  <2>2. ASSUME NEW c \in Clients, c # on[t] PROVE life[c] \in Dead
    <3>1. life[c] # "closing"
      BY <2>1, <2>2, AloneFacts DEF Teardown
    <3>2. life[c] # "connected" /\ life[c] # "cut"
      BY <2>1, AloneFacts
    <3>3. ASSUME life[c] \in Attempting PROVE FALSE
      <4>1. PICK u \in Tasks : pc[u] = "awaiting"
        BY <2>1, <3>3 DEF Alone, Attempted
      <4> QED
        BY <1>4, <2>1, <4>1 DEF Teardown
    <3> QED
      BY <1>1, <3>1, <3>2, <3>3 DEF Dead
  <2>3. life' \in [Clients -> Dead]
    BY <1>1, <1>4, <2>1, <2>2 DEF Dead, Lives, Attempting
  <2>4. InLine'
    BY <1>1, <1>4 DEF Alone, InLine, Teardown, Waits
  <2> QED
    BY <2>3, <2>4, DeadStep
<1>5. ASSUME pc[t] = "closing", NEW l \in {"closed", "cut"},
             excuses' = excuses \cup ({l} \cap {"cut"})
      PROVE  l = "closed"
  BY <1>5
<1> QED
  BY <1>2, <1>3, <1>4, <1>5 DEF CancelCall, CancelTeardown

(* Closing hands the attempt or the client to the task that closes. *)
LEMMA CloseAlone ==
  ASSUME Sound, Alone, NEW t \in Tasks, NEW what \in Teardowns, Close(t, what),
         excuses' = {}
  PROVE  Alone'
<1> DEFINE shut == [self EXCEPT !.closed = TRUE]
<1>1. /\ self \in Connections /\ life \in [Clients -> Lives] /\ pc \in [Tasks -> Places]
      /\ on \in [Tasks -> Clients \cup {None}] /\ \A u \in Tasks : Engaged(u)
      /\ shut \in Connections /\ shut.closed
      /\ shut.client = self.client /\ shut.opening = self.opening
      /\ pc[t] = "idle" /\ ~self.closed
  BY SoundParts DEF Close, Connections
<1>2. \A u \in Tasks : ~Teardown(u)
  BY <1>1 DEF Alone, InLine
<1>3. \A c \in Clients : life[c] \notin {"closing", "cut"}
  BY <1>1, AloneFacts
<1>4. CASE self.opening # None /\ ~Finished(self.opening)
  <2>1. PICK c \in Clients :
          /\ c = self.opening /\ life[c] \in Attempting /\ self' = shut
          /\ CancelAttempt(c) /\ Go(t, what, "awaiting", c)
    BY <1>1, <1>4 DEF Close, Finished, Connections
  <2>2. PICK l \in {"cancelling", "cancelled"} : life' = [life EXCEPT ![c] = l]
    BY <2>1, AfterCancelLives DEF CancelAttempt
  <2>3. /\ pc'[t] = "awaiting" /\ on'[t] = c
        /\ \A u \in Tasks \ {t} : pc'[u] = pc[u] /\ on'[u] = on[u]
    BY <1>1, <2>1 DEF Go
  <2>4. /\ \A u \in Tasks : Waits(u) => on[u] = c
        /\ \A d \in Clients \ {c} : life[d] \in Dead
    BY <1>1, <1>3, <2>1, AloneFacts DEF Dead
  <2>5. InLine'
    BY <1>1, <1>2, <2>1, <2>3, <2>4 DEF InLine, Teardown, Waits
  <2>6. life'[c] = l /\ \A d \in Clients \ {c} : life'[d] \in Dead
    BY <1>1, <2>2, <2>4
  <2>7. ~IsConnected(self.client)'
    BY <1>1, <2>1, <2>2, <2>6, NoneAssumption DEF IsConnected, Connections, Dead
  <2>8. Attempted(c)' /\ Held(c)'
    BY <1>1, <2>1, <2>2, <2>3, <2>6, <2>7 DEF Attempted, Held, Waits
  <2>9. \A d \in Clients \ {c} : Attempted(d)' /\ Held(d)'
    BY <2>6 DEF Attempted, Held, Dead
  <2> QED
    BY <2>5, <2>8, <2>9 DEF Alone
<1>5. CASE ~(self.opening # None /\ ~Finished(self.opening))
  <2>1. TakeClient(t, what, pc, shut) /\ LateWaiter = {}
    BY <1>5 DEF Close
  <2>2. \A c \in Clients : life[c] \notin Attempting
    BY <1>5, AloneFacts, NoneAssumption DEF Finished
  <2>3. ASSUME NEW u \in Tasks PROVE pc[u] \in {"idle", "sending", "calling"}
    <3>1. ASSUME Waits(u) PROVE FALSE
      <4>1. on[u] \in Clients /\ Finished(on[u]) /\ u \in Waiting(on[u])
        BY <1>1, <2>2, <3>1 DEF Waits, Engaged, Finished, Waiting
      <4> QED
        BY <2>1, <4>1 DEF LateWaiter
    <3> QED
      BY <1>1, <1>2, <3>1 DEF Waits, Teardown, Places
  <2>4. \A c \in Clients : life[c] \in Dead \/ (life[c] = "connected" /\ c = shut.client)
    BY <1>1, <1>3, <2>2, AloneFacts DEF Dead
  <2> HIDE DEF shut
  <2> QED
    BY <1>1, <2>1, <2>3, <2>4, TakeClientAlone
<1> QED
  BY <1>4, <1>5

(* A reconnect starts where its close has left no client. *)
LEMMA ClosedAlone ==
  ASSUME Sound, Alone, NEW t \in Tasks, excuses' = {},
         ClientClosed(t) \/ \E what \in Teardowns : ReconnectClosed(t, what)
  PROVE  Alone'
<1>1. /\ life \in [Clients -> Lives] /\ pc \in [Tasks -> Places]
      /\ on \in [Tasks -> Clients \cup {None}] /\ \A u \in Tasks : Engaged(u)
      /\ LateWaiter = {}
  BY SoundParts DEF ClientClosed, ReconnectClosed
<1>2. self.closed /\ \A u \in Tasks \ {t} : ~Teardown(u)
  <2>1. CASE ClientClosed(t)
    BY <2>1 DEF ClientClosed, Alone, InLine, Teardown
  <2>2. ASSUME NEW what \in Teardowns, ReconnectClosed(t, what)
        PROVE  self.closed /\ \A u \in Tasks : ~Teardown(u)
    BY <2>2 DEF ReconnectClosed, Teardown
  <2> QED
    BY <2>1, <2>2
<1>3. pc[t] # "awaiting"
  BY DEF ClientClosed, ReconnectClosed
<1>4. ASSUME NEW c \in Clients PROVE life[c] \notin Attempting \cup {"connected", "cut"}
  <2>1. life[c] # "connected" /\ life[c] # "cut"
    BY <1>2, AloneFacts
  <2>2. ASSUME life[c] \in Attempting PROVE FALSE
    <3>1. PICK u \in Tasks : pc[u] = "awaiting"
      BY <1>2, <2>2 DEF Alone, Attempted
    <3> QED
      BY <1>2, <1>3, <3>1 DEF Teardown
  <2> QED
    BY <2>1, <2>2
<1>5. ASSUME NEW u \in Tasks \ {t} PROVE pc[u] \in {"idle", "sending", "calling"}
  <2>1. ASSUME Waits(u) PROVE FALSE
    <3>1. on[u] \in Clients /\ Finished(on[u]) /\ u \in Waiting(on[u])
      BY <1>1, <1>4, <2>1 DEF Waits, Engaged, Finished, Waiting
    <3> QED
      BY <1>1, <3>1 DEF LateWaiter
  <2> QED
    BY <1>1, <1>2, <2>1 DEF Waits, Teardown, Places
<1>6. ASSUME NEW c \in Clients, life[c] = "closing" PROVE pc[t] = "closing" /\ on[t] = c
  BY <1>2, <1>6, AloneFacts DEF Teardown
<1>7. ASSUME NEW what \in Teardowns, ReconnectClosed(t, what)
      PROVE  Alone'
  <2>1. AfterClose(t, what, pc, life, self) /\ pc[t] = "idle"
    BY <1>7 DEF ReconnectClosed
  <2>2. life \in [Clients -> Dead]
    BY <1>1, <1>4, <1>6, <2>1 DEF Dead
  <2> QED
    BY <1>1, <1>5, <2>1, <2>2, AfterCloseAlone
<1>8. CASE ClientClosed(t)
  <2> DEFINE lives == [life EXCEPT ![on[t]] = "closed"]
  <2>1. AfterClose(t, kind[t], pc, lives, self)
    BY <1>8 DEF ClientClosed
  <2>2. \A c \in Clients : lives[c] \in Dead
    BY <1>1, <1>4, <1>6 DEF Dead, Lives, Attempting
  <2>3. lives \in [Clients -> Dead]
    BY <1>1, <2>2
  <2> HIDE DEF lives
  <2> QED
    BY <1>1, <1>5, <2>1, <2>3, AfterCloseAlone
<1> QED
  BY <1>7, <1>8

(* The waiters that resume forget no client that lives. *)
LEMMA ResumeAlone ==
  ASSUME Sound, Alone, NEW c \in Clients, Resume(c)
  PROVE  Alone'
<1> DEFINE calling == {t \in Waiting(c) : pc[t] = "opening" /\ kind[t] = "call"}
           closing == {t \in Waiting(c) : pc[t] = "awaiting"}
           places == [t \in Tasks |->
                        IF t \in calling /\ IsConnected(c) THEN "sending"
                        ELSE IF t \in Waiting(c) THEN "idle" ELSE pc[t]]
           conn == Awaited(c, calling # {})
<1>1. /\ self \in Connections /\ life \in [Clients -> Lives] /\ pc \in [Tasks -> Places]
      /\ Finished(c) /\ Waiting(c) # {} /\ \A u \in Tasks : Waits(u) <=> u \in Waiting(c)
  <2>1. PICK w \in Tasks : Waits(w) /\ on[w] = c
    BY DEF Resume, Waiting, Waits
  <2>2. \A u \in Tasks : Waits(u) => on[u] = c
    BY <2>1 DEF Alone, InLine
  <2> QED
    BY <2>1, <2>2, SoundParts DEF Resume, Waiting, Waits
<1>2. \A d \in Clients : life[d] \notin Attempting
  <2> SUFFICES ASSUME NEW d \in Clients, life[d] \in Attempting PROVE FALSE
    OBVIOUS
  <2>1. PICK w \in Tasks : Waits(w) /\ on[w] = c
    BY <1>1 DEF Waiting, Waits
  <2>2. c = d
    BY <2>1, AloneFacts
  <2> QED
    BY <1>1, <2>2 DEF Finished
<1>3. \A d \in Clients : life[d] = "connected" => d = c
  <2>1. PICK w \in Tasks : Waits(w) /\ on[w] = c
    BY <1>1 DEF Waiting, Waits
  <2> QED
    BY <2>1 DEF Alone, Held
<1>4. /\ conn \in Connections /\ conn.closed = self.closed /\ conn.opening = None
      /\ life[c] = "connected" => conn.client = self.client
  BY <1>1 DEF Awaited, Connections
<1>5. /\ places \in [Tasks -> Places]
      /\ \A u \in Tasks : /\ places[u] \notin {"opening", "awaiting"}
                          /\ places[u] = "closing" <=> pc[u] = "closing"
  BY <1>1 DEF Waits, Waiting, Places
<1>6. \/ pc' = places /\ self' = conn /\ UNCHANGED <<life, kind, on>>
      \/ \E t \in closing : TakeClient(t, kind[t], places, conn)
  BY DEF Resume
<1> HIDE DEF conn, places
<1>7. CASE pc' = places /\ self' = conn /\ UNCHANGED <<life, kind, on>>
  <2>1. InLine'
    BY <1>4, <1>5, <1>7 DEF Alone, InLine, Teardown, Waits
  <2>2. ASSUME NEW d \in Clients PROVE Attempted(d)' /\ Held(d)'
    <3>1. Attempted(d)'
      BY <1>2, <1>7 DEF Attempted
    <3>2. Held(d) /\ (life[d] = "connected" => conn.client = self.client)
      BY <1>3, <1>4 DEF Alone
    <3>3. Held(d)'
      BY <1>4, <1>5, <1>7, <3>2 DEF Held, Waits
    <3> QED
      BY <3>1, <3>3
  <2> QED
    BY <2>1, <2>2 DEF Alone
<1>8. ASSUME NEW t \in closing, TakeClient(t, kind[t], places, conn)
      PROVE  Alone'
  <2>1. t \in Tasks /\ pc[t] = "awaiting"
    BY DEF Waiting
  <2>2. self.closed /\ \A u \in Tasks : pc[u] # "closing"
    BY <2>1 DEF Alone, InLine, Teardown
  <2>3. \A d \in Clients : life[d] \in Dead
    BY <1>1, <1>2, <2>2, AloneFacts DEF Dead
  <2>4. \A u \in Tasks \ {t} : places[u] \in {"idle", "sending", "calling"}
    BY <1>5, <2>2 DEF Places
  <2> QED
    BY <1>4, <1>5, <1>8, <2>1, <2>2, <2>3, <2>4, TakeClientAlone
<1> QED
  BY <1>6, <1>7, <1>8

(* The client that connects is the connection's. *)
LEMMA ConnectAlone ==
  ASSUME Sound, Alone, NEW c \in Clients, Connect(c)
  PROVE  Alone'
<1>1. /\ self \in Connections /\ life \in [Clients -> Lives] /\ life[c] = "starting"
      /\ life' = [life EXCEPT ![c] = "connected"] /\ self' = [self EXCEPT !.client = c]
      /\ pc' = pc /\ on' = on
  BY SoundParts DEF Connect, tasks
<1>2. life[c] \in Attempting
  BY <1>1 DEF Attempting
<1>3. c = self.opening /\ ~self.closed /\ \A u \in Tasks : Waits(u) => on[u] = c
  BY <1>1, <1>2, AloneFacts DEF Alone, Attempted
<1>4. \A d \in Clients \ {c} : life[d] \in Dead
  BY <1>1, <1>2, <1>3, AloneFacts DEF Dead
<1>5. /\ self'.client = c /\ self'.closed = FALSE /\ life'[c] = "connected"
      /\ \A d \in Clients \ {c} : life'[d] \in Dead
  BY <1>1, <1>3, <1>4 DEF Connections
<1>6. InLine'
  BY <1>1, <1>3, <1>5 DEF Alone, InLine, Teardown, Waits
<1>7. Attempted(c)' /\ Held(c)'
  BY <1>1, <1>3, <1>5 DEF Attempted, Held, Waits, Attempting
<1>8. \A d \in Clients \ {c} : Attempted(d)' /\ Held(d)'
  BY <1>5 DEF Attempted, Held, Dead
<1> QED
  BY <1>6, <1>7, <1>8 DEF Alone

(* The attempt fails, or its transport is closed. *)
LEMMA FailAlone ==
  ASSUME Sound, Alone, NEW c \in Clients, Fail(c) \/ TransportClosed(c)
  PROVE  Alone'
<1>1. PICK l \in {"failing", "failed", "cancelled"} :
        /\ life' = [life EXCEPT ![c] = l] /\ self' = self /\ pc' = pc /\ on' = on
        /\ life[c] \in Attempting /\ (l = "failing" => life[c] = "starting")
  BY DEF Fail, TransportClosed, tasks, Attempting
<1>2. life \in [Clients -> Lives] /\ Attempted(c) /\ InLine
  BY SoundParts DEF Alone
<1>3. InLine'
  BY <1>1, <1>2 DEF InLine, Teardown, Waits
<1>4. \A d \in Clients \ {c} :
        life[d] \notin Attempting \cup {"connected", "closing", "cut"}
  BY <1>1, AloneFacts
<1>5. life'[c] = l /\ \A d \in Clients \ {c} : life'[d] = life[d]
  BY <1>1, <1>2
<1>6. ~IsConnected(self.client)'
  BY <1>1, <1>2, <1>5, SoundParts DEF Attempted, IsConnected, Connections
<1>7. Attempted(c)' /\ Held(c)'
  BY <1>1, <1>2, <1>5, <1>6 DEF Attempted, Held, Waits, Attempting
<1>8. \A d \in Clients \ {c} : Attempted(d)' /\ Held(d)'
  BY <1>4, <1>5 DEF Attempted, Held
<1> QED
  BY <1>3, <1>7, <1>8 DEF Alone

(* A server that is gone needs nobody. *)
LEMMA DropAlone ==
  ASSUME Sound, Alone, NEW c \in Clients, Drop(c)
  PROVE  Alone'
<1>1. /\ self \in Connections /\ life \in [Clients -> Lives] /\ pc \in [Tasks -> Places]
      /\ life[c] = "connected" /\ life' = [life EXCEPT ![c] = "dropped"] /\ on' = on
      /\ \A u \in Tasks : pc'[u] = pc[u] \/ (pc[u] = "calling" /\ pc'[u] = "idle")
  BY SoundParts DEF Drop, Requests
<1>2. \A d \in Clients \ {c} : life[d] \in Dead
  BY <1>1, AloneFacts DEF Dead
<1>3. life' \in [Clients -> Dead]
  BY <1>1, <1>2 DEF Dead, Lives, Attempting
<1>4. self'.closed = self.closed
  BY <1>1 DEF Drop, Connections
<1>5. InLine'
  BY <1>1, <1>4 DEF Alone, InLine, Teardown, Waits
<1> QED
  BY <1>3, <1>5, DeadStep

(* Every step without an excuse leaves each client in somebody's care. *)
LEMMA AloneStep ==
  ASSUME Sound, Alone, [Next]_vars, excuses' = {}
  PROVE  Alone'
<1>1. CASE UNCHANGED vars
  BY <1>1, QuietStep DEF vars, tasks
<1> QED
  BY <1>1, StartAlone, JoinAlone, JoinFinishedAlone, RequestAlone, CancelTaskAlone,
     CloseAlone, ClosedAlone, ResumeAlone, ConnectAlone, FailAlone, DropAlone DEF Next

----------------------------------------------------------------------------
(* The theorems *)

(* The invariant holds initially. *)
LEMMA InitHolds == Init => IInv
<1> SUFFICES ASSUME Init PROVE IInv
  OBVIOUS
<1>1. Sound
  BY DEF Init, Sound, TypeOK, Known, Lives, Attempting, Excuses
<1>2. Alone
  BY DEF Init, Alone, InLine, Teardown, Waits, Attempted, Held, Attempting
<1> QED
  BY <1>1, <1>2 DEF IInv

(* Every step preserves it, with an excuse or without. *)
LEMMA StepHolds ==
  ASSUME IInv, [Next]_vars
  PROVE  IInv'
<1>1. Sound /\ Sound'
  BY SoundStep DEF IInv
<1>2. ASSUME excuses' = {} PROVE Alone'
  <2>1. excuses = {}
    BY <1>1, <1>2, ExcusesStep
  <2> QED
    BY <1>1, <1>2, <2>1, AloneStep DEF IInv
<1> QED
  BY <1>1, <1>2 DEF IInv

(* So it holds throughout. *)
LEMMA Inductive == Spec => []IInv
<1>1. Init => IInv
  BY InitHolds
<1>2. IInv /\ [Next]_vars => IInv'
  BY StepHolds
<1> QED
  BY <1>1, <1>2, PTL DEF Spec

(* The fields keep their types, nobody waits for a client that was never   *)
(* started, and no request waits for a server that is gone: also after an  *)
(* excuse, where the runs do not follow.                                   *)
THEOREM TypeCorrect == Spec => []TypeOK
<1>1. IInv => TypeOK
  BY DEF IInv, Sound
<1> QED
  BY <1>1, Inductive, PTL

(* One server at most runs, and it is never left to itself: "leaking one   *)
(* orphans the process" (manager.py:8-9), for any number of tasks that     *)
(* call, cancel, close and reconnect, and of clients they open.            *)
THEOREM NoServerIsOrphaned == Spec => []NoOrphan
<1>1. ASSUME IInv PROVE NoOrphan
  <2> SUFFICES ASSUME excuses = {}
               PROVE  Cardinality(Live) <= 1 /\ \A c \in Live : IsKept(c)
    BY DEF NoOrphan
  <2>1. Sound /\ Alone
    BY <1>1 DEF IInv
  <2>2. \A c \in Live : IsKept(c)
    BY <2>1, AloneFacts DEF Live, IsKept
  <2>3. ASSUME NEW c \in Live, NEW d \in Live PROVE c = d
    <3>1. \A x \in Live : x \in Clients /\ life[x] \in Attempting \cup {"connected", "closing"}
      BY <2>1, AloneFacts DEF Live
    <3>2. CASE life[c] \in Attempting \/ life[d] \in Attempting
      BY <2>1, <2>3, <3>1, <3>2, AloneFacts
    <3>3. CASE life[c] = "connected" \/ life[d] = "connected"
      BY <2>1, <2>3, <3>1, <3>3, AloneFacts
    <3>4. CASE life[c] = "closing" /\ life[d] = "closing"
      <4>1. PICK u \in Tasks : pc[u] = "closing" /\ on[u] = c
        BY <2>1, <2>3, <3>1, <3>4, AloneFacts
      <4>2. PICK v \in Tasks : pc[v] = "closing" /\ on[v] = d
        BY <2>1, <2>3, <3>1, <3>4, AloneFacts
      <4> QED
        BY <2>1, <4>1, <4>2 DEF Alone, InLine, Teardown
    <3> QED
      BY <2>3, <3>1, <3>2, <3>3, <3>4
  <2>4. Cardinality(Live) <= 1
    <3>1. CASE Live = {}
      BY <3>1, FS_EmptySet
    <3>2. CASE Live # {}
      <4>1. PICK c : Live = {c}
        BY <2>3, <3>2
      <4>2. Cardinality({c}) = 1
        BY FS_Singleton
      <4> QED
        BY <4>1, <4>2
    <3> QED
      BY <3>1, <3>2
  <2> QED
    BY <2>2, <2>4
<1> QED
  BY <1>1, Inductive, PTL
=============================================================================
