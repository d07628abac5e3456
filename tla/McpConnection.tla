---------------------------- MODULE McpConnection ----------------------------
(***************************************************************************)
(* One configured MCP server (vtx/mcp/manager.py, McpServerConnection) and *)
(* the clients it opens (vtx/mcp/client.py).  A client is a child process  *)
(* or an HTTP session.  It is opened when a tool is called, by the task    *)
(* that connects at startup, or by /mcp reconnect; every caller that finds *)
(* an attempt to open under way awaits that attempt.                       *)
(*                                                                         *)
(* A step is what runs between two awaits.  The tasks that await the same  *)
(* attempt or the same client wake one behind the other, in one step.      *)
(* Left out: what /mcp shows (status), the listing of tools, sign-in, and  *)
(* the contents of requests.                                               *)
(***************************************************************************)
EXTENDS Naturals, FiniteSets

CONSTANTS
  Tasks,    \* the asyncio tasks that call tools or manage the connection
  Clients,  \* bound: the clients that can be opened
  None      \* no client

ASSUME NoneAssumption == None \notin Clients

VARIABLES
  self,    \* the connection: its client, whether it is closed, and the attempt
           \* to open one, named by the client it opens
  life,    \* for each client the state of its attempt, then of itself
  pc,      \* where each task is
  kind,    \* what each task is doing
  on,      \* the client each task waits for, uses or closes
  excuses  \* history: what happened that can orphan a server

tasks == <<pc, kind, on>>
vars == <<self, life, tasks, excuses>>

Attempting == {"starting", "failing", "cancelling"}
Lives ==
  {"unused", "connected", "dropped", "closing", "closed", "failed", "cancelled", "cut"}
    \cup Attempting

(* The clients behind which a server process or session may exist.  One    *)
(* that is "cut" was told to end, but not terminated.                      *)
Live == {c \in Clients : life[c] \in Attempting \cup {"connected", "closing", "cut"}}

Teardowns == {"close", "reconnect", "disable"}

Init ==
  /\ self = [client |-> None, closed |-> FALSE, opening |-> None]
  /\ life = [c \in Clients |-> "unused"]
  /\ pc = [t \in Tasks |-> "idle"]
  /\ kind = [t \in Tasks |-> "call"]
  /\ on = [t \in Tasks |-> None]
  /\ excuses = {}

IsConnected(c) == c # None /\ life[c] = "connected"
Finished(c) == life[c] \notin Attempting
Waiting(c) == {t \in Tasks : pc[t] \in {"opening", "awaiting"} /\ on[t] = c}
Requests(c) == {t \in Tasks : pc[t] = "calling" /\ on[t] = c}

(* A task has still to resume from an attempt that is finished, and will   *)
(* then clear self.opening, whichever attempt that is.                     *)
LateWaiter ==
  IF \E c \in Clients : Finished(c) /\ Waiting(c) # {} THEN {"late waiter"} ELSE {}

----------------------------------------------------------------------------
(* get_client, called by call_tool and by connect *)

Go(t, what, place, c) ==
  /\ pc' = [pc EXCEPT ![t] = place]
  /\ kind' = [kind EXCEPT ![t] = what]
  /\ on' = [on EXCEPT ![t] = c]

NeedsClient(t) == pc[t] = "idle" /\ ~self.closed /\ ~IsConnected(self.client)

UseClient(t) ==
  /\ pc[t] = "idle" /\ ~self.closed /\ IsConnected(self.client)
  /\ Go(t, "call", "sending", self.client)
  /\ UNCHANGED <<self, life, excuses>>

StartAttempt(t, what) ==
  /\ NeedsClient(t) /\ self.opening = None
  /\ \E c \in Clients :
       /\ life[c] = "unused"
       /\ life' = [life EXCEPT ![c] = "starting"]
       /\ self' = [self EXCEPT !.opening = c]
       /\ Go(t, what, "opening", c)
  /\ excuses' = excuses \cup LateWaiter

JoinAttempt(t, what) ==
  /\ NeedsClient(t) /\ self.opening # None /\ ~Finished(self.opening)
  /\ Go(t, what, "opening", self.opening)
  /\ UNCHANGED <<self, life, excuses>>

(* The connection once an attempt was awaited: it is cleared, and when it  *)
(* gave a client that is gone by now, a call of it forgets the client.     *)
Awaited(c, called) ==
  [self EXCEPT !.opening = None,
               !.client = IF called /\ life[c] \in {"dropped", "closing", "closed"}
                          THEN None ELSE @]

(* An attempt that is finished does not suspend the task that awaits it.   *)
JoinFinished(t, what) ==
  /\ NeedsClient(t) /\ self.opening # None /\ Finished(self.opening)
  /\ self' = Awaited(self.opening, what = "call")
  /\ IF what = "call" /\ IsConnected(self.opening)
     THEN Go(t, what, "sending", self.opening)
     ELSE UNCHANGED tasks
  /\ UNCHANGED <<life, excuses>>

----------------------------------------------------------------------------
(* The attempt: _open, McpClient.connect and, when it fails, close *)

Connect(c) ==
  /\ life[c] = "starting"
  /\ life' = [life EXCEPT ![c] = "connected"]
  /\ self' = [self EXCEPT !.client = c]
  /\ UNCHANGED <<tasks, excuses>>

(* The server does not start, refuses, needs a sign-in or does not answer  *)
(* in time: its transport is closed before the failure is reported.        *)
Fail(c) ==
  /\ life[c] = "starting"
  /\ life' = [life EXCEPT ![c] = "failing"]
  /\ UNCHANGED <<self, tasks, excuses>>

TransportClosed(c) ==
  /\ life[c] \in {"failing", "cancelling"}
  /\ life' = [life EXCEPT ![c] = IF @ = "failing" THEN "failed" ELSE "cancelled"]
  /\ UNCHANGED <<self, tasks, excuses>>

(* What a cancel makes of an attempt.  One that comes while the transport  *)
(* is being closed interrupts that: the server was told by the end of its  *)
(* input, and may or may not follow.                                       *)
AfterCancel(c) ==
  CASE life[c] = "starting" -> {"cancelling"}
    [] life[c] = "failing" -> {"cancelled", "cut"}
    [] life[c] = "cancelling" -> {"cancelling", "cancelled", "cut"}

CancelAttempt(c) ==
  \E l \in AfterCancel(c) :
    /\ life' = [life EXCEPT ![c] = l]
    /\ excuses' = IF l = "cut" THEN excuses \cup {"cut"} ELSE excuses

----------------------------------------------------------------------------
(* close and reconnect.  The parameters are what the task, which the step  *)
(* belongs to, finds: `places` is pc, `lives` is life and `conn` is the    *)
(* connection, with what the step did before.                              *)

(* What comes behind close: reconnect starts from nothing, and connects    *)
(* unless the server was disabled.                                         *)
AfterClose(t, what, places, lives, conn) ==
  /\ kind' = [kind EXCEPT ![t] = what]
  /\ \/ /\ what = "reconnect"
        /\ \E c \in Clients :
             /\ lives[c] = "unused"
             /\ life' = [lives EXCEPT ![c] = "starting"]
             /\ self' = [client |-> None, closed |-> FALSE, opening |-> c]
             /\ pc' = [places EXCEPT ![t] = "opening"]
             /\ on' = [on EXCEPT ![t] = c]
     \/ /\ what # "reconnect"
        /\ self' = IF what = "close" THEN conn
                   ELSE [client |-> None, closed |-> FALSE, opening |-> None]
        /\ pc' = [places EXCEPT ![t] = "idle"]
        /\ life' = lives
        /\ UNCHANGED on

(* Mutant: the requests of a client that is closed are left waiting. *)
TakeClientUnrejected(t, what, places, conn) ==
  LET taken == [conn EXCEPT !.client = None]
  IN IF IsConnected(conn.client)
     THEN /\ self' = taken
          /\ life' = [life EXCEPT ![conn.client] = "closing"]
          /\ pc' = [places EXCEPT ![t] = "closing"]
          /\ kind' = [kind EXCEPT ![t] = what]
          /\ on' = [on EXCEPT ![t] = conn.client]
     ELSE AfterClose(t, what, places, life, taken)

(* The second half of close: the client is taken and closed.  Requests     *)
(* that await its answer fail at once.                                     *)
TakeClient(t, what, places, conn) ==
  LET taken == [conn EXCEPT !.client = None]
  IN IF IsConnected(conn.client)
     THEN /\ self' = taken
          /\ life' = [life EXCEPT ![conn.client] = "closing"]
          /\ pc' = [u \in Tasks |-> IF u = t THEN "closing"
                                    ELSE IF u \in Requests(conn.client) THEN "idle"
                                    ELSE places[u]]
          /\ kind' = [kind EXCEPT ![t] = what]
          /\ on' = [on EXCEPT ![t] = conn.client]
     ELSE AfterClose(t, what, places, life, taken)

(* Mutant: close leaves an attempt that is under way to itself. *)
CloseIgnoresAttempt(t, what) ==
  /\ pc[t] = "idle" /\ ~self.closed
  /\ TakeClient(t, what, pc, [self EXCEPT !.closed = TRUE])
  /\ UNCHANGED excuses

Close(t, what) ==
  /\ pc[t] = "idle" /\ ~self.closed
  /\ LET shut == [self EXCEPT !.closed = TRUE]
     IN IF self.opening # None /\ ~Finished(self.opening)
        THEN /\ self' = shut
             /\ CancelAttempt(self.opening)
             /\ Go(t, what, "awaiting", self.opening)
        ELSE /\ TakeClient(t, what, pc, shut)
             /\ excuses' = excuses \cup LateWaiter

(* close returns at once when it was called before, also while that one is *)
(* still at work; reconnect goes on.                                       *)
ReconnectClosed(t, what) ==
  /\ pc[t] = "idle" /\ self.closed /\ what # "close"
  /\ AfterClose(t, what, pc, life, self)
  /\ excuses' = excuses \cup LateWaiter
       \cup (IF \E u \in Tasks : pc[u] \in {"awaiting", "closing"}
             THEN {"overlap"} ELSE {})

ClientClosed(t) ==
  /\ pc[t] = "closing"
  /\ AfterClose(t, kind[t], pc, [life EXCEPT ![on[t]] = "closed"], self)
  /\ excuses' = excuses \cup LateWaiter

----------------------------------------------------------------------------
(* The attempt is finished: callers go on with its client or fail with it, *)
(* and the task that closes the connection comes behind them.              *)
Resume(c) ==
  /\ Finished(c) /\ Waiting(c) # {}
  /\ LET calling == {t \in Waiting(c) : pc[t] = "opening" /\ kind[t] = "call"}
         closing == {t \in Waiting(c) : pc[t] = "awaiting"}
         places == [t \in Tasks |->
                      IF t \in calling /\ IsConnected(c) THEN "sending"
                      ELSE IF t \in Waiting(c) THEN "idle" ELSE pc[t]]
         conn == Awaited(c, calling # {})
     IN \/ /\ closing = {}
           /\ pc' = places /\ self' = conn
           /\ UNCHANGED <<life, kind, on>>
        \/ \E t \in closing : TakeClient(t, kind[t], places, conn)
  /\ UNCHANGED excuses

----------------------------------------------------------------------------
(* Requests on a client *)

Send(t) ==
  /\ pc[t] = "sending" /\ IsConnected(on[t])
  /\ pc' = [pc EXCEPT ![t] = "calling"]
  /\ UNCHANGED <<self, life, kind, on, excuses>>

(* A result, an error of the server, or a timeout. *)
Answer(t) ==
  /\ pc[t] \in {"sending", "calling"} /\ IsConnected(on[t])
  /\ pc' = [pc EXCEPT ![t] = "idle"]
  /\ UNCHANGED <<self, life, kind, on, excuses>>

(* The request could not be sent: the pipe is broken, or the client was    *)
(* closed meanwhile.  call_tool forgets self.client, whichever it is.      *)
SendFails(t) ==
  /\ pc[t] = "sending"
  /\ pc' = [pc EXCEPT ![t] = "idle"]
  /\ self' = [self EXCEPT !.client = None]
  /\ excuses' = excuses
       \cup (IF IsConnected(on[t]) THEN {"broken pipe"} ELSE {})
       \cup (IF self.client # on[t] /\ IsConnected(self.client) THEN {"late failure"} ELSE {})
  /\ UNCHANGED <<life, kind, on>>

(* The server exits or hangs up; whoever awaits an answer of it fails. *)
Drop(c) ==
  /\ life[c] = "connected"
  /\ life' = [life EXCEPT ![c] = "dropped"]
  /\ pc' = [t \in Tasks |-> IF t \in Requests(c) THEN "idle" ELSE pc[t]]
  /\ self' = IF Requests(c) = {} THEN self ELSE [self EXCEPT !.client = None]
  /\ UNCHANGED <<kind, on, excuses>>

(* The task of a call is cancelled.  While it waits for an attempt, the    *)
(* attempt is what is cancelled, for everybody who waits for it.           *)
CancelCall(t) ==
  /\ kind[t] = "call"
  /\ \/ /\ pc[t] = "opening" /\ ~Finished(on[t])
        /\ CancelAttempt(on[t])
        /\ UNCHANGED pc
     \/ /\ pc[t] \in {"sending", "calling"}
        /\ pc' = [pc EXCEPT ![t] = "idle"]
        /\ UNCHANGED <<life, excuses>>
  /\ UNCHANGED <<self, kind, on>>

(* A prompt, sent while /mcp reconnects or disables the server, cancels    *)
(* that: the workers share a group, and the one of a prompt is exclusive.  *)
(* An attempt that close awaits is cancelled once more, and close goes on; *)
(* a client that it closes is left behind with the connection shut down.   *)
CancelTeardown(t) ==
  /\ kind[t] \in {"reconnect", "disable"}
  /\ \/ /\ pc[t] \in {"opening", "awaiting"} /\ ~Finished(on[t])
        /\ CancelAttempt(on[t])
        /\ UNCHANGED pc
     \/ /\ pc[t] = "closing"
        /\ \E l \in {"closed", "cut"} :
             /\ life' = [life EXCEPT ![on[t]] = l]
             /\ excuses' = excuses \cup ({l} \cap {"cut"})
        /\ pc' = [pc EXCEPT ![t] = "idle"]
  /\ UNCHANGED <<self, kind, on>>

----------------------------------------------------------------------------
Next ==
  \/ \E t \in Tasks : \/ UseClient(t) \/ Send(t) \/ Answer(t) \/ SendFails(t)
                      \/ CancelCall(t) \/ ClientClosed(t) \/ CancelTeardown(t)
  \/ \E t \in Tasks, what \in {"call", "connect"} :
       StartAttempt(t, what) \/ JoinAttempt(t, what) \/ JoinFinished(t, what)
  \/ \E t \in Tasks, what \in Teardowns : Close(t, what) \/ ReconnectClosed(t, what)
  \/ \E c \in Clients :
       Connect(c) \/ Fail(c) \/ TransportClosed(c) \/ Resume(c) \/ Drop(c)

Spec == Init /\ [][Next]_vars

----------------------------------------------------------------------------
(* Properties *)

(* The types, and what task and client have to do with each other: none    *)
(* waits for a client that was never started, and no request waits for the *)
(* answer of a server that is gone or being closed (client.py:539-543).    *)
TypeOK ==
  /\ self \in [client : Clients \cup {None}, closed : BOOLEAN, opening : Clients \cup {None}]
  /\ life \in [Clients -> Lives]
  /\ pc \in [Tasks -> {"idle", "opening", "sending", "calling", "awaiting", "closing"}]
  /\ kind \in [Tasks -> {"call", "connect"} \cup Teardowns]
  /\ on \in [Tasks -> Clients \cup {None}]
  /\ excuses \subseteq {"overlap", "late waiter", "broken pipe", "late failure", "cut"}
  /\ \A t \in Tasks : pc[t] # "idle" => on[t] # None /\ life[on[t]] # "unused"
  /\ \A t \in Tasks : pc[t] = "calling" => IsConnected(on[t])

(* Somebody is left who will close the client: the connection that is not  *)
(* itself closed, the attempt that opens it, or the task that closes it.   *)
IsKept(c) ==
  \/ c = self.client /\ ~self.closed
  \/ life[c] \in Attempting
  \/ \E t \in Tasks : pc[t] = "closing" /\ on[t] = c

(* "leaking one orphans the process" (manager.py:8-9): whatever calls,     *)
(* cancels, drops, closings and reconnects come between each other, one    *)
(* server at most runs, and it is never left to itself; unless a reconnect *)
(* overlapped a closing or came before a waiter of an older attempt        *)
(* resumed, a request could not be sent to a living server or failed after *)
(* the client was replaced, or the closing of a transport was cancelled.   *)
NoOrphan == excuses = {} => Cardinality(Live) <= 1 /\ \A c \in Live : IsKept(c)
=============================================================================
