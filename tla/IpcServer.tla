------------------------------ MODULE IpcServer ------------------------------
(***************************************************************************)
(* How several processes that share a home directory find or start the one *)
(* background server of a service (ipc/src/lib.rs).                        *)
(*                                                                         *)
(* Every process makes one call of Descriptor::connect_with_policy.  The   *)
(* rendezvous file holds the cookie and the address of the server; it is   *)
(* locked while it is read and written.  A process starts at most one      *)
(* server per call, so the server, its cookie and the process that made it *)
(* have the same name.                                                     *)
(***************************************************************************)
EXTENDS Naturals, Sequences, FiniteSets

CONSTANTS Clients,     \* the processes
          Ports,       \* the local TCP ports
          Given,       \* Given[c]: the policy passed to connect_with_policy
          CtxPolicy,   \* the policy of the shared context
          MaxFaults    \* bound on the deaths and failures of a behaviour

Policies == {"internal", "external", "robust"}

ASSUME PolicyAssumption == /\ Given \in [Clients -> Policies]
                           /\ CtxPolicy \in Policies
                           /\ MaxFaults \in Nat

None == "none"

ASSUME NamesAssumption == Clients \intersect {None, "eof", "empty", "short", "bad"} = {}

(* What connect_with_policy finds in the file.  "short" is less than a     *)
(* cookie, "bad" a cookie without a usable address after it.               *)
Entry(s, p) == <<s, p>>
Empty == <<"empty", None>>
Short == <<"short", None>>
Bad == <<"bad", None>>
Junk == {Empty, Short, Bad}
Contents == Junk \union (Clients \X Ports)

VARIABLES
    file,       \* content of the rendezvous file
    lock,       \* the process that holds the lock on it, or None
    pc,         \* where each process is in connect_with_policy
    policy,     \* policy of the current attempt
    skip,       \* processes whose file cursor is not at the start
    aim,        \* aim[c]: cookie c sends
    to,         \* to[c]: port c connects to
    srv,        \* srv[s]: state of the server s started
    kind,       \* "internal" or "external"
    port,       \* the port a server listens on
    told,       \* the cookie a server was told
    serving,    \* the client a server serves
    queue,      \* connections that a listener has not accepted yet
    faults,     \* how many things have gone wrong so far (history)
    published,  \* servers whose address was written to the file (history)
    lost        \* those whose entry could not be read back or was thrown away
                \* although they were listening (history)

clientVars == <<pc, policy, skip, aim, to>>
serverVars == <<srv, kind, port, told, serving, queue>>
history == <<published, lost>>
vars == <<file, lock, clientVars, serverVars, faults, history>>

Locked == {"read", "greet", "start", "tell", "telling", "publish"}
Starting == {"start", "tell", "telling", "publish"}
Waiting == {"rpc", "served"}
Over == {"done", "failed"}

Live(s) == srv[s] \in {"first", "accept", "serving"}
Listener(p) == {s \in Clients : Live(s) /\ port[s] = p}

(* A connection that was opened: whose it is and which cookie was sent on  *)
(* it, None before Cookie::send and "eof" if it never will be.             *)
Connection(c, k) == [cl |-> c, ck |-> k]

(* There is no file, or a process that died earlier has left a part of it. *)
Init ==
    /\ file \in {Empty, Short}
    /\ lock = None
    /\ pc = [c \in Clients |-> "lock"]
    /\ policy = Given
    /\ skip = {}
    /\ aim = [c \in Clients |-> None]
    /\ to = [c \in Clients |-> None]
    /\ srv = [c \in Clients |-> "unborn"]
    /\ kind = [c \in Clients |-> "external"]
    /\ port = [c \in Clients |-> None]
    /\ told = [c \in Clients |-> None]
    /\ serving = [c \in Clients |-> None]
    /\ queue = [c \in Clients |-> <<>>]
    /\ faults = IF file = Empty THEN 0 ELSE 1
    /\ published = {}
    /\ lost = {}

-----------------------------------------------------------------------------
(* The client.                                                             *)

Goto(c, l) == pc' = [pc EXCEPT ![c] = l]

(* TcpStream::connect: the kernel queues the connection with whoever       *)
(* listens on the port.                                                    *)
Dial(c, s) == queue' = [queue EXCEPT ![s] = Append(@, Connection(c, None))]

(* The call returns; its local variables are gone.                         *)
Return(c, l) ==
    /\ Goto(c, l)
    /\ aim' = [aim EXCEPT ![c] = None]
    /\ to' = [to EXCEPT ![c] = None]
    /\ skip' = skip \ {c}
    /\ UNCHANGED policy

Fault == faults < MaxFaults /\ faults' = faults + 1

(* Mutant: a shared lock.                                                  *)
LockShared(c) ==
    /\ pc[c] = "lock"
    /\ lock' = c
    /\ Goto(c, "read")
    /\ UNCHANGED <<file, policy, skip, aim, to, serverVars, faults, history>>

(* Opening the file and lock_exclusive, which waits.                       *)
Lock(c) ==
    /\ pc[c] = "lock" /\ lock = None
    /\ lock' = c
    /\ Goto(c, "read")
    /\ UNCHANGED <<file, policy, skip, aim, to, serverVars, faults, history>>

(* The file names a server that accepts the connection.                    *)
Found(c) ==
    /\ pc[c] = "read"
    /\ \E s \in Clients, p \in Ports : \E t \in Listener(p) :
          /\ file = Entry(s, p)
          /\ Dial(c, t)
          /\ aim' = [aim EXCEPT ![c] = s]
          /\ to' = [to EXCEPT ![c] = p]
    /\ Goto(c, "greet")
    /\ UNCHANGED <<file, lock, policy, skip, srv, kind, port, told, serving, faults, history>>

(* Mutant: the file is not invalidated.                                    *)
StaleKept(c) ==
    /\ pc[c] = "read"
    /\ \/ file = Bad
       \/ \E s \in Clients, p \in Ports : file = Entry(s, p) /\ Listener(p) = {}
    /\ lock' = None
    /\ Goto(c, "lock")
    /\ UNCHANGED <<file, policy, skip, aim, to, serverVars, faults, history>>

(* Invalidate the file and call connect, which takes the policy of the     *)
(* context.                                                                *)
Invalidate(c) ==
    /\ file' = Empty
    /\ lock' = None
    /\ policy' = [policy EXCEPT ![c] = CtxPolicy]
    /\ Goto(c, "lock")
    /\ UNCHANGED <<skip, aim, to, serverVars, published>>

(* The file has no usable address, or nobody listens there.                *)
Stale(c) ==
    /\ pc[c] = "read"
    /\ \/ file = Bad
       \/ \E s \in Clients, p \in Ports : file = Entry(s, p) /\ Listener(p) = {}
    /\ Invalidate(c)
    /\ UNCHANGED <<faults, lost>>

(* The connection fails for another reason, a full backlog or a lack of    *)
(* descriptors: map_err(drop) takes that for a dead server as well.        *)
ConnectFails(c) ==
    /\ pc[c] = "read"
    /\ \E s \in Clients, p \in Ports :
          /\ file = Entry(s, p) /\ Listener(p) # {}
          /\ lost' = lost \union {s}
    /\ Invalidate(c)
    /\ Fault

(* There is no cookie in the file: make one.  What was read of the file    *)
(* leaves the cursor behind it.                                            *)
NoCookie(c) ==
    /\ pc[c] = "read"
    /\ file \in {Empty, Short}
    /\ skip' = IF file = Short THEN skip \union {c} ELSE skip
    /\ Goto(c, "start")
    /\ UNCHANGED <<file, lock, policy, aim, to, serverVars, faults, history>>

(* Descriptor::start for the policy; a robust one falls back to a thread   *)
(* if the executable cannot be run.                                        *)
Kinds(p) == CASE p = "internal" -> {"internal"}
              [] p = "external" -> {"external"}
              [] p = "robust" -> {"internal", "external"}

Start(c) ==
    /\ pc[c] = "start"
    /\ \E k \in Kinds(policy[c]), p \in Ports :
          /\ Listener(p) = {}
          /\ kind' = [kind EXCEPT ![c] = k]
          /\ port' = [port EXCEPT ![c] = p]
          /\ to' = [to EXCEPT ![c] = p]
    /\ srv' = [srv EXCEPT ![c] = "first"]
    /\ aim' = [aim EXCEPT ![c] = c]
    /\ Goto(c, "tell")
    /\ UNCHANGED <<file, lock, policy, skip, told, serving, queue, faults, history>>

(* No port is left: unwrap panics.                                         *)
NoPort(c) ==
    /\ pc[c] = "start"
    /\ \A p \in Ports : Listener(p) # {}
    /\ lock' = None
    /\ Return(c, "failed")
    /\ faults' = faults + 1
    /\ UNCHANGED <<file, serverVars, history>>

(* The first connection, made only to tell the server its cookie.          *)
Tell(c) ==
    /\ pc[c] = "tell"
    /\ \E t \in Listener(to[c]) : Dial(c, t)
    /\ Goto(c, "telling")
    /\ UNCHANGED <<file, lock, policy, skip, aim, to, srv, kind, port, told, serving, faults, history>>

(* Writing the file, if the server is a process of its own, and unlocking  *)
(* it.  After a short read the bytes land behind a gap.                    *)
Publish(c) ==
    /\ pc[c] = "publish"
    /\ IF kind[c] = "internal" THEN UNCHANGED <<file, history>>
       ELSE /\ file' = IF c \in skip THEN Bad ELSE Entry(c, to[c])
            /\ published' = published \union {c}
            /\ lost' = IF c \in skip THEN lost \union {c} ELSE lost
    /\ lock' = None
    /\ Goto(c, "link")
    /\ UNCHANGED <<policy, skip, aim, to, serverVars, faults>>

(* The process dies, or set_len or one of the writes fails, in between.    *)
PublishFails(c) ==
    /\ pc[c] = "publish" /\ kind[c] = "external"
    /\ file' \in Junk
    /\ lock' = None
    /\ Return(c, "failed")
    /\ Fault
    /\ UNCHANGED <<serverVars, history>>

(* The second connection, after the file was unlocked.                     *)
Link(c) ==
    /\ pc[c] = "link"
    /\ \E t \in Listener(to[c]) : Dial(c, t)
    /\ Goto(c, "send")
    /\ UNCHANGED <<file, lock, policy, skip, aim, to, srv, kind, port, told, serving, faults, history>>

(* Cookie::send on the connection just made.  A write to a closed one may  *)
(* still succeed.                                                          *)
Sent(c, q) == [i \in DOMAIN q |-> IF q[i] = Connection(c, None)
                                  THEN Connection(c, aim[c]) ELSE q[i]]

Send(c) ==
    /\ pc[c] \in {"telling", "greet", "send"}
    /\ queue' = [s \in Clients |-> Sent(c, queue[s])]
    /\ Goto(c, IF pc[c] = "telling" THEN "publish" ELSE "rpc")
    /\ lock' = IF pc[c] = "greet" THEN None ELSE lock
    /\ UNCHANGED <<file, policy, skip, aim, to, srv, kind, port, told, serving, faults, history>>

(* TcpStream::connect is refused: the call returns the error.              *)
Refused(c) ==
    /\ pc[c] \in {"tell", "link"}
    /\ Listener(to[c]) = {}
    /\ Return(c, "failed")
    /\ lock' = IF lock = c THEN None ELSE lock
    /\ UNCHANGED <<file, serverVars, faults, history>>

(* The client loses the connection on which it awaits or gets service.     *)
Connected(c) == \E s \in Clients : /\ Live(s)
                                   /\ \/ serving[s] = c
                                      \/ Connection(c, aim[c]) \in {queue[s][i] : i \in DOMAIN queue[s]}
Reset(c) ==
    /\ pc[c] \in Waiting
    /\ ~ Connected(c)
    /\ Return(c, "failed")
    /\ UNCHANGED <<file, lock, serverVars, faults, history>>

(* A process that ends takes the server it runs in a thread along, and     *)
(* closes its connections.                                                 *)
Ends(c) ==
    /\ srv' = [s \in Clients |->
                 IF s = c /\ kind[s] = "internal" /\ srv[s] # "unborn" THEN "dead"
                 ELSE IF serving[s] = c /\ srv[s] = "serving" THEN "accept" ELSE srv[s]]
    /\ serving' = [s \in Clients |-> IF serving[s] = c THEN None ELSE serving[s]]
    /\ queue' = [s \in Clients |-> IF srv'[s] = "dead" THEN <<>> ELSE
                   [i \in DOMAIN queue[s] |-> IF queue[s][i] = Connection(c, None)
                                              THEN Connection(c, "eof") ELSE queue[s][i]]]
    /\ UNCHANGED <<kind, port, told>>

(* The client has what it wanted.                                          *)
Disconnect(c) ==
    /\ pc[c] = "served"
    /\ Ends(c)
    /\ Return(c, "done")
    /\ UNCHANGED <<file, lock, faults, history>>

(* An error return or the death of the process, anywhere.                  *)
Dies(c) ==
    /\ pc[c] \notin Over
    /\ Ends(c)
    /\ Return(c, "failed")
    /\ lock' = IF lock = c THEN None ELSE lock
    /\ Fault
    /\ UNCHANGED <<file, history>>

-----------------------------------------------------------------------------
(* The server: Server::serve_listener.                                     *)

Arrived(s) == queue[s] # <<>> /\ Head(queue[s]).ck # None
Pop(s) == queue' = [queue EXCEPT ![s] = Tail(@)]

(* The first client tells it the cookie, and is dropped.                   *)
First(s) ==
    /\ srv[s] = "first" /\ Arrived(s) /\ Head(queue[s]).ck # "eof"
    /\ told' = [told EXCEPT ![s] = Head(queue[s]).ck]
    /\ srv' = [srv EXCEPT ![s] = "accept"]
    /\ Pop(s)
    /\ UNCHANGED <<file, lock, clientVars, kind, port, serving, faults, history>>

(* A client with the cookie is served until it hangs up; the loop awaits   *)
(* that.  One that has gone in the meantime is done with at once.          *)
Accept(s) ==
    /\ srv[s] = "accept" /\ Arrived(s) /\ Head(queue[s]).ck = told[s]
    /\ LET c == Head(queue[s]).cl IN
          IF pc[c] = "rpc"
          THEN /\ srv' = [srv EXCEPT ![s] = "serving"]
               /\ serving' = [serving EXCEPT ![s] = c]
               /\ Goto(c, "served")
          ELSE UNCHANGED <<srv, serving, pc>>
    /\ Pop(s)
    /\ UNCHANGED <<file, lock, policy, skip, aim, to, kind, port, told, faults, history>>

(* A wrong cookie, or the end of the stream instead of one, ends it.       *)
Rejects(s) ==
    /\ srv[s] \in {"first", "accept"} /\ Arrived(s)
    /\ Head(queue[s]).ck # told[s]
    /\ srv[s] = "first" => Head(queue[s]).ck = "eof"
    /\ srv' = [srv EXCEPT ![s] = "dead"]
    /\ queue' = [queue EXCEPT ![s] = <<>>]
    /\ UNCHANGED <<file, lock, clientVars, kind, port, told, serving, faults, history>>

(* A server may die of anything else.                                      *)
ServerDies(s) ==
    /\ Live(s)
    /\ srv' = [srv EXCEPT ![s] = "dead"]
    /\ serving' = [serving EXCEPT ![s] = None]
    /\ queue' = [queue EXCEPT ![s] = <<>>]
    /\ Fault
    /\ UNCHANGED <<file, lock, clientVars, kind, port, told, history>>

ClientStep(c) ==
    \/ Lock(c) \/ Found(c) \/ Stale(c) \/ NoCookie(c)
    \/ Start(c) \/ NoPort(c) \/ Tell(c) \/ Publish(c) \/ Link(c) \/ Send(c)
    \/ Refused(c) \/ Reset(c) \/ Disconnect(c)

ServerStep(s) == First(s) \/ Accept(s) \/ Rejects(s)

(* Everyone has returned; servers may stay.                                *)
Finished == (\A c \in Clients : pc[c] \in Over) /\ UNCHANGED vars

Next ==
    \/ \E c \in Clients : ClientStep(c) \/ ServerStep(c)
    \/ \E c \in Clients : ConnectFails(c) \/ PublishFails(c) \/ Dies(c) \/ ServerDies(c)
    \/ Finished

Spec == Init /\ [][Next]_vars

(* Processes and servers run, and a client hangs up when it has its        *)
(* answer.  Nothing more is assumed of the lock: every process takes it    *)
(* finitely often.  Deaths and failed writes may happen or not.            *)
FairSpec == /\ Spec
            /\ \A c \in Clients : WF_vars(ClientStep(c)) /\ WF_vars(ServerStep(c))

-----------------------------------------------------------------------------
(* Properties.                                                             *)

(* Among the servers that share the file it never leads to a stranger: the *)
(* one that listens on the port it names is the one whose cookie stands    *)
(* before it, although ports of dead servers are used again.               *)
FileIsOwn ==
    \A s \in Clients, p \in Ports : file = Entry(s, p) => Listener(p) \subseteq {s}

(* A server that was announced is alive only as long as the file names it, *)
(* whatever processes and servers die when, with two exceptions: its entry *)
(* was written behind the gap that a short file leaves, or a process threw *)
(* it away when a connection failed although the server listened.  Two     *)
(* announced servers are alive at the same time only because of these, and *)
(* because of these they can be.                                           *)
AnnouncedIsNamed ==
    \A s \in published : Live(s) => file = Entry(s, port[s]) \/ s \in lost

(* Every call returns and every client gets service or an error: nobody    *)
(* waits forever for the lock, for the server to accept, or in the retry   *)
(* of connect.  If no process, server, bind or write failed then it is no  *)
(* error: no server turns a client away because of its cookie.             *)
Answered == \A c \in Clients : <>(pc[c] = "done" \/ (pc[c] = "failed" /\ faults > 0))
=============================================================================
