-------------------------- MODULE IpcServerProofs --------------------------
(***************************************************************************)
(* Proofs about IpcServer: however many processes, ports and faults there  *)
(* are, the rendezvous file leads to the one announced server or nowhere.  *)
(***************************************************************************)
EXTENDS IpcServer, TLAPS

(* The types that the argument needs; the queues play no part in it.       *)
Types ==
    /\ file \in Contents
    /\ pc \in [Clients -> Locked \union Waiting \union Over \union {"lock", "link", "send"}]
    /\ to \in [Clients -> Ports \union {None}]
    /\ srv \in [Clients -> {"unborn", "first", "accept", "serving", "dead"}]
    /\ port \in [Clients -> Ports \union {None}]
    /\ published \in SUBSET Clients

(* The announced servers that have not been lost.                          *)
Kept == published \ lost

(* Who is inside of the critical section holds the lock.                   *)
Mutex == \A c \in Clients : pc[c] \in Locked => lock = c

(* While a server is being started the file names none.                    *)
FileFree == \A c \in Clients : pc[c] \in Starting => file \in {Empty, Short}

(* A process has no server before it starts one.                           *)
NotYet == \A c \in Clients :
             /\ pc[c] \in {"lock", "read", "start"} => srv[c] = "unborn"
             /\ srv[c] = "unborn" => c \notin published

(* Nobody else listens on the port of a server that is being announced,    *)
(* also if that server is dead already.                                    *)
PortHeld == \A c \in Clients : pc[c] \in {"tell", "telling", "publish"} =>
               /\ to[c] = port[c]
               /\ port[c] \in Ports
               /\ srv[c] # "unborn"
               /\ \A t \in Clients : Live(t) /\ port[t] = port[c] => t = c

(* What the file says was published, ...                                   *)
FileNames == \A s \in Clients, p \in Ports : file = Entry(s, p) =>
                /\ s \in published
                /\ port[s] = p

(* ... and a published server that lives and is not lost is in the file.   *)
PublishedNamed == \A s \in Kept : Live(s) => file = Entry(s, port[s])

Inv == /\ Types /\ Mutex /\ FileFree /\ NotYet /\ PortHeld /\ FileNames /\ PublishedNamed
       /\ FileIsOwn

-----------------------------------------------------------------------------
(* An entry is not one of the unusable contents.                           *)
LEMMA EntryNotJunk ==
    ASSUME NEW s \in Clients, NEW p
    PROVE  Entry(s, p) \notin Junk
BY NamesAssumption DEF Entry, Junk, Empty, Short, Bad

(* No action but Start makes a server or moves one to another port.        *)
OldServers ==
    /\ port' = port
    /\ \A s \in Clients : srv'[s] \in {"first", "accept", "serving"} => Live(s)
    /\ \A s \in Clients : srv'[s] = "unborn" <=> srv[s] = "unborn"

(* A step that changes the file only to an unusable content, moves no      *)
(* process into the critical section without the lock, and starts nothing. *)
Quiet ==
    /\ OldServers
    /\ published' = published
    /\ lost \subseteq lost'
    /\ Types'
    /\ Mutex'
    /\ \A c \in Clients : pc'[c] \in Starting => pc[c] \in Starting \union {"read"}
    /\ \A c \in Clients : pc'[c] \in {"lock", "read", "start"} => pc[c] \in {"lock", "read", "start"}
    /\ \A c \in Clients : pc'[c] \in {"tell", "telling", "publish"} =>
           pc[c] \in {"tell", "telling", "publish"} /\ to'[c] = to[c]

(* Such a step that leaves the file alone keeps the invariant.             *)
LEMMA QuietKeeps ==
    ASSUME Inv, Quiet, file' = file, FileFree'
    PROVE  Inv'
<1> USE DEF Inv, Quiet, OldServers, Live, Listener
<1>1. NotYet' BY DEF NotYet, Types
<1>2. PortHeld' BY DEF PortHeld, Types
<1>3. FileNames' BY DEF FileNames, Types
<1>4. PublishedNamed' BY DEF PublishedNamed, Kept, Types
<1>5. FileIsOwn' BY DEF FileIsOwn, Types
<1> QED BY <1>1, <1>2, <1>3, <1>4, <1>5

(* Such a step that empties or spoils a file that leads nowhere keeps it.  *)
LEMMA QuietSpoils ==
    ASSUME Inv, Quiet, file' \in Junk, FileFree',
           \A s \in published \ lost' : ~ Live(s)
    PROVE  Inv'
<1> USE DEF Inv, Quiet, OldServers, Live, Listener
<1>0. \A s \in Clients, p \in Ports : file' # Entry(s, p) BY EntryNotJunk
<1>1. NotYet' BY DEF NotYet, Types
<1>2. PortHeld' BY DEF PortHeld, Types
<1>3. FileNames' BY <1>0 DEF FileNames
<1>4. PublishedNamed' BY DEF PublishedNamed, Kept, Types
<1>5. FileIsOwn' BY <1>0 DEF FileIsOwn
<1> QED BY <1>1, <1>2, <1>3, <1>4, <1>5

(* If the file names no listener then no published server lives.           *)
LEMMA NoneAlive ==
    ASSUME Inv,
           \/ file \in Junk
           \/ \E s \in Clients, p \in Ports : file = Entry(s, p) /\ Listener(p) = {}
    PROVE  \A s \in Kept : ~ Live(s)
<1> SUFFICES ASSUME NEW s \in Kept, Live(s) PROVE FALSE
  OBVIOUS
<1>1. s \in Clients /\ file = Entry(s, port[s]) BY DEF Inv, PublishedNamed, Kept, Types
<1>2. CASE file \in Junk BY <1>1, <1>2, EntryNotJunk
<1>3. CASE \E t \in Clients, p \in Ports : file = Entry(t, p) /\ Listener(p) = {}
  <2>1. PICK t \in Clients, p \in Ports : file = Entry(t, p) /\ Listener(p) = {} BY <1>3
  <2>2. t = s /\ p = port[s] BY <1>1, <2>1 DEF Entry
  <2> QED BY <1>1, <2>1, <2>2 DEF Listener
<1> QED BY <1>2, <1>3

-----------------------------------------------------------------------------
(* The invariant holds initially: the file is empty and nobody runs.       *)
LEMMA InitInv == Init => Inv
<1> SUFFICES ASSUME Init PROVE Inv OBVIOUS
<1> USE DEF Init
<1>1. Types BY DEF Types, Contents, Junk, Locked, Waiting, Over
<1>2. Mutex /\ FileFree /\ NotYet /\ PortHeld
  BY DEF Mutex, FileFree, NotYet, PortHeld, Locked, Starting
<1>3. file \in Junk BY DEF Junk
<1>4. FileNames /\ PublishedNamed /\ FileIsOwn
  BY <1>3, EntryNotJunk DEF FileNames, PublishedNamed, Kept, FileIsOwn
<1> QED BY <1>1, <1>2, <1>4 DEF Inv

-----------------------------------------------------------------------------
(* One lemma per action.                                                   *)

(* Taking the lock keeps the invariant.                                    *)
LEMMA LockKeeps ==
    ASSUME Inv, NEW c \in Clients, Lock(c)
    PROVE  Inv'
<1>1. Quiet
  BY NamesAssumption DEF None, Inv, Lock, Types, Mutex, FileFree, Locked, Starting,
     Waiting, Over, Goto, Live, OldServers, Quiet, serverVars, clientVars, history
<1>2. file' = file /\ FileFree'
  BY DEF Inv, Lock, Types, Mutex, FileFree, Locked, Starting, Waiting, Over, Goto,
     Live, OldServers, Quiet, serverVars, clientVars, history
<1> QED BY <1>1, <1>2, QuietKeeps

(* Connecting to the server in the file keeps the invariant.               *)
LEMMA FoundKeeps ==
    ASSUME Inv, NEW c \in Clients, Found(c)
    PROVE  Inv'
<1>1. Quiet
  BY DEF Inv, Found, Types, Mutex, FileFree, Locked, Starting, Waiting, Over, Goto,
     Live, OldServers, Quiet, serverVars, clientVars, history
<1>2. file' = file /\ FileFree'
  BY DEF Inv, Found, Types, Mutex, FileFree, Locked, Starting, Waiting, Over, Goto,
     Live, OldServers, Quiet, serverVars, clientVars, history
<1> QED BY <1>1, <1>2, QuietKeeps

(* Finding no cookie keeps the invariant.                                  *)
LEMMA NoCookieKeeps ==
    ASSUME Inv, NEW c \in Clients, NoCookie(c)
    PROVE  Inv'
<1>1. Quiet
  BY DEF Inv, NoCookie, Types, Mutex, FileFree, Locked, Starting, Waiting, Over, Goto,
     Live, OldServers, Quiet, serverVars, clientVars, history
<1>2. file' = file /\ FileFree'
  BY DEF Inv, NoCookie, Types, Mutex, FileFree, Locked, Starting, Waiting, Over, Goto,
     Live, OldServers, Quiet, serverVars, clientVars, history
<1> QED BY <1>1, <1>2, QuietKeeps

(* Connecting to tell the cookie keeps the invariant.                      *)
LEMMA TellKeeps ==
    ASSUME Inv, NEW c \in Clients, Tell(c)
    PROVE  Inv'
<1>1. Quiet
  BY DEF Inv, Tell, Types, Mutex, FileFree, Locked, Starting, Waiting, Over, Goto,
     Live, OldServers, Quiet, serverVars, clientVars, history
<1>2. file' = file /\ FileFree'
  BY DEF Inv, Tell, Types, Mutex, FileFree, Locked, Starting, Waiting, Over, Goto,
     Live, OldServers, Quiet, serverVars, clientVars, history
<1> QED BY <1>1, <1>2, QuietKeeps

(* Connecting for service keeps the invariant.                             *)
LEMMA LinkKeeps ==
    ASSUME Inv, NEW c \in Clients, Link(c)
    PROVE  Inv'
<1>1. Quiet
  BY DEF Inv, Link, Types, Mutex, FileFree, Locked, Starting, Waiting, Over, Goto,
     Live, OldServers, Quiet, serverVars, clientVars, history
<1>2. file' = file /\ FileFree'
  BY DEF Inv, Link, Types, Mutex, FileFree, Locked, Starting, Waiting, Over, Goto,
     Live, OldServers, Quiet, serverVars, clientVars, history
<1> QED BY <1>1, <1>2, QuietKeeps

(* Sending the cookie keeps the invariant.                                 *)
LEMMA SendKeeps ==
    ASSUME Inv, NEW c \in Clients, Send(c)
    PROVE  Inv'
<1>1. Quiet
  BY DEF Inv, Send, Types, Mutex, FileFree, Locked, Starting, Waiting, Over, Goto,
     Live, OldServers, Quiet, serverVars, clientVars, history
<1>2. file' = file /\ FileFree'
  BY DEF Inv, Send, Types, Mutex, FileFree, Locked, Starting, Waiting, Over, Goto,
     Live, OldServers, Quiet, serverVars, clientVars, history
<1> QED BY <1>1, <1>2, QuietKeeps

(* Running out of ports keeps the invariant.                               *)
LEMMA NoPortKeeps ==
    ASSUME Inv, NEW c \in Clients, NoPort(c)
    PROVE  Inv'
<1>1. Quiet
  BY DEF Inv, NoPort, Types, Mutex, FileFree, Locked, Starting, Waiting, Over, Goto,
     Live, OldServers, Quiet, serverVars, clientVars, history, Return
<1>2. file' = file /\ FileFree'
  BY DEF Inv, NoPort, Types, Mutex, FileFree, Locked, Starting, Waiting, Over, Goto,
     Live, OldServers, Quiet, serverVars, clientVars, history, Return
<1> QED BY <1>1, <1>2, QuietKeeps

(* A refused connection keeps the invariant.                               *)
LEMMA RefusedKeeps ==
    ASSUME Inv, NEW c \in Clients, Refused(c)
    PROVE  Inv'
<1>1. Quiet
  BY DEF Inv, Refused, Types, Mutex, FileFree, Locked, Starting, Waiting, Over, Goto,
     Live, OldServers, Quiet, serverVars, clientVars, history, Return
<1>2. file' = file /\ FileFree'
  BY DEF Inv, Refused, Types, Mutex, FileFree, Locked, Starting, Waiting, Over, Goto,
     Live, OldServers, Quiet, serverVars, clientVars, history, Return
<1> QED BY <1>1, <1>2, QuietKeeps

(* A lost connection keeps the invariant.                                  *)
LEMMA ResetKeeps ==
    ASSUME Inv, NEW c \in Clients, Reset(c)
    PROVE  Inv'
<1>1. Quiet
  BY DEF Inv, Reset, Types, Mutex, FileFree, Locked, Starting, Waiting, Over, Goto,
     Live, OldServers, Quiet, serverVars, clientVars, history, Return
<1>2. file' = file /\ FileFree'
  BY DEF Inv, Reset, Types, Mutex, FileFree, Locked, Starting, Waiting, Over, Goto,
     Live, OldServers, Quiet, serverVars, clientVars, history, Return
<1> QED BY <1>1, <1>2, QuietKeeps

(* Hanging up keeps the invariant.                                         *)
LEMMA DisconnectKeeps ==
    ASSUME Inv, NEW c \in Clients, Disconnect(c)
    PROVE  Inv'
<1>1. Quiet
  BY DEF Inv, Disconnect, Types, Mutex, FileFree, Locked, Starting, Waiting, Over,
     Goto, Live, OldServers, Quiet, serverVars, clientVars, history, Return, Ends
<1>2. file' = file /\ FileFree'
  BY DEF Inv, Disconnect, Types, Mutex, FileFree, Locked, Starting, Waiting, Over,
     Goto, Live, OldServers, Quiet, serverVars, clientVars, history, Return, Ends
<1> QED BY <1>1, <1>2, QuietKeeps

(* The death of a process keeps the invariant.                             *)
LEMMA DiesKeeps ==
    ASSUME Inv, NEW c \in Clients, Dies(c)
    PROVE  Inv'
<1>1. Quiet
  BY DEF Inv, Dies, Types, Mutex, FileFree, Locked, Starting, Waiting, Over, Goto,
     Live, OldServers, Quiet, serverVars, clientVars, history, Return, Ends
<1>2. file' = file /\ FileFree'
  BY DEF Inv, Dies, Types, Mutex, FileFree, Locked, Starting, Waiting, Over, Goto,
     Live, OldServers, Quiet, serverVars, clientVars, history, Return, Ends
<1> QED BY <1>1, <1>2, QuietKeeps

(* Learning the cookie keeps the invariant.                                *)
LEMMA FirstKeeps ==
    ASSUME Inv, NEW s \in Clients, First(s)
    PROVE  Inv'
<1>1. Quiet
  BY DEF Inv, First, Types, Mutex, FileFree, Locked, Starting, Waiting, Over, Goto,
     Live, OldServers, Quiet, serverVars, clientVars, history
<1>2. file' = file /\ FileFree'
  BY DEF Inv, First, Types, Mutex, FileFree, Locked, Starting, Waiting, Over, Goto,
     Live, OldServers, Quiet, serverVars, clientVars, history
<1> QED BY <1>1, <1>2, QuietKeeps

(* Serving a client keeps the invariant.                                   *)
LEMMA AcceptKeeps ==
    ASSUME Inv, NEW s \in Clients, Accept(s)
    PROVE  Inv'
<1>1. Quiet
  BY DEF Inv, Accept, Types, Mutex, FileFree, Locked, Starting, Waiting, Over, Goto,
     Live, OldServers, Quiet, serverVars, clientVars, history
<1>2. file' = file /\ FileFree'
  BY DEF Inv, Accept, Types, Mutex, FileFree, Locked, Starting, Waiting, Over, Goto,
     Live, OldServers, Quiet, serverVars, clientVars, history
<1> QED BY <1>1, <1>2, QuietKeeps

(* Quitting at a wrong cookie keeps the invariant.                         *)
LEMMA RejectsKeeps ==
    ASSUME Inv, NEW s \in Clients, Rejects(s)
    PROVE  Inv'
<1>1. Quiet
  BY DEF Inv, Rejects, Types, Mutex, FileFree, Locked, Starting, Waiting, Over, Goto,
     Live, OldServers, Quiet, serverVars, clientVars, history
<1>2. file' = file /\ FileFree'
  BY DEF Inv, Rejects, Types, Mutex, FileFree, Locked, Starting, Waiting, Over, Goto,
     Live, OldServers, Quiet, serverVars, clientVars, history
<1> QED BY <1>1, <1>2, QuietKeeps

(* The death of a server keeps the invariant.                              *)
LEMMA ServerDiesKeeps ==
    ASSUME Inv, NEW s \in Clients, ServerDies(s)
    PROVE  Inv'
<1>1. Quiet
  BY DEF Inv, ServerDies, Types, Mutex, FileFree, Locked, Starting, Waiting, Over,
     Goto, Live, OldServers, Quiet, serverVars, clientVars, history
<1>2. file' = file /\ FileFree'
  BY DEF Inv, ServerDies, Types, Mutex, FileFree, Locked, Starting, Waiting, Over,
     Goto, Live, OldServers, Quiet, serverVars, clientVars, history
<1> QED BY <1>1, <1>2, QuietKeeps

(* Invalidating the file, which named nobody who listens.                  *)
LEMMA StaleKeeps ==
    ASSUME Inv, NEW c \in Clients, Stale(c)
    PROVE  Inv'
<1>1. Quiet
  BY DEF Inv, Stale, Invalidate, Contents, Junk, Types, Mutex, FileFree, Locked, Starting,
     Waiting, Over, Goto, Live, OldServers, Quiet, serverVars, clientVars, history
<1>2. file' \in Junk /\ FileFree'
  BY DEF Inv, Stale, Invalidate, Junk, Types, Mutex, FileFree, Locked, Starting, Waiting,
     Over, Goto, Live, OldServers, Quiet, serverVars, clientVars, history
<1>3. \A s \in published \ lost' : ~ Live(s) BY NoneAlive DEF Stale, Junk, Kept
<1> QED BY <1>1, <1>2, <1>3, QuietSpoils

(* Invalidating the file although the server it named listens: that one is *)
(* lost, and no other was alive.                                           *)
LEMMA ConnectFailsKeeps ==
    ASSUME Inv, NEW c \in Clients, ConnectFails(c)
    PROVE  Inv'
<1>1. Quiet
  BY DEF Inv, ConnectFails, Invalidate, Contents, Junk, Types, Mutex, FileFree, Locked,
     Starting, Waiting, Over, Goto, Live, OldServers, Quiet, serverVars, clientVars, history
<1>2. file' \in Junk /\ FileFree'
  BY DEF Inv, ConnectFails, Invalidate, Junk, Types, Mutex, FileFree, Locked, Starting,
     Waiting, Over, Goto, Live, OldServers, Quiet, serverVars, clientVars, history
<1>3. PICK s \in Clients, p \in Ports : file = Entry(s, p) /\ lost' = lost \union {s}
  BY DEF ConnectFails
<1>4. ASSUME NEW t \in published \ lost', Live(t) PROVE FALSE
  <2>1. t \in Kept /\ t # s BY <1>3, <1>4 DEF Kept
  <2>2. file = Entry(t, port[t]) BY <1>4, <2>1 DEF Inv, PublishedNamed
  <2> QED BY <1>3, <2>1, <2>2 DEF Entry
<1> QED BY <1>1, <1>2, <1>4, QuietSpoils

(* A failed write; nobody was published before.                            *)
LEMMA PublishFailsKeeps ==
    ASSUME Inv, NEW c \in Clients, PublishFails(c)
    PROVE  Inv'
<1>1. Quiet
  BY DEF Inv, PublishFails, Return, Contents, Types, Mutex, FileFree, Locked,
     Starting, Waiting, Over, Goto, Live, OldServers, Quiet, serverVars, clientVars, history
<1>2. file \in Junk BY DEF Inv, PublishFails, FileFree, Starting, Junk
<1>3. file' \in Junk BY DEF PublishFails
<1>4. FileFree'
  <2>1. \A d \in Clients : pc'[d] \notin Starting
   
     BY DEF Inv, PublishFails, Return, Types, Mutex, FileFree, Locked, Starting,
        Waiting, Over, Goto, Live, OldServers, Quiet, serverVars, clientVars, history
  <2> QED BY <2>1 DEF FileFree
<1>5. \A s \in published \ lost' : ~ Live(s) BY <1>2, NoneAlive DEF Kept, PublishFails, history
<1> QED BY <1>1, <1>3, <1>4, <1>5, QuietSpoils

(* A new server takes a free port while the file names nobody.             *)
LEMMA StartKeeps ==
    ASSUME Inv, NEW c \in Clients, Start(c)
    PROVE  Inv'
<1>1. PICK p \in Ports : /\ Listener(p) = {}
                         /\ port' = [port EXCEPT ![c] = p]
                         /\ to' = [to EXCEPT ![c] = p]
  BY DEF Start
<1>2. /\ pc[c] = "start" /\ pc' = [pc EXCEPT ![c] = "tell"]
      /\ srv' = [srv EXCEPT ![c] = "first"]
      /\ file' = file /\ lock' = lock /\ published' = published /\ lost' = lost
  BY DEF Start, Goto, history
<1>3. Types BY DEF Inv
<1>4. file \in Junk BY <1>2 DEF Inv, FileFree, Starting, Junk
<1>5. \A s \in Kept : ~ Live(s) BY <1>4, NoneAlive
<1>6. srv[c] = "unborn" /\ c \notin published BY <1>2 DEF Inv, NotYet
<1>7. \A d \in Clients : d # c => pc[d] \notin Locked
  BY <1>2 DEF Inv, Mutex, Locked
<1>8. Types' BY <1>1, <1>2, <1>3 DEF Types, Locked
<1>9. Mutex' /\ FileFree'
  BY <1>2, <1>3, <1>7 DEF Inv, Mutex, FileFree, Types, Locked, Starting
<1>10. NotYet' BY <1>2, <1>3, <1>6 DEF Inv, NotYet, Types
<1>11. PortHeld' BY <1>1, <1>2, <1>3, <1>7 DEF PortHeld, Types, Live, Listener, Locked
<1>12. FileNames' /\ FileIsOwn'
  BY <1>2, <1>4, EntryNotJunk DEF FileNames, FileIsOwn
<1>13. PublishedNamed' BY <1>2, <1>3, <1>5, <1>6 DEF PublishedNamed, Kept, Types, Live
<1> QED BY <1>8, <1>9, <1>10, <1>11, <1>12, <1>13 DEF Inv

(* Announcing a server: no other announced one lives, and nobody else has  *)
(* its port.                                                               *)
LEMMA PublishKeeps ==
    ASSUME Inv, NEW c \in Clients, Publish(c)
    PROVE  Inv'
<1>1. /\ pc[c] = "publish" /\ pc' = [pc EXCEPT ![c] = "link"]
      /\ srv' = srv /\ port' = port /\ to' = to /\ lock' = None
  BY DEF Publish, Goto, serverVars
<1>2. Types BY DEF Inv
<1>3. file \in Junk BY <1>1 DEF Inv, FileFree, Starting, Junk
<1>4. \A s \in Kept : ~ Live(s) BY <1>3, NoneAlive
<1>5. \A d \in Clients : pc'[d] \notin Locked
  BY <1>1, <1>2 DEF Inv, Mutex, Locked, Types
<1>6. Mutex' /\ FileFree' BY <1>5 DEF Mutex, FileFree, Locked, Starting
<1>7. \A s \in Clients : Live(s)' <=> Live(s) BY <1>1 DEF Live
<1>8. CASE file' = file /\ published' = published /\ lost' = lost
  <2>1. Types' BY <1>1, <1>2, <1>8 DEF Types, Locked
  <2>2. Quiet
    BY <1>1, <1>2, <1>5, <1>6, <1>8, <2>1 DEF Quiet, OldServers, Live, Types, Locked, Starting
  <2> QED BY <1>6, <1>8, <2>2, QuietKeeps
<1>9. CASE file' = Bad /\ published' = published \union {c} /\ lost' = lost \union {c}
  <2>1. Types' BY <1>1, <1>2, <1>9 DEF Types, Locked, Contents, Junk
  <2>2. \A s \in Clients, p \in Ports : file' # Entry(s, p) BY <1>9, EntryNotJunk DEF Junk
  <2>3. srv[c] # "unborn" BY <1>1 DEF Inv, PortHeld
  <2>4. NotYet' BY <1>1, <1>2, <1>9, <2>3 DEF Inv, NotYet, Types
  <2>5. PortHeld' BY <1>5 DEF PortHeld, Locked
  <2>6. FileNames' /\ FileIsOwn' BY <2>2 DEF FileNames, FileIsOwn
  <2>7. PublishedNamed' BY <1>2, <1>4, <1>7, <1>9 DEF PublishedNamed, Kept, Types
  <2> QED BY <1>6, <2>1, <2>4, <2>5, <2>6, <2>7 DEF Inv
<1>10. CASE file' = Entry(c, to[c]) /\ published' = published \union {c} /\ lost' = lost
  <2>1. /\ to[c] = port[c] /\ port[c] \in Ports /\ srv[c] # "unborn"
        /\ \A t \in Clients : Live(t) /\ port[t] = port[c] => t = c
    BY <1>1 DEF Inv, PortHeld
  <2>2. Types' BY <1>1, <1>2, <1>10, <2>1 DEF Types, Locked, Contents, Entry
  <2>3. NotYet' BY <1>1, <1>2, <1>10, <2>1 DEF Inv, NotYet, Types
  <2>4. PortHeld' BY <1>5 DEF PortHeld, Locked
  <2>5. FileNames' BY <1>1, <1>10, <2>1 DEF FileNames, Entry
  <2>6. PublishedNamed'
    BY <1>1, <1>2, <1>4, <1>7, <1>10, <2>1 DEF PublishedNamed, Kept, Types
  <2>7. FileIsOwn'
    BY <1>1, <1>7, <1>10, <2>1 DEF FileIsOwn, Listener, Entry
  <2> QED BY <1>6, <2>2, <2>3, <2>4, <2>5, <2>6, <2>7 DEF Inv
<1> QED BY <1>8, <1>9, <1>10 DEF Publish, history

(* A step that changes nothing keeps the invariant.                        *)
LEMMA StutterKeeps ==
    ASSUME Inv, UNCHANGED vars
    PROVE  Inv'
BY DEF Inv, vars, Types, Mutex, FileFree, Locked, Starting, Waiting, Over, Goto, Live, OldServers, Quiet, serverVars, clientVars, history, NotYet, PortHeld, FileNames, PublishedNamed, Kept, FileIsOwn, Listener

(* Every step keeps the invariant.                                         *)
LEMMA NextInv == Inv /\ [Next]_vars => Inv'
<1> SUFFICES ASSUME Inv, [Next]_vars PROVE Inv' OBVIOUS
<1>1. ASSUME NEW c \in Clients, ClientStep(c) PROVE Inv'
 
   BY <1>1, LockKeeps, FoundKeeps, StaleKeeps, NoCookieKeeps, StartKeeps, NoPortKeeps,
      TellKeeps,
     PublishKeeps, LinkKeeps, SendKeeps, RefusedKeeps, ResetKeeps, DisconnectKeeps DEF ClientStep
<1>2. ASSUME NEW s \in Clients, ServerStep(s) PROVE Inv'
  BY <1>2, FirstKeeps, AcceptKeeps, RejectsKeeps DEF ServerStep
<1>3. ASSUME NEW c \in Clients, ConnectFails(c) \/ PublishFails(c) \/ Dies(c) \/ ServerDies(c) PROVE Inv'
  BY <1>3, ConnectFailsKeeps, PublishFailsKeeps, DiesKeeps, ServerDiesKeeps
<1>4. CASE Finished \/ UNCHANGED vars BY <1>4, StutterKeeps DEF Finished
<1> QED BY <1>1, <1>2, <1>3, <1>4 DEF Next

(* For any processes, ports, policies and faults: the file never leads to  *)
(* a server other than the one whose cookie it holds.                      *)
THEOREM FileIsOwnHolds == Spec => []FileIsOwn
<1>1. Inv => FileIsOwn BY DEF Inv
<1> QED BY <1>1, InitInv, NextInv, PTL DEF Spec

(* For any processes, ports, policies and faults: an announced server is   *)
(* alive only as long as the file names it, unless its entry was written   *)
(* behind a gap or thrown away when a connection to it failed.             *)
THEOREM AnnouncedIsNamedHolds == Spec => []AnnouncedIsNamed
<1>1. Inv => AnnouncedIsNamed
  BY DEF Inv, PublishedNamed, Kept, AnnouncedIsNamed
<1> QED BY <1>1, InitInv, NextInv, PTL DEF Spec
=============================================================================
