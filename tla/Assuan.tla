------------------------------- MODULE Assuan -------------------------------
(***************************************************************************)
(* The Assuan client and the requests that Agent makes with it of          *)
(* gpg-agent (ipc/src/assuan/mod.rs, ipc/src/gnupg.rs).                    *)
(*                                                                         *)
(* A request is a future that sends a few commands and matches the         *)
(* responses, which carry no name, by counting: Client::poll_next reports  *)
(* the end of the stream once after every OK, ERR or INQUIRE.  Requests    *)
(* are numbered; number n signs the n-th digest or decrypts the n-th       *)
(* ciphertext.                                                             *)
(***************************************************************************)
EXTENDS Naturals, Sequences, SequencesExt

CONSTANTS MaxRequests,  \* bound on the requests made on one connection
          Kinds,        \* kinds of request made: "sign", "decrypt"
          MaxOptions,   \* most OPTION commands a request begins with
          Chunks        \* the D lines an answer is split into

ASSUME AssuanAssumption ==
    /\ MaxRequests \in Nat /\ MaxOptions \in Nat
    /\ Chunks \in Nat \ {0}
    /\ Kinds \subseteq {"sign", "decrypt"}

(* Lines from the server: what a response says, and for data of which      *)
(* request, of which kind, and which part of it.                           *)
Line(t) == [t |-> t, k |-> "none", n |-> 0, i |-> 0]
Data(k, n) == [i \in 1..Chunks |-> [t |-> "data", k |-> k, n |-> n, i |-> i]]

\* Mutant: an inquiry does not end the responses.
DoneAtAnswer(r) == r.t \in {"ok", "err"}
is_done(r) == r.t \in {"ok", "err", "inquire"}

(* Commands to the server; n is the digest or ciphertext they carry.       *)
Command(t, n) == [t |-> t, n |-> n]

VARIABLES
    w,          \* WriteState: "ready", "sending" or "dead"
    out,        \* the command that is being sent
    done,       \* Client::done
    st,         \* state of the request, or "idle" between requests
    kind,       \* its kind
    num,        \* its number
    opts,       \* options it has still to send
    data,       \* data received for it
    results,    \* results[n]: whose answer request n returned; 0: none (history)
    reused,     \* 1 once a caller has gone on with an Agent after an error (history)
    wire,       \* commands on their way to the server
    link,       \* lines on their way to the client, or buffered by it
    open,       \* the server has not closed the connection
    hash,       \* server: the digest that was set
    inq,        \* server: it waits for the ciphertext
    last        \* handshake: the last response collected in this poll

client == <<w, out, done>>
request == <<st, kind, num, opts, data, results, reused>>
server == <<wire, link, open, hash, inq>>
vars == <<client, request, server, last>>

States == {"options", "key", "hash", "pksign", "pkdecrypt", "inquire"}

Init ==
    /\ w = "ready" /\ out = Command("none", 0) /\ done = FALSE
    /\ st = "greet" /\ kind = "none" /\ num = 0 /\ opts = 0 /\ data = <<>>
    /\ results = <<>> /\ reused = 0
    /\ wire = <<>> /\ open = TRUE /\ hash = 0 /\ inq = FALSE
    /\ link \in {<<Line("ok")>>, <<Line("err")>>, <<Line("junk"), Line("ok")>>, <<>>}
    /\ last = "none"

-----------------------------------------------------------------------------
(* Client::poll_next once nothing is left to send.                         *)
EndOfStream == w # "sending" /\ (done \/ (link = <<>> /\ ~ open))
HasLine == w # "sending" /\ ~ done /\ link # <<>>
Response == Head(link)

(* What poll_next does to the client in these cases.                       *)
TakeEnd == done' = FALSE /\ UNCHANGED <<w, out, server>>
TakeLine == /\ done' = is_done(Response)
            /\ link' = Tail(link)
            /\ UNCHANGED <<w, out, wire, open, hash, inq>>

(* ConnectionFuture: a poll collects responses until the end; what an      *)
(* interrupted poll collected is gone.                                     *)
Greeting ==
    /\ st = "greet"
    /\ HasLine /\ last' = Response.t
    /\ TakeLine
    /\ UNCHANGED request

GreetPending ==
    /\ st = "greet" /\ last # "none"
    /\ w # "sending" /\ ~ done /\ link = <<>> /\ open
    /\ last' = "none"
    /\ UNCHANGED <<client, request, server>>

Greeted ==
    /\ st = "greet" /\ EndOfStream
    /\ TakeEnd
    /\ st' = IF last = "ok" THEN "idle" ELSE "closed"
    /\ last' = "none"
    /\ UNCHANGED <<kind, num, opts, data, results, reused>>

-----------------------------------------------------------------------------
(* The requests.                                                           *)

(* The caller gets an error: it drops the Agent, as KeyPair does, or makes *)
(* another request with it, which Agent allows.                            *)
AfterError == \/ st' = "closed" /\ UNCHANGED reused
              \/ st' = "idle" /\ reused' = 1

(* The request returns v, or an error if that is 0.                        *)
Return(v) ==
    /\ results' = [results EXCEPT ![num] = v]
    /\ IF v = 0 THEN AfterError ELSE st' = "idle" /\ UNCHANGED reused
    /\ data' = <<>>
    /\ UNCHANGED <<kind, num, opts>>

(* Client::send, after which the request is in state s.  It refuses a      *)
(* second command while one is being sent, and takes a dead connection for *)
(* impossible.                                                             *)
SendCommand(cmd, s) ==
    /\ CASE w = "ready" -> w' = "sending" /\ out' = cmd /\ st' = s /\ UNCHANGED reused
         [] w = "sending" -> AfterError /\ UNCHANGED <<w, out>>
         [] w = "dead" -> st' = "panic" /\ UNCHANGED <<w, out, reused>>
    /\ UNCHANGED <<server, last>>

(* The next option or, after them, SIGKEY or SETKEY.                       *)
SendOption(o) == SendCommand(Command(IF o = 0 THEN "key" ELSE "option", 0),
                             IF o = 0 THEN "key" ELSE "options")
Less(o) == IF o = 0 THEN 0 ELSE o - 1

(* Agent::sign or Agent::decrypt, first poll (state Start).                *)
Begin ==
    /\ st = "idle" /\ num < MaxRequests
    /\ num' = num + 1
    /\ results' = Append(results, 0)
    /\ \E k \in Kinds, o \in 0..MaxOptions :
          kind' = k /\ opts' = Less(o) /\ SendOption(o)
    /\ UNCHANGED <<data, done>>

(* The command is written, completely and at last.                         *)
Written ==
    /\ w = "sending" /\ st \in States
    /\ w' = "ready"
    /\ wire' = IF open THEN Append(wire, out) ELSE wire
    /\ UNCHANGED <<out, done, link, open, hash, inq, request, last>>

WriteError ==
    /\ w = "sending" /\ st \in States /\ ~ open
    /\ w' = "dead"
    /\ Return(0)
    /\ UNCHANGED <<out, done, server, last>>

\* Mutant: errors are passed over as well.
IgnoresErrors(r) == \/ r.t \in {"status", "err"}
                    \/ r.t = "ok" /\ st # "pkdecrypt"
                    \/ r.t = "inquire" /\ st = "pkdecrypt"
(* A response that the state of the request passes over.                   *)
Ignores(r) == \/ r.t = "status"
              \/ r.t = "ok" /\ st # "pkdecrypt"
              \/ r.t = "inquire" /\ st = "pkdecrypt"

Ignore ==
    /\ st \in States /\ HasLine /\ Ignores(Response)
    /\ TakeLine
    /\ UNCHANGED <<request, last>>

(* Data, where it is expected.                                             *)
Collect ==
    /\ st \in {"pksign", "inquire"}
    /\ HasLine /\ Response.t = "data"
    /\ data' = Append(data, Response)
    /\ TakeLine
    /\ UNCHANGED <<st, kind, num, opts, results, reused, last>>

(* operation_failed, protocol_error, or a line that cannot be parsed.      *)
Fail ==
    /\ st \in States
    /\ HasLine /\ ~ Ignores(Response)
    /\ Response.t = "data" => st \notin {"pksign", "inquire"}
    /\ TakeLine
    /\ Return(0)
    /\ UNCHANGED last

(* The end of the responses to a command: send the next one.               *)
Proceed ==
    /\ st \in {"options", "key", "hash", "pkdecrypt"} /\ EndOfStream
    /\ done' = FALSE
    /\ CASE st = "options" -> SendOption(opts)
         [] st = "key" /\ kind = "sign" -> SendCommand(Command("hash", num), "hash")
         [] st = "key" /\ kind # "sign" -> SendCommand(Command("pkdecrypt", 0), "pkdecrypt")
         [] st = "hash" -> SendCommand(Command("pksign", 0), "pksign")
         [] st = "pkdecrypt" -> SendCommand(Command("data", num), "inquire")
    /\ opts' = Less(opts)
    /\ UNCHANGED <<kind, num, data, results>>

(* The end of the responses to the last command: Sexp::from_bytes and      *)
(* to_signature or finish_decryption.                                      *)
Whole(d, k) == \E n \in 0..MaxRequests : d = Data(k, n)

Conclude ==
    /\ st \in {"pksign", "inquire"} /\ EndOfStream
    /\ TakeEnd
    /\ Return(IF Whole(data, kind) THEN data[1].n ELSE 0)
    /\ UNCHANGED last

(* The caller drops the future before it is ready.                         *)
Cancel ==
    /\ st \in States
    /\ Return(0)
    /\ UNCHANGED <<client, server, last>>

-----------------------------------------------------------------------------
(* gpg-agent, as far as the client relies on it: it answers the commands   *)
(* in order, each with one OK, ERR or INQUIRE at the end.                  *)

Answers(c) ==
    LET fine == {<<Line("ok")>>, <<Line("err")>>, <<Line("status"), Line("ok")>>,
                 <<Line("junk"), Line("ok")>>} IN
    CASE inq /\ c.t = "data" -> {<<Line("err")>>, <<Line("status")>> \o Data("decrypt", c.n) \o <<Line("ok")>>}
      [] inq /\ c.t # "data" -> {<<Line("err")>>}
      [] ~ inq /\ c.t \in {"option", "key", "hash"} -> fine
      [] ~ inq /\ c.t = "pksign" -> {<<Line("err")>>} \union
                                    (IF hash = 0 THEN {} ELSE {Data("sign", hash) \o <<Line("ok")>>})
      [] ~ inq /\ c.t = "pkdecrypt" -> {<<Line("err")>>, <<Line("inquire")>>, <<Line("status"), Line("inquire")>>}
      [] ~ inq /\ c.t = "data" -> {<<Line("err"), Line("err")>>}

Answer ==
    /\ open /\ wire # <<>>
    /\ \E a \in Answers(Head(wire)) :
          /\ link' = link \o a
          /\ inq' = (Last(a).t = "inquire")
          /\ hash' = IF Head(wire).t = "hash" /\ Last(a).t = "ok" THEN Head(wire).n ELSE hash
    /\ wire' = Tail(wire)
    /\ UNCHANGED <<client, request, open, last>>

(* The server says something first, or nothing for a while.                *)
Greet ==
    /\ open /\ st = "greet" /\ link = <<>> /\ ~ done
    /\ \E t \in {"ok", "err", "status", "inquire"} : link' = <<Line(t)>>
    /\ UNCHANGED <<client, request, wire, open, hash, inq, last>>

(* It may go away; what it has written before arrives.                     *)
Close ==
    /\ open
    /\ open' = FALSE /\ wire' = <<>>
    /\ UNCHANGED <<client, request, link, hash, inq, last>>

Over ==
    /\ st \in {"closed", "panic"} \/ (st = "idle" /\ num = MaxRequests)
    /\ UNCHANGED vars

ClientNext ==
    \/ Greeting \/ GreetPending \/ Greeted
    \/ Begin \/ Written \/ WriteError \/ Ignore \/ Collect \/ Fail \/ Proceed \/ Conclude
ServerNext == Answer \/ Greet

Next == ClientNext \/ ServerNext \/ Cancel \/ Close \/ Over

Spec == Init /\ [][Next]_vars

(* The executor polls the future when there is something to do, and        *)
(* gpg-agent answers.                                                      *)
FairSpec == Spec /\ WF_vars(ClientNext) /\ WF_vars(Answer)

-----------------------------------------------------------------------------
(* Properties.                                                             *)

(* "Creates a signature over the digest" (Agent::sign): whatever a request *)
(* returns was made for it, although responses are matched by counting and *)
(* the server may stop in the middle, and a connection that is used again  *)
(* is in step: nothing of an earlier request is still to be sent, answered, *)
(* read or reported.  The one exception is an Agent that its caller has    *)
(* gone on with after an error or a dropped future, which leave the flag   *)
(* done, a command or unread lines behind: from then on an answer can be   *)
(* that to an earlier request.                                             *)
OwnAnswer ==
    reused = 0 =>
        /\ \A n \in 1..num : results[n] \in {0, n}
        /\ st = "idle" => ~ done /\ w = "ready" /\ wire = <<>> /\ link = <<>>

(* Every request returns, also if the server goes away and with an Agent   *)
(* that is out of step, and send does not meet the state it declares       *)
(* unreachable, except with an Agent that was used again after an error.   *)
Completes == /\ st \in States ~> st \in {"idle", "closed"}
             /\ [](st = "panic" => reused = 1)
=============================================================================
