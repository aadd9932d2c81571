---------------------------- MODULE AssuanProofs ----------------------------
(***************************************************************************)
(* Proofs about Assuan, for any number of requests, options and data lines *)
(* of an answer.                                                           *)
(*                                                                         *)
(* Responses carry no name, so that a request relies on the connection     *)
(* being in step: at most one command is under way, only the last line on  *)
(* the link ends the responses to it, and the lines of data are those of   *)
(* the request that runs.  BusyInv says so.                                *)
(***************************************************************************)
EXTENDS Assuan, TLAPS

Texts == {"ok", "err", "inquire", "status", "junk", "data"}
Lines == [t : Texts, k : {"none", "sign", "decrypt"}, n : Nat, i : Nat]

\* Nobody reads what arrives on a connection that was given up.
Ended == {"closed", "panic"}

TypeInv ==
    /\ st \in States \cup Ended \cup {"greet", "idle"}
    /\ num \in Nat /\ data \in Seq(Lines) /\ results \in [1..num -> Nat]
    /\ st \notin Ended => link \in Seq(Lines) /\ hash \in Nat

\* The lines of l are the rest of the answer to one command of the request.
OwnLine(l, i) == /\ is_done(l[i]) => i = Len(l)
                 /\ l[i].t = "data" => l[i].n = num
Own(l) == \A i \in 1..Len(l) : OwnLine(l, i)

ResultsInv == \A n \in 1..num : results[n] \in {0, n}

GreetInv == st = "greet" =>
    /\ num = 0 /\ w = "ready" /\ wire = <<>> /\ data = <<>>
    /\ Own(link)
    /\ done => link = <<>>
    /\ last = "ok" => done

IdleInv == st = "idle" =>
    ~ done /\ w = "ready" /\ wire = <<>> /\ link = <<>> /\ data = <<>>

\* The command a request in state s has sent last.
Sent(s, c) == \/ s = "options"   /\ c = Command("option", 0)
              \/ s = "key"       /\ c = Command("key", 0)
              \/ s = "hash"      /\ c = Command("hash", num)
              \/ s = "pksign"    /\ c = Command("pksign", 0)
              \/ s = "pkdecrypt" /\ c = Command("pkdecrypt", 0)
              \/ s = "inquire"   /\ c = Command("data", num)

Answered == w = "ready" /\ wire = <<>>

\* One command at a time.
InStep ==
    /\ w \in {"ready", "sending"}
    /\ wire \in {<<>>, <<out>>}
    /\ wire # <<>> => open /\ link = <<>> /\ ~ done /\ w = "ready"
    /\ w = "sending" => wire = <<>> /\ link = <<>> /\ ~ done
    /\ done => link = <<>>

\* What the server knows of the request.
ServerKnows ==
    /\ st = "hash" /\ Answered => hash = num \/ link = <<Line("err")>>
    /\ st = "pksign" => hash = num
    /\ st = "pkdecrypt" /\ Answered => inq \/ link = <<Line("err")>>
    /\ st = "inquire" /\ ~ Answered => inq

BusyInv == st \in States =>
    /\ kind \in {"sign", "decrypt"} /\ num > 0
    /\ Sent(st, out)
    /\ InStep
    /\ Own(link)
    /\ \A i \in 1..Len(data) : data[i].n = num
    /\ st \notin {"pksign", "inquire"} => data = <<>>
    /\ open => ServerKnows

Inv == TypeInv /\ ResultsInv /\ GreetInv /\ IdleInv /\ BusyInv
-----------------------------------------------------------------------------
(***************************************************************************)
(* Lines.                                                                  *)
(***************************************************************************)
LEMMA LineType == \A t \in Texts : Line(t) \in Lines
BY DEF Line, Lines

LEMMA DataType ==
    ASSUME NEW k \in {"sign", "decrypt"}, NEW n \in Nat
    PROVE  /\ Data(k, n) \in Seq(Lines) /\ Len(Data(k, n)) = Chunks
           /\ Chunks \in Nat \ {0}
           /\ \A i \in 1..Chunks : Data(k, n)[i].t = "data" /\ Data(k, n)[i].n = n
<1>1. Chunks \in Nat \ {0}
  BY AssuanAssumption
<1>2. \A i \in 1..Chunks : [t |-> "data", k |-> k, n |-> n, i |-> i] \in Lines
  BY <1>1 DEF Lines, Texts
<1> QED
  BY <1>1, <1>2 DEF Data

\* What is left after a line is taken is still of the request, and a line
\* that ends the responses was the last.
LEMMA TailOwn ==
    ASSUME TypeInv, st \notin Ended, link # <<>>, Own(link)
    PROVE  /\ Tail(link) \in Seq(Lines) /\ Head(link) \in Lines
           /\ Own(Tail(link))
           /\ is_done(Head(link)) => Tail(link) = <<>>
           /\ Head(link).t = "data" => Head(link).n = num
<1>1. /\ link \in Seq(Lines) /\ Len(link) \in Nat /\ Len(link) > 0
      /\ Tail(link) \in Seq(Lines) /\ Head(link) \in Lines /\ Head(link) = link[1]
      /\ Len(Tail(link)) = Len(link) - 1
      /\ \A i \in 1..Len(Tail(link)) : Tail(link)[i] = link[i + 1]
  BY DEF TypeInv, Ended
<1>2. OwnLine(link, 1)
  BY <1>1 DEF Own
<1>3. ASSUME NEW i \in 1..Len(Tail(link)) PROVE OwnLine(Tail(link), i)
  <2>1. OwnLine(link, i + 1)
    BY <1>1 DEF Own
  <2>2. Tail(link)[i] = link[i + 1]
    BY <1>1
  <2> DEFINE m == Len(Tail(link))
  <2>3. i \in Nat /\ m \in Nat /\ Len(link) = m + 1
    BY <1>1
  <2> HIDE DEF m
  <2>4. i + 1 = Len(link) => i = m
    BY <2>3
  <2> QED
    BY <2>1, <2>2, <2>4 DEF OwnLine, is_done, m
<1>4. is_done(Head(link)) => Tail(link) = <<>>
  BY <1>1, <1>2 DEF OwnLine, is_done
<1> QED
  BY <1>1, <1>2, <1>3, <1>4 DEF Own, OwnLine, is_done

\* Answers of one line and of two.
LEMMA ShortAnswers ==
    ASSUME NEW t \in Texts \ {"data"}, NEW x \in {"status", "junk"}
    PROVE  /\ <<Line(t)>> \in Seq(Lines) /\ Own(<<Line(t)>>) /\ <<Line(t)>> # <<>>
           /\ Last(<<Line(t)>>).t = t
           /\ <<Line(x), Line(t)>> \in Seq(Lines) /\ Own(<<Line(x), Line(t)>>)
           /\ <<Line(x), Line(t)>> # <<>>
           /\ Last(<<Line(x), Line(t)>>).t = t
<1>1. Line(t) \in Lines /\ Line(x) \in Lines /\ Line(t).t = t /\ Line(x).t = x
  BY LineType DEF Texts, Line
<1>2. Own(<<Line(t)>>)
  BY <1>1 DEF Own, OwnLine
<1>3. Own(<<Line(x), Line(t)>>)
  <2>1. OwnLine(<<Line(x), Line(t)>>, 1)
    BY <1>1 DEF OwnLine, is_done
  <2>2. OwnLine(<<Line(x), Line(t)>>, 2)
    BY <1>1 DEF OwnLine, is_done
  <2> QED
    BY <2>1, <2>2 DEF Own
<1> QED
  BY <1>1, <1>2, <1>3 DEF Last

\* Every answer ends with its one OK, ERR or INQUIRE.
LEMMA AnswerOwn ==
    ASSUME TypeInv, st \notin Ended, NEW s \in States, NEW c, Sent(s, c),
           NEW a \in Answers(c),
           s = "pksign" => hash = num,
           s = "inquire" => inq
    PROVE  /\ a \in Seq(Lines) /\ Own(a) /\ a # <<>>
           /\ Last(a).t = "inquire" => s = "pkdecrypt"
           /\ s = "hash" => Last(a).t = "ok" \/ a = <<Line("err")>>
           /\ s = "pkdecrypt" => Last(a).t = "inquire" \/ a = <<Line("err")>>
<1>0. Chunks \in Nat \ {0} /\ num \in Nat /\ hash \in Nat
  BY AssuanAssumption DEF TypeInv, Ended
<1>1. CASE a = <<Line("err")>>
  BY <1>1, ShortAnswers DEF Texts
<1>2. CASE /\ s \in {"options", "key", "hash"}
           /\ a \in {<<Line("ok")>>, <<Line("status"), Line("ok")>>, <<Line("junk"), Line("ok")>>}
  BY <1>2, ShortAnswers DEF Texts
<1>3. CASE /\ s = "pkdecrypt"
           /\ a \in {<<Line("inquire")>>, <<Line("status"), Line("inquire")>>}
  BY <1>3, ShortAnswers DEF Texts
<1>4. CASE s = "pksign" /\ a = Data("sign", num) \o <<Line("ok")>>
  <2> DEFINE d == Data("sign", num)
  <2>1. /\ d \in Seq(Lines) /\ Len(d) = Chunks
        /\ \A i \in 1..Chunks : d[i].t = "data" /\ d[i].n = num
    BY <1>0, DataType
  <2> HIDE DEF d
  <2>2. <<Line("ok")>> \in Seq(Lines) /\ Line("ok").t = "ok"
    BY LineType DEF Texts, Line
  <2>3. a \in Seq(Lines) /\ Len(a) = Chunks + 1
    BY <1>0, <1>4, <2>1, <2>2 DEF d
  <2>4. (\A i \in 1..Chunks : a[i] = d[i]) /\ a[Chunks + 1] = Line("ok")
    BY <1>0, <1>4, <2>1, <2>2 DEF d
  <2>5. ASSUME NEW i \in 1..Len(a) PROVE OwnLine(a, i)
    BY <1>0, <2>1, <2>2, <2>3, <2>4 DEF OwnLine, is_done
  <2>6. Last(a).t = "ok"
    BY <2>2, <2>3, <2>4 DEF Last
  <2>7. a # <<>>
    BY <1>0, <2>3
  <2> QED
    BY <1>4, <2>3, <2>5, <2>6, <2>7 DEF Own
<1>5. CASE s = "inquire" /\ a = <<Line("status")>> \o Data("decrypt", num) \o <<Line("ok")>>
  <2> DEFINE d == Data("decrypt", num)
  <2>1. /\ d \in Seq(Lines) /\ Len(d) = Chunks
        /\ \A i \in 1..Chunks : d[i].t = "data" /\ d[i].n = num
    BY <1>0, DataType
  <2> HIDE DEF d
  <2>2. /\ <<Line("ok")>> \in Seq(Lines) /\ Line("ok").t = "ok"
        /\ <<Line("status")>> \in Seq(Lines) /\ Line("status").t = "status"
    BY LineType DEF Texts, Line
  <2>3. a \in Seq(Lines) /\ Len(a) = Chunks + 2
    BY <1>0, <1>5, <2>1, <2>2 DEF d
  <2>4. /\ a[1] = Line("status") /\ a[Chunks + 2] = Line("ok")
        /\ \A i \in 2..(Chunks + 1) : a[i] = d[i - 1]
    BY <1>0, <1>5, <2>1, <2>2 DEF d
  <2>5. ASSUME NEW i \in 1..Len(a) PROVE OwnLine(a, i)
    <3>1. CASE i = 1 \/ i = Chunks + 2
      BY <1>0, <2>2, <2>3, <2>4, <3>1 DEF OwnLine, is_done
    <3>2. CASE i \in 2..(Chunks + 1)
      <4>1. i - 1 \in 1..Chunks
        BY <1>0, <3>2
      <4> QED
        BY <2>1, <2>4, <3>2, <4>1 DEF OwnLine, is_done
    <3> QED
      BY <1>0, <2>3, <3>1, <3>2
  <2>6. Last(a).t = "ok"
    BY <2>2, <2>3, <2>4 DEF Last
  <2>7. a # <<>>
    BY <1>0, <2>3
  <2> QED
    BY <1>5, <2>3, <2>5, <2>6, <2>7 DEF Own
<1> QED
  BY <1>1, <1>2, <1>3, <1>4, <1>5 DEF Answers, Sent, Command, States
-----------------------------------------------------------------------------
(***************************************************************************)
(* The steps of the client.                                                *)
(***************************************************************************)
LEMMA InitInv == Init => Inv
<1> SUFFICES ASSUME Init PROVE Inv
  OBVIOUS
<1>1. link \in Seq(Lines) /\ Own(link)
  <2>1. <<>> \in Seq(Lines) /\ Own(<<>>)
    BY DEF Own
  <2> QED
    BY <2>1, ShortAnswers DEF Init, Texts
<1> QED
  BY <1>1 DEF Init, Inv, TypeInv, Ended, ResultsInv, GreetInv, IdleInv, BusyInv, States

LEMMA GreetSteps ==
    ASSUME Inv, Greeting \/ GreetPending \/ Greeted PROVE Inv'
<1>0. TypeInv /\ ResultsInv /\ GreetInv /\ st = "greet"
  BY DEF Inv, Greeting, GreetPending, Greeted
<1>1. CASE Greeting
  <2>1. /\ link # <<>> /\ link' = Tail(link) /\ done' = is_done(Head(link))
        /\ last' = Head(link).t
        /\ UNCHANGED <<st, num, w, wire, data, results, hash>>
    BY <1>1 DEF Greeting, HasLine, Response, TakeLine, request
  <2>2. /\ Tail(link) \in Seq(Lines) /\ Own(Tail(link))
        /\ is_done(Head(link)) => Tail(link) = <<>>
    BY <1>0, <2>1, TailOwn DEF GreetInv, Ended
  <2>3. Own(link)'
    BY <2>1, <2>2 DEF Own, OwnLine
  <2>4. GreetInv'
    BY <1>0, <2>1, <2>2, <2>3 DEF GreetInv, is_done
  <2> QED
    BY <1>0, <2>1, <2>2, <2>4 DEF Inv, TypeInv, Ended, ResultsInv, IdleInv, BusyInv, States
<1>2. CASE GreetPending
  <2>1. UNCHANGED <<client, request, server>> /\ last' = "none"
    BY <1>2 DEF GreetPending
  <2>2. Own(link)' <=> Own(link)
    BY <2>1 DEF Own, OwnLine, server, request
  <2> QED
    BY <1>0, <2>1, <2>2 DEF Inv, TypeInv, Ended, ResultsInv, GreetInv, IdleInv, BusyInv, States,
                            client, request, server
<1>3. CASE Greeted
  <2>1. /\ done' = FALSE /\ st' = IF last = "ok" THEN "idle" ELSE "closed"
        /\ UNCHANGED <<num, w, wire, link, data, results, hash>>
    BY <1>3 DEF Greeted, TakeEnd, server
  <2> QED
    BY <1>0, <2>1 DEF Inv, TypeInv, Ended, ResultsInv, GreetInv, IdleInv, BusyInv, States
<1> QED
  BY <1>1, <1>2, <1>3

\* A request that ends with an error is the last on its connection.
LEMMA ErrorInv ==
    ASSUME Inv, reused' = 0, Return(0), num > 0
    PROVE  Inv'
<1>1. /\ results' = [results EXCEPT ![num] = 0] /\ st' = "closed"
      /\ num' = num /\ data' = <<>>
  BY DEF Return, AfterError
<1>2. TypeInv'
  BY <1>1 DEF Inv, TypeInv, Ended
<1>3. ResultsInv'
  BY <1>1 DEF Inv, TypeInv, Ended, ResultsInv
<1> QED
  BY <1>1, <1>2, <1>3 DEF Inv, GreetInv, IdleInv, BusyInv, States

\* Client::send by a request that is in step.
LEMMA SendInv ==
    ASSUME Inv, st \notin Ended, w = "ready", wire = <<>>, link = <<>>, done' = FALSE,
           NEW s \in States, NEW c, SendCommand(c, s), Sent(s, c)',
           num' \in Nat \ {0}, kind' \in {"sign", "decrypt"}, data = <<>>, data' = data,
           results' \in [1..num' -> Nat], \A n \in 1..num' : results'[n] \in {0, n},
           open => /\ s = "pksign" => hash = num'
                   /\ s = "inquire" => inq
    PROVE  Inv'
<1>1. w' = "sending" /\ out' = c /\ st' = s /\ UNCHANGED <<wire, link, open, hash, inq>>
  BY DEF SendCommand, server
<1>2. TypeInv' /\ ResultsInv'
  BY <1>1 DEF Inv, TypeInv, ResultsInv
<1>3. Own(link)'
  BY <1>1 DEF Own
<1>4. InStep'
  BY <1>1 DEF InStep
<1>5. (open => ServerKnows)'
  BY <1>1 DEF ServerKnows, Answered
<1>6. \A i \in 1..Len(data') : data'[i].n = num'
  OBVIOUS
<1>7. BusyInv'
  BY <1>1, <1>3, <1>4, <1>5, <1>6 DEF BusyInv
<1> QED
  BY <1>1, <1>2, <1>7 DEF Inv, GreetInv, IdleInv, States

LEMMA BeginInv == ASSUME Inv, Begin PROVE Inv'
<1>0. /\ TypeInv /\ ResultsInv /\ st = "idle" /\ num' = num + 1
      /\ results' = Append(results, 0) /\ data' = data /\ done' = done
      /\ ~ done /\ w = "ready" /\ wire = <<>> /\ link = <<>> /\ data = <<>>
  BY DEF Inv, IdleInv, Begin
<1>1. num' \in Nat \ {0} /\ Kinds \subseteq {"sign", "decrypt"}
  BY <1>0, AssuanAssumption DEF TypeInv, Ended
<1>2. /\ results' \in [1..num' -> Nat]
      /\ \A n \in 1..num' : results'[n] \in {0, n}
  <2>1. results \in Seq(Nat) /\ Len(results) = num
    BY <1>0 DEF TypeInv, Ended
  <2>2. results' \in Seq(Nat) /\ Len(results') = num'
    BY <1>0, <2>1
  <2>3. \A n \in 1..num' : results'[n] = IF n = num' THEN 0 ELSE results[n]
    BY <1>0, <1>1, <2>1
  <2>4. results' \in [1..num' -> Nat]
    BY <2>2
  <2>5. ASSUME NEW n \in 1..num' PROVE results'[n] \in {0, n}
    <3>1. CASE n = num'
      BY <2>3, <3>1
    <3>2. CASE n # num'
      <4>1. n \in 1..num
        BY <1>0, <3>2 DEF TypeInv, Ended
      <4> QED
        BY <1>0, <2>3, <3>2, <4>1 DEF ResultsInv
    <3> QED
      BY <3>1, <3>2
  <2> QED
    BY <2>4, <2>5
<1>3. PICK k \in Kinds, o \in 0..MaxOptions : kind' = k /\ SendOption(o)
  BY DEF Begin
<1>4. CASE o = 0
  <2>1. SendCommand(Command("key", 0), "key")
    BY <1>3, <1>4 DEF SendOption
  <2>2. Sent("key", Command("key", 0))'
    BY DEF Sent
  <2>3. "key" \in States /\ "key" # "pksign" /\ "key" # "inquire"
    BY DEF States
  <2>4. done' = FALSE /\ kind' \in {"sign", "decrypt"}
    BY <1>0, <1>1, <1>3
  <2> QED
    BY <1>0, <1>1, <1>2, <2>1, <2>2, <2>3, <2>4, SendInv DEF Ended
<1>5. CASE o # 0
  <2>1. SendCommand(Command("option", 0), "options")
    BY <1>3, <1>5 DEF SendOption
  <2>2. Sent("options", Command("option", 0))'
    BY DEF Sent
  <2>3. "options" \in States /\ "options" # "pksign" /\ "options" # "inquire"
    BY DEF States
  <2>4. done' = FALSE /\ kind' \in {"sign", "decrypt"}
    BY <1>0, <1>1, <1>3
  <2> QED
    BY <1>0, <1>1, <1>2, <2>1, <2>2, <2>3, <2>4, SendInv DEF Ended
<1> QED
  BY <1>4, <1>5

LEMMA ProceedInv == ASSUME Inv, Proceed PROVE Inv'
<1>0. /\ TypeInv /\ ResultsInv /\ st \in States /\ BusyInv
      /\ st \in {"options", "key", "hash", "pkdecrypt"}
      /\ done' = FALSE /\ UNCHANGED <<kind, num, data, results>>
      /\ w # "sending" /\ (done \/ (link = <<>> /\ ~ open))
  BY DEF Inv, Proceed, EndOfStream, States
<1>1. /\ w = "ready" /\ link = <<>> /\ wire = <<>> /\ data = <<>>
      /\ num > 0 /\ kind \in {"sign", "decrypt"}
  BY <1>0 DEF BusyInv, InStep
<1>2. open => /\ st = "hash" => hash = num
              /\ st = "pkdecrypt" => inq
  BY <1>0, <1>1 DEF BusyInv, ServerKnows, Answered
<1>a. \E s \in States : \E c : /\ SendCommand(c, s) /\ Sent(s, c)
                               /\ s = "pksign" => st = "hash"
                               /\ s = "inquire" => st = "pkdecrypt"
  <2>1. CASE st = "options"
    BY <1>0, <2>1 DEF Proceed, SendOption, Sent, States
  <2>2. CASE st = "key" /\ kind = "sign"
    <3>1. SendCommand(Command("hash", num), "hash")
      BY <1>0, <2>2 DEF Proceed
    <3> QED
      BY <3>1 DEF Sent, States
  <2>3. CASE st = "key" /\ kind = "decrypt"
    <3>1. SendCommand(Command("pkdecrypt", 0), "pkdecrypt")
      BY <1>0, <2>3 DEF Proceed
    <3> QED
      BY <3>1 DEF Sent, States
  <2>4. CASE st = "hash"
    <3>1. SendCommand(Command("pksign", 0), "pksign")
      BY <1>0, <2>4 DEF Proceed
    <3> QED
      BY <2>4, <3>1 DEF Sent, States
  <2>5. CASE st = "pkdecrypt"
    <3>1. SendCommand(Command("data", num), "inquire")
      BY <1>0, <2>5 DEF Proceed
    <3> QED
      BY <2>5, <3>1 DEF Sent, States
  <2> QED
    BY <1>0, <1>1, <2>1, <2>2, <2>3, <2>4, <2>5
<1>b. PICK s \in States : \E c : /\ SendCommand(c, s) /\ Sent(s, c)
                                 /\ s = "pksign" => st = "hash"
                                 /\ s = "inquire" => st = "pkdecrypt"
  BY <1>a
<1>3. PICK c : /\ SendCommand(c, s) /\ Sent(s, c)
               /\ s = "pksign" => st = "hash"
               /\ s = "inquire" => st = "pkdecrypt"
  BY <1>b
<1>4. Sent(s, c)'
  BY <1>0, <1>3 DEF Sent
<1>5. /\ results' \in [1..num' -> Nat] /\ num' \in Nat \ {0}
      /\ \A n \in 1..num' : results'[n] \in {0, n}
  BY <1>0, <1>1 DEF TypeInv, Ended, ResultsInv
<1> QED
  BY <1>0, <1>1, <1>2, <1>3, <1>4, <1>5, SendInv DEF Ended, States

LEMMA WrittenInv == ASSUME Inv, Written PROVE Inv'
<1>0. /\ TypeInv /\ ResultsInv /\ BusyInv /\ st \in States /\ w = "sending" /\ w' = "ready"
      /\ wire' = IF open THEN Append(wire, out) ELSE wire
      /\ UNCHANGED <<out, done, link, open, hash, inq, st, kind, num, data, results>>
  BY DEF Inv, Written, request
<1>1. /\ wire = <<>> /\ link = <<>> /\ ~ done
      /\ open => ServerKnows
  BY <1>0 DEF BusyInv, InStep
<1>2. wire' = IF open THEN <<out>> ELSE <<>>
  BY <1>0, <1>1
<1>3. InStep'
  BY <1>0, <1>1, <1>2 DEF InStep
<1>4. (open => ServerKnows)'
  BY <1>0, <1>1, <1>2 DEF ServerKnows, Answered
<1>5. Sent(st, out)' /\ Own(link)'
  BY <1>0 DEF BusyInv, Sent, Own, OwnLine
<1>6. BusyInv'
  BY <1>0, <1>3, <1>4, <1>5 DEF BusyInv
<1> QED
  BY <1>0, <1>6 DEF Inv, TypeInv, Ended, ResultsInv, GreetInv, IdleInv, States

\* A line is taken off the link while the request goes on.
LEMMA TakeInv ==
    ASSUME Inv, st \in States, HasLine, TakeLine, Head(link).t # "err",
           UNCHANGED <<st, kind, num, opts, results>>,
           \/ data' = data
           \/ /\ data' = Append(data, Head(link))
              /\ st \in {"pksign", "inquire"} /\ Head(link).t = "data"
    PROVE  Inv'
<1>0. /\ TypeInv /\ ResultsInv /\ BusyInv /\ w # "sending" /\ ~ done /\ link # <<>>
      /\ done' = is_done(Head(link)) /\ link' = Tail(link)
      /\ UNCHANGED <<w, out, wire, open, hash, inq>>
  BY DEF Inv, HasLine, TakeLine, Response
<1>1. /\ Tail(link) \in Seq(Lines) /\ Head(link) \in Lines
      /\ Own(Tail(link))
      /\ is_done(Head(link)) => Tail(link) = <<>>
      /\ Head(link).t = "data" => Head(link).n = num
  BY <1>0, TailOwn DEF BusyInv, States, Ended
<1>2. w = "ready" /\ wire = <<>>
  BY <1>0 DEF BusyInv, InStep
<1>3. InStep'
  BY <1>0, <1>1, <1>2 DEF InStep
<1>4. Own(link)' /\ Sent(st, out)'
  BY <1>0, <1>1 DEF Own, OwnLine, Sent, BusyInv
<1>5. link # <<Line("err")>>
  BY DEF Line
<1>6. (open => ServerKnows)'
  BY <1>0, <1>2, <1>5 DEF BusyInv, ServerKnows, Answered
<1>7. data' \in Seq(Lines) /\ \A i \in 1..Len(data') : data'[i].n = num
  <2>1. data \in Seq(Lines) /\ \A i \in 1..Len(data) : data[i].n = num
    BY <1>0 DEF TypeInv, Ended, BusyInv
  <2>2. CASE data' = data
    BY <2>1, <2>2
  <2>3. CASE data' = Append(data, Head(link)) /\ Head(link).t = "data"
    <3>1. /\ data' \in Seq(Lines) /\ Len(data') = Len(data) + 1
          /\ \A i \in 1..Len(data) : data'[i] = data[i]
          /\ data'[Len(data) + 1] = Head(link)
      BY <1>1, <2>1, <2>3
    <3>2. Len(data) \in Nat
      BY <2>1
    <3>3. \A i \in 1..Len(data') : i \in 1..Len(data) \/ i = Len(data) + 1
      BY <3>1, <3>2
    <3> QED
      BY <1>1, <2>1, <2>3, <3>1, <3>3
  <2> QED
    BY <2>2, <2>3
<1>8. st \notin {"pksign", "inquire"} => data' = <<>>
  BY <1>0 DEF BusyInv
<1>9. BusyInv'
  BY <1>0, <1>3, <1>4, <1>6, <1>7, <1>8 DEF BusyInv
<1>10. TypeInv'
  BY <1>0, <1>1, <1>7 DEF TypeInv, Ended
<1> QED
  BY <1>0, <1>9, <1>10 DEF Inv, ResultsInv, GreetInv, IdleInv, States

LEMMA ConcludeInv == ASSUME Inv, reused' = 0, Conclude PROVE Inv'
<1>0. /\ TypeInv /\ ResultsInv /\ BusyInv /\ st \in States
      /\ w # "sending" /\ (done \/ (link = <<>> /\ ~ open))
      /\ done' = FALSE /\ UNCHANGED <<w, out, wire, link, open, hash, inq>>
  BY DEF Inv, Conclude, EndOfStream, TakeEnd, server, States
<1>1. w = "ready" /\ link = <<>> /\ wire = <<>> /\ num > 0
  BY <1>0 DEF BusyInv, InStep
<1> DEFINE v == IF Whole(data, kind) THEN data[1].n ELSE 0
<1>2. v \in {0, num}
  <2>1. CASE Whole(data, kind)
    <3>1. PICK n \in 0..MaxRequests : data = Data(kind, n)
      BY <2>1 DEF Whole
    <3>2. n \in Nat /\ kind \in {"sign", "decrypt"}
      BY <1>0, AssuanAssumption DEF BusyInv
    <3>3. Len(data) = Chunks /\ Chunks \in Nat \ {0}
      BY <3>1, <3>2, DataType
    <3>4. data[1].n = num
      BY <1>0, <3>3 DEF BusyInv
    <3> QED
      BY <2>1, <3>4
  <2>2. CASE ~ Whole(data, kind)
    BY <2>2
  <2> QED
    BY <2>1, <2>2
<1>3. Return(v)
  BY DEF Conclude
<1> HIDE DEF v
<1>4. /\ results' = [results EXCEPT ![num] = v] /\ data' = <<>> /\ num' = num
      /\ st' \in {"idle", "closed"}
  BY <1>3 DEF Return, AfterError
<1>5. TypeInv' /\ ResultsInv'
  BY <1>0, <1>1, <1>2, <1>4 DEF TypeInv, Ended, ResultsInv, States
<1> QED
  BY <1>0, <1>1, <1>4, <1>5 DEF Inv, GreetInv, IdleInv, BusyInv, States

\* The ways in which a request ends with an error.
LEMMA FailInv == ASSUME Inv, reused' = 0, WriteError \/ Fail \/ Cancel PROVE Inv'
<1>1. num > 0 /\ Return(0)
  BY DEF Inv, BusyInv, WriteError, Fail, Cancel
<1> QED
  BY <1>1, ErrorInv
-----------------------------------------------------------------------------
(***************************************************************************)
(* The steps of the server.                                                *)
(***************************************************************************)
LEMMA AnswerInv == ASSUME Inv, Answer PROVE Inv'
<1>0. /\ TypeInv /\ ResultsInv /\ open /\ wire # <<>> /\ wire' = Tail(wire)
      /\ UNCHANGED <<w, out, done, st, kind, num, opts, data, results, open, last>>
  BY DEF Inv, Answer, client, request
<1>1. PICK a \in Answers(Head(wire)) :
         /\ link' = link \o a
         /\ inq' = (Last(a).t = "inquire")
         /\ hash' = IF Head(wire).t = "hash" /\ Last(a).t = "ok" THEN Head(wire).n ELSE hash
  BY DEF Answer
<1>2. CASE st \in States
  <2>1. BusyInv /\ wire = <<out>> /\ link = <<>> /\ ~ done /\ w = "ready" /\ Sent(st, out)
    BY <1>0, <1>2 DEF Inv, BusyInv, InStep
  <2>2. Head(wire) = out /\ wire' = <<>> /\ ~ Answered
    BY <1>0, <2>1 DEF Answered
  <2>3. (st = "pksign" => hash = num) /\ (st = "inquire" => inq)
    BY <1>0, <1>2, <2>1, <2>2 DEF BusyInv, ServerKnows
  <2>4. /\ a \in Seq(Lines) /\ Own(a)
        /\ st = "hash" => Last(a).t = "ok" \/ a = <<Line("err")>>
        /\ st = "pkdecrypt" => Last(a).t = "inquire" \/ a = <<Line("err")>>
    BY <1>0, <1>1, <1>2, <2>1, <2>2, <2>3, AnswerOwn DEF States, Ended
  <2>5. link' = a
    BY <1>1, <2>1, <2>4
  <2>6. /\ st = "hash" => out.t = "hash" /\ out.n = num
        /\ out.t = "hash" => st = "hash"
    BY <2>1 DEF Sent, Command
  <2>7. hash' \in Nat /\ (st # "hash" => hash' = hash)
        /\ (st = "hash" => hash' = num \/ a = <<Line("err")>>)
    BY <1>0, <1>1, <1>2, <2>2, <2>4, <2>6 DEF TypeInv, Ended, States
  <2>8. ServerKnows'
    BY <1>0, <1>1, <2>1, <2>2, <2>3, <2>4, <2>5, <2>7 DEF ServerKnows, Answered
  <2>9. InStep'
    BY <1>0, <2>1, <2>2 DEF InStep
  <2>10. Own(link)' /\ Sent(st, out)'
    BY <1>0, <2>1, <2>4, <2>5 DEF Own, OwnLine, Sent
  <2>11. BusyInv'
    BY <1>0, <2>1, <2>8, <2>9, <2>10 DEF BusyInv
  <2>12. TypeInv'
    BY <1>0, <2>4, <2>5, <2>7 DEF TypeInv, Ended
  <2> QED
    BY <1>0, <1>2, <2>11, <2>12 DEF Inv, ResultsInv, GreetInv, IdleInv, States
<1>3. CASE st \in {"greet", "idle"}
  BY <1>0, <1>3 DEF Inv, GreetInv, IdleInv
<1>4. CASE st \notin States \cup {"greet", "idle"}
  BY <1>0, <1>4 DEF Inv, TypeInv, Ended, ResultsInv, GreetInv, IdleInv, BusyInv
<1> QED
  BY <1>2, <1>3, <1>4

LEMMA GreetInvStep == ASSUME Inv, Greet PROVE Inv'
<1>0. /\ TypeInv /\ ResultsInv /\ GreetInv /\ st = "greet" /\ ~ done
      /\ UNCHANGED <<st, num, w, wire, data, results, hash, done, last>>
  BY DEF Inv, Greet, client, request
<1>1. PICK t \in {"ok", "err", "status", "inquire"} : link' = <<Line(t)>>
  BY DEF Greet
<1>2. link' \in Seq(Lines) /\ Own(link')
  BY <1>1, ShortAnswers DEF Texts
<1>3. Own(link)'
  BY <1>0, <1>2 DEF Own, OwnLine
<1> QED
  BY <1>0, <1>2, <1>3 DEF Inv, TypeInv, Ended, ResultsInv, GreetInv, IdleInv, BusyInv, States

\* What the server has written before it goes away arrives.
LEMMA CloseInv == ASSUME Inv, Close PROVE Inv'
<1>0. /\ wire' = <<>> /\ ~ open'
      /\ UNCHANGED <<w, out, done, st, kind, num, data, results, link, hash, inq, last>>
  BY DEF Close, client, request
<1>1. TypeInv' /\ ResultsInv' /\ IdleInv'
  BY <1>0 DEF Inv, TypeInv, Ended, ResultsInv, IdleInv
<1>2. (Own(link)' <=> Own(link)) /\ (Sent(st, out)' <=> Sent(st, out))
  BY <1>0 DEF Own, OwnLine, Sent
<1>3. GreetInv'
  BY <1>0, <1>2 DEF Inv, GreetInv
<1>4. BusyInv'
  BY <1>0, <1>2 DEF Inv, BusyInv, InStep
<1> QED
  BY <1>1, <1>3, <1>4 DEF Inv

LEMMA StutterInv == ASSUME Inv, UNCHANGED vars PROVE Inv'
BY DEF Inv, TypeInv, ResultsInv, GreetInv, IdleInv, BusyInv, InStep, ServerKnows, Answered,
       Own, OwnLine, Sent, vars, client, request, server
-----------------------------------------------------------------------------
LEMMA NextInv == ASSUME Inv, reused' = 0, [Next]_vars PROVE Inv'
<1>1. CASE Greeting \/ GreetPending \/ Greeted
  BY <1>1, GreetSteps
<1>2. CASE Begin
  BY <1>2, BeginInv
<1>3. CASE Written
  BY <1>3, WrittenInv
<1>4. CASE WriteError \/ Fail \/ Cancel
  BY <1>4, FailInv
<1>5. CASE Ignore
  <2>1. /\ st \in States /\ HasLine /\ TakeLine /\ Head(link).t # "err"
        /\ UNCHANGED <<st, kind, num, opts, results>> /\ data' = data
    BY <1>5 DEF Ignore, Ignores, Response, request
  <2> QED
    BY <2>1, TakeInv
<1>6. CASE Collect
  <2>1. /\ st \in States /\ HasLine /\ TakeLine /\ Head(link).t # "err"
        /\ UNCHANGED <<st, kind, num, opts, results>>
        /\ data' = Append(data, Head(link))
        /\ st \in {"pksign", "inquire"} /\ Head(link).t = "data"
    BY <1>6 DEF Collect, Response, States
  <2> QED
    BY <2>1, TakeInv
<1>7. CASE Proceed
  BY <1>7, ProceedInv
<1>8. CASE Conclude
  BY <1>8, ConcludeInv
<1>9. CASE Answer
  BY <1>9, AnswerInv
<1>10. CASE Greet
  BY <1>10, GreetInvStep
<1>11. CASE Close
  BY <1>11, CloseInv
<1>12. CASE Over \/ UNCHANGED vars
  BY <1>12, StutterInv DEF Over
<1> QED
  BY <1>1, <1>2, <1>3, <1>4, <1>5, <1>6, <1>7, <1>8, <1>9, <1>10, <1>11, <1>12
     DEF Next, ClientNext, ServerNext

\* That a caller has gone on with an Agent is not forgotten.
LEMMA ReusedStep ==
    ASSUME reused \in {0, 1}, w \in {"ready", "sending", "dead"}, [Next]_vars
    PROVE  /\ w' \in {"ready", "sending", "dead"}
           /\ reused' \in {0, 1} /\ (reused' = 0 => reused = 0)
<1> DEFINE Goal == w' \in {"ready", "sending", "dead"} /\ reused' \in {reused, 1}
<1>1. SUFFICES Goal
  OBVIOUS
<1>2. \A v : Return(v) => reused' \in {reused, 1}
  BY DEF Return, AfterError
<1>3. ASSUME NEW c, NEW s, SendCommand(c, s) PROVE Goal
  <2>1. CASE w = "ready"
    BY <1>3, <2>1 DEF SendCommand
  <2>2. CASE w = "sending"
    BY <1>3, <2>2 DEF SendCommand, AfterError
  <2>3. CASE w = "dead"
    BY <1>3, <2>3 DEF SendCommand
  <2> QED
    BY <2>1, <2>2, <2>3
<1>4. CASE WriteError \/ Fail \/ Cancel \/ Conclude
  BY <1>2, <1>4 DEF WriteError, Fail, Cancel, Conclude, TakeLine, TakeEnd, client
<1>5. CASE Begin
  BY <1>3, <1>5 DEF Begin, SendOption
<1>6. CASE Proceed
  <2>1. \/ SendOption(opts)
        \/ SendCommand(Command("hash", num), "hash") \/ SendCommand(Command("pkdecrypt", 0), "pkdecrypt")
        \/ SendCommand(Command("pksign", 0), "pksign") \/ SendCommand(Command("data", num), "inquire")
    BY <1>6 DEF Proceed
  <2> QED
    BY <1>3, <2>1 DEF SendOption
<1>7. CASE Greeting \/ GreetPending \/ Greeted \/ Written \/ Ignore \/ Collect
  BY <1>7 DEF Greeting, GreetPending, Greeted, Written, Ignore, Collect, TakeLine, TakeEnd,
              client, request
<1>8. CASE Answer \/ Greet \/ Close \/ Over \/ UNCHANGED vars
  BY <1>8 DEF Answer, Greet, Close, Over, client, request, vars
<1> QED
  BY <1>4, <1>5, <1>6, <1>7, <1>8 DEF Next, ClientNext, ServerNext

(***************************************************************************)
(* Whatever Agent::sign and Agent::decrypt return was made for the digest  *)
(* or the ciphertext they were given, and a connection that is used again  *)
(* is in step, until a caller goes on with an Agent after an error, which  *)
(* KeyPair never does: it connects an Agent for every request.             *)
(* Client::poll_next matches responses by counting only.                   *)
(***************************************************************************)
THEOREM OwnAnswerHolds == Spec => []OwnAnswer
<1> DEFINE I == /\ reused \in {0, 1} /\ w \in {"ready", "sending", "dead"}
                /\ reused = 0 => Inv
<1>1. Init => I
  BY InitInv DEF Init
<1>2. I /\ [Next]_vars => I'
  BY NextInv, ReusedStep
<1>3. I => OwnAnswer
  BY DEF Inv, ResultsInv, IdleInv, OwnAnswer
<1> HIDE DEF I
<1> QED
  BY <1>1, <1>2, <1>3, PTL DEF Spec
=============================================================================
