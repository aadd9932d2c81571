------------------------- MODULE VerifyBufferProofs -------------------------
(***************************************************************************)
(* Proofs about VerifyBuffer for every buffer size, body length, read size *)
(* and every amount of buffering in the readers below.                     *)
(***************************************************************************)
EXTENDS VerifyBuffer, TLAPS

Withheld == delivered = 0 \/ delivered + BufferSize <= len

\* Once something has been handed out from the parser's buffer, BufferSize
\* bytes are buffered behind the cursor.
Kept == store = "oppr" => \/ cursor = 0 /\ consumed = 0
                          \/ cursor + BufferSize <= have

\* Inductive for every caller.  Kept is what InOrder and HeldBack lack: it
\* bounds the cursor when the buffer is consumed and when it is stashed.
Inv == /\ TypeOK
       /\ InOrder
       /\ Kept
       /\ caller = "building" => store = "oppr" /\ cursor = 0 /\ consumed = 0
       /\ caller = "reading" /\ store = "oppr" => delivered < len
       /\ store = "neither" => Withheld
       /\ caller = "eof" => store = "reserve" /\ cursor = reserve
       /\ verdict # "none" => store = "reserve"

LEMMA InitInv == Init => Inv
BY BufferAssumption DEF Init, Inv, Withheld, TypeOK, InOrder, Kept, Left

LEMMA BuildInv == Inv /\ (BuildEarly \/ BuildLate \/ BuildError) => Inv'
<1> SUFFICES ASSUME Inv, BuildEarly \/ BuildLate \/ BuildError PROVE Inv'
  OBVIOUS
<1>1. CASE BuildEarly
  BY <1>1, BufferAssumption DEF Inv, Withheld, TypeOK, InOrder, Kept, Left, BuildEarly, Stash
<1>2. CASE BuildLate
  BY <1>2, BufferAssumption DEF Inv, Withheld, TypeOK, InOrder, Kept, Left, BuildLate, Filled, Least
<1>3. CASE BuildError
  BY <1>3, BufferAssumption DEF Inv, Withheld, TypeOK, InOrder, Kept, Left, BuildError
<1> QED
  BY <1>1, <1>2, <1>3

LEMMA DrainInv == ASSUME NEW b \in 1..MaxRead, Inv, Drain(b), largest' \in 0..MaxRead PROVE Inv'
BY BufferAssumption DEF Inv, Withheld, TypeOK, InOrder, Kept, Left, Drain, Least

LEMMA SkipFacts ==
    ASSUME Inv, store = "oppr"
    PROVE  /\ Skip \in Nat /\ Skip <= cursor /\ Skip <= have /\ Skip <= Left
           /\ Skip = 0 \/ Skip = BufferSize
BY BufferAssumption DEF Inv, TypeOK, InOrder, Left, Skip

LEMMA HandOutInv == ASSUME NEW b \in 1..MaxRead, Inv, HandOut(b), largest' \in 0..MaxRead PROVE Inv'
<1>1. PICK h \in 0..len :
          LET c == cursor - Skip
              n == Least(b, h - BufferSize - c)
          IN  /\ Filled(have - Skip, Left - Skip, 2 * BufferSize, h)
              /\ h - c > BufferSize /\ ~Trips(c, h)
              /\ consumed' = consumed + Skip
              /\ have' = h
              /\ cursor' = c + n
              /\ delivered' = delivered + n
  BY DEF HandOut
<1> DEFINE c == cursor - Skip
           n == Least(b, h - BufferSize - c)
<1>2. h <= Left - Skip
  BY <1>1, SkipFacts, BufferAssumption DEF HandOut, Filled, Least, Inv, InOrder, TypeOK, Left
<1>3. n \in Nat /\ n > 0 /\ n <= h - BufferSize - c
  BY <1>1, SkipFacts, BufferAssumption DEF HandOut, Least, Inv, TypeOK
<1>4. /\ consumed' = consumed + Skip /\ have' = h
      /\ cursor' = c + n /\ delivered' = delivered + n
      /\ UNCHANGED <<len, store, reserve, verdict, caller>>
      /\ store = "oppr" /\ caller = "reading"
  BY <1>1 DEF HandOut
<1> HIDE DEF n
<1> QED
  BY <1>2, <1>3, <1>4, SkipFacts, BufferAssumption DEF Inv, Withheld, TypeOK, InOrder, Kept, Left

LEMMA FinishInv ==
    ASSUME NEW b \in 1..MaxRead, NEW v \in {"none", "good", "bad"}, Inv, Finish(b, v),
           largest' \in 0..MaxRead
    PROVE  Inv'
<1>1. store = "oppr" /\ cursor <= have /\ have <= Left /\ delivered = consumed + cursor
  BY DEF Inv, InOrder, Finish
<1>2. reserve' = len - delivered
  BY <1>1 DEF Finish, Stash, Left, Inv, TypeOK
<1>3. cursor' \in Nat /\ cursor' <= reserve' /\ delivered' = delivered + cursor'
  BY <1>1, <1>2 DEF Finish, Stash, Least, Left, Inv, TypeOK
<1>4. caller' = "eof" => cursor' = reserve'
  BY <1>1, <1>2, BufferAssumption DEF Finish, Stash, Least, Left, Inv, TypeOK, AfterError
<1>5. caller' \in {"reading", "eof", "gone"}
  BY DEF Finish, AfterError
<1> QED
  BY <1>1, <1>2, <1>3, <1>4, <1>5 DEF Inv, Withheld, TypeOK, InOrder, Kept, Left, Finish, Stash

\* An error loses the parser result and with it what was held back.
LEMMA ErrorInv ==
    ASSUME Inv, ReadError \/ HandOutPanics \/ NoPpr, largest' \in 0..MaxRead
    PROVE  Inv'
BY BufferAssumption DEF Inv, Withheld, TypeOK, InOrder, Kept, Left, ReadError, HandOutPanics, NoPpr, AfterError

LEMMA NextInv == Inv /\ [Next]_vars => Inv'
<1> SUFFICES ASSUME Inv, [Next]_vars PROVE Inv'
  OBVIOUS
<1>1. CASE BuildEarly \/ BuildLate \/ BuildError
  BY <1>1, BuildInv
<1>2. ASSUME NEW b \in 1..MaxRead, Read(b)
      PROVE  Inv'
  <2>1. largest' \in 0..MaxRead
    BY <1>2, BufferAssumption DEF Read, Inv, TypeOK
  <2> QED
    BY <1>2, <2>1, DrainInv, HandOutInv, FinishInv, ErrorInv DEF Read
<1>3. CASE UNCHANGED vars
  BY <1>3 DEF vars, Inv, Withheld, TypeOK, InOrder, Kept, Left
<1> QED
  BY <1>1, <1>2, <1>3 DEF Next, Returned

\* Every read continues where the last one stopped, for every caller.
THEOREM InOrderHolds == Spec => [](TypeOK /\ InOrder)
<1>1. Inv => TypeOK /\ InOrder
  BY DEF Inv
<1> QED
  BY <1>1, InitInv, NextInv, PTL DEF Spec

\* Ok(0) means that everything has been handed out, for every caller.
THEOREM EofIsAllHolds == Spec => []EofIsAll
<1>1. Inv => EofIsAll
  BY DEF Inv, TypeOK, InOrder, EofIsAll
<1> QED
  BY <1>1, InitInv, NextInv, PTL DEF Spec
-----------------------------------------------------------------------------
(***************************************************************************)
(* Callers that stop at the first error.                                   *)
(***************************************************************************)
\* A message that was stashed and not found good has been given up.
Strict == store = "reserve" /\ verdict # "good" => caller = "gone" /\ Withheld

LEMMA StrictInit == Init => Strict
BY DEF Init, Strict

LEMMA StrictNext ==
    ASSUME KeepReading = FALSE, Inv, Strict, [Next]_vars
    PROVE  Strict'
<1>1. CASE BuildEarly
  BY <1>1 DEF BuildEarly, Stash, Strict, Withheld, Inv, TypeOK, InOrder
<1>2. CASE BuildLate \/ BuildError
  BY <1>2 DEF BuildLate, BuildError, Strict, Inv
<1>3. ASSUME NEW b \in 1..MaxRead, Drain(b)
      PROVE  Strict'
  BY <1>3 DEF Drain, Strict, Inv
<1>4. ASSUME NEW b \in 1..MaxRead, HandOut(b)
      PROVE  Strict'
  BY <1>4 DEF HandOut, Strict
<1>5. ASSUME NEW b \in 1..MaxRead, NEW v \in {"none", "good", "bad"}, Finish(b, v)
      PROVE  Strict'
  <2>1. CASE v = "good"
    BY <1>5, <2>1 DEF Finish, Stash, Strict
  <2>2. CASE v # "good"
    <3>1. caller' = "gone" /\ delivered' = delivered /\ len' = len /\ store = "oppr"
      BY <1>5, <2>2 DEF Finish, AfterError, Inv, TypeOK
    <3>2. Withheld
      BY <3>1, BufferAssumption DEF Withheld, Inv, TypeOK, InOrder, Kept, Left
    <3> QED
      BY <3>1, <3>2 DEF Strict, Withheld
  <2> QED
    BY <2>1, <2>2
<1>6. CASE HandOutPanics \/ ReadError \/ NoPpr
  BY <1>6 DEF HandOutPanics, ReadError, NoPpr, Strict
<1>7. CASE UNCHANGED vars
  BY <1>7 DEF vars, Strict, Withheld
<1> QED
  BY <1>1, <1>2, <1>3, <1>4, <1>5, <1>6, <1>7 DEF Next, Read, Returned

LEMMA StrictHeldBack == Inv /\ Strict => HeldBack /\ EofIsVerified
<1> SUFFICES ASSUME Inv, Strict PROVE HeldBack /\ EofIsVerified
  OBVIOUS
<1>1. HeldBack
  BY BufferAssumption DEF HeldBack, Strict, Withheld, Inv, TypeOK, InOrder, Kept, Left
<1>2. EofIsVerified
  BY DEF EofIsVerified, Strict, Inv, TypeOK, InOrder
<1> QED
  BY <1>1, <1>2

\* A caller that stops at the first error never has the last BufferSize bytes
\* of a message that was not verified.
THEOREM HeldBackHolds ==
    ASSUME KeepReading = FALSE
    PROVE  Spec => []HeldBack
<1>1. Inv /\ Strict /\ [Next]_vars => Strict'
  BY StrictNext
<1> QED
  BY <1>1, StrictInit, StrictHeldBack, InitInv, NextInv, PTL DEF Spec

\* For that caller Ok(0) means a verified message, handed out completely.
THEOREM EofIsVerifiedHolds ==
    ASSUME KeepReading = FALSE
    PROVE  Spec => []EofIsVerified
<1>1. Inv /\ Strict /\ [Next]_vars => Strict'
  BY StrictNext
<1> QED
  BY <1>1, StrictInit, StrictHeldBack, InitInv, NextInv, PTL DEF Spec
-----------------------------------------------------------------------------
(***************************************************************************)
(* Reads up to the size of the buffer.                                     *)
(***************************************************************************)
\* Until there is a larger read, the cursor never gets so far that
\* 2 * buffer_size - cursor wraps.
Near == largest <= BufferSize => /\ store = "oppr" => cursor < 2 * BufferSize
                                 /\ caller # "overflow"

LEMMA NearInit == Init => Near
BY BufferAssumption DEF Init, Near

LEMMA NearNext ==
    ASSUME Inv, Near, [Next]_vars
    PROVE  Near'
<1>1. CASE BuildEarly \/ BuildLate \/ BuildError
  BY <1>1, BufferAssumption DEF BuildEarly, BuildLate, BuildError, Stash, Near, Inv
<1>2. ASSUME NEW b \in 1..MaxRead, Read(b)
      PROVE  Near'
  <2>1. SUFFICES ASSUME largest' <= BufferSize PROVE (store' = "oppr" => cursor' < 2 * BufferSize) /\ caller' # "overflow"
    BY DEF Near
  <2>2. b <= BufferSize /\ largest <= BufferSize
    BY <1>2, <2>1, BufferAssumption DEF Read, Inv, TypeOK
  <2>3. (store = "oppr" => cursor < 2 * BufferSize) /\ caller # "overflow"
    BY <2>2 DEF Near
  <2>4. CASE Drain(b)
    BY <2>3, <2>4 DEF Drain
  <2>5. CASE HandOut(b)
    <3>1. cursor' <= cursor - Skip + b /\ cursor' \in Nat
      <4>1. PICK h \in 0..len : /\ h - (cursor - Skip) > BufferSize
                               /\ cursor' = (cursor - Skip) + Least(b, h - BufferSize - (cursor - Skip))
        BY <2>5 DEF HandOut
      <4> QED
        BY <2>5, <4>1, SkipFacts, BufferAssumption DEF HandOut, Least, Inv, TypeOK
    <3>2. cursor - Skip < BufferSize
      BY <2>3, <2>5, BufferAssumption DEF HandOut, Skip, Inv, TypeOK
    <3> QED
      BY <2>2, <2>3, <2>5, <3>1, <3>2, SkipFacts, BufferAssumption DEF HandOut, Inv, TypeOK
  <2>6. CASE \E v \in {"none", "good", "bad"} : Finish(b, v)
    BY <2>3, <2>6 DEF Finish, Stash, AfterError
  <2>7. CASE HandOutPanics
    <3>1. cursor - Skip < BufferSize
      BY <2>3, <2>7, BufferAssumption DEF HandOutPanics, Skip, Inv, TypeOK
    <3> QED
      BY <2>7, <3>1, SkipFacts, BufferAssumption DEF HandOutPanics, Wraps, Inv, TypeOK
  <2>8. CASE ReadError \/ NoPpr
    BY <2>3, <2>8 DEF ReadError, NoPpr, AfterError
  <2> QED
    BY <1>2, <2>4, <2>5, <2>6, <2>7, <2>8 DEF Read
<1>3. CASE UNCHANGED vars
  BY <1>3 DEF vars, Near
<1> QED
  BY <1>1, <1>2, <1>3 DEF Next, Returned

\* Whatever the sizes of the buffer, the body and the reads, and also after errors:
\* the amount that read_helper asks for wraps, or its assertion fails, only behind a
\* read that is larger than the buffer.
THEOREM SmallReadsAreSafeHolds == Spec => []SmallReadsAreSafe
<1>1. Inv /\ Near /\ [Next]_vars => Near'
  BY NearNext
<1>2. Inv /\ Near => SmallReadsAreSafe
  BY BufferAssumption DEF Near, SmallReadsAreSafe, Inv, TypeOK
<1> QED
  BY <1>1, <1>2, NearInit, InitInv, NextInv, PTL DEF Spec
-----------------------------------------------------------------------------
(***************************************************************************)
(* The buffer implements HoldBack, for callers that stop at the first      *)
(* error.                                                                  *)
(***************************************************************************)
LEMMA HandOutGain ==
    ASSUME NEW b \in 1..MaxRead, Inv, HandOut(b)
    PROVE  delivered' \in Nat /\ delivered' > delivered /\ delivered' + BufferSize <= len
<1>1. PICK h \in 0..len :
            /\ Filled(have - Skip, Left - Skip, 2 * BufferSize, h)
            /\ h - (cursor - Skip) > BufferSize
            /\ delivered' = delivered + Least(b, h - BufferSize - (cursor - Skip))
  BY DEF HandOut
<1>2. store = "oppr"
  BY DEF HandOut
<1>3. h <= Left - Skip
  BY <1>1, <1>2, SkipFacts, BufferAssumption DEF Filled, Least, Inv, InOrder, TypeOK, Left
<1> DEFINE n == Least(b, h - BufferSize - (cursor - Skip))
<1>4. n \in Nat /\ n > 0 /\ n <= h - BufferSize - (cursor - Skip)
  BY <1>1, <1>2, SkipFacts, BufferAssumption DEF Least, Inv, TypeOK
<1>5. delivered' = delivered + n
  BY <1>1
<1> HIDE DEF n
<1> QED
  BY <1>2, <1>3, <1>4, <1>5, SkipFacts, BufferAssumption DEF Inv, TypeOK, InOrder, Left

LEMMA RefineInit == Init => HB!HBInit
BY BufferAssumption DEF Init, HB!HBInit, Status

\* Every step is a step of HoldBack or leaves its variables alone.
LEMMA RefineNext ==
    ASSUME KeepReading = FALSE, Inv, Strict, [Next]_vars
    PROVE  [HB!HBNext]_HB!hbVars
<1>1. CASE BuildEarly
  <2>1. /\ caller = "building" /\ verdict = "none"
        /\ len' = len /\ delivered' = delivered /\ delivered \in 0..len
    BY <1>1 DEF BuildEarly, Inv, TypeOK
  <2>2. Status = "streaming"
    BY <2>1 DEF Status
  <2>3. CASE verdict' = "good" /\ caller' = "reading"
    <3>1. Status' = "verified"
      BY <2>3 DEF Status
    <3>2. HB!Accept
      BY <2>1, <2>2, <3>1 DEF HB!Accept
    <3> QED
      BY <3>2 DEF HB!HBNext
  <2>4. CASE verdict' # "good" /\ caller' = "gone"
    <3>1. Status' = "rejected"
      BY <2>4 DEF Status
    <3>2. HB!Reject
      BY <2>1, <2>2, <3>1 DEF HB!Reject
    <3> QED
      BY <3>2 DEF HB!HBNext
  <2> QED
    BY <1>1, <2>3, <2>4 DEF BuildEarly, Stash
<1>2. CASE BuildLate
  <2>1. Status' = Status /\ len' = len /\ delivered' = delivered
    BY <1>2 DEF BuildLate, Status
  <2> QED
    BY <2>1 DEF HB!hbVars
<1>3. CASE BuildError
  <2>1. Status = "streaming" /\ Status' = "rejected"
    BY <1>3 DEF BuildError, Status, Inv
  <2>2. HB!Reject
    BY <1>3, <2>1 DEF BuildError, HB!Reject
  <2> QED
    BY <2>2 DEF HB!HBNext
<1>4. ASSUME NEW b \in 1..MaxRead, Drain(b)
      PROVE  [HB!HBNext]_HB!hbVars
  <2>1. verdict = "good" /\ verdict' = "good" /\ Status = "verified" /\ len' = len
    BY <1>4 DEF Drain, Strict, Status
  <2>2. /\ delivered \in 0..len /\ delivered = len - reserve + cursor
        /\ cursor \in 0..len /\ reserve \in 0..len /\ cursor <= reserve /\ len \in Nat
    BY <1>4, BufferAssumption DEF Drain, Inv, TypeOK, InOrder
  <2>3. CASE cursor = reserve
    <3>1. /\ Least(b, reserve - cursor) = 0
      BY <2>2, <2>3, BufferAssumption DEF Least
    <3>2. caller' = "eof" /\ delivered' = delivered /\ delivered = len
      BY <1>4, <2>2, <2>3, <3>1 DEF Drain
    <3>3. Status' = "ended"
      BY <3>2 DEF Status
    <3>4. HB!End
      BY <2>1, <3>2, <3>3 DEF HB!End
    <3> QED
      BY <3>4 DEF HB!HBNext
  <2>4. CASE cursor < reserve
    <3>1. /\ Least(b, reserve - cursor) \in 1..(reserve - cursor)
      BY <2>2, <2>4, BufferAssumption DEF Least
    <3>2. caller' = "reading" /\ delivered' \in delivered..len
      BY <1>4, <2>2, <2>4, <3>1 DEF Drain
    <3>3. Status' = "verified"
      BY <2>1, <3>2 DEF Status
    <3>4. HB!Deliver
      BY <2>1, <3>2, <3>3 DEF HB!Deliver
    <3> QED
      BY <3>4 DEF HB!HBNext
  <2> QED
    BY <2>2, <2>3, <2>4
<1>5. ASSUME NEW b \in 1..MaxRead, HandOut(b)
      PROVE  [HB!HBNext]_HB!hbVars
  <2>1. /\ caller = "reading" /\ caller' = "reading" /\ store = "oppr" /\ store' = "oppr"
        /\ len' = len /\ verdict = "none" /\ verdict' = "none"
    BY <1>5 DEF HandOut, Inv, TypeOK
  <2>2. Status = "streaming" /\ Status' = "streaming"
    BY <2>1 DEF Status
  <2>3. delivered' \in Nat /\ delivered' > delivered /\ delivered' + BufferSize <= len
    BY <1>5, HandOutGain
  <2>4. HB!Stream
    BY <2>1, <2>2, <2>3 DEF HB!Stream
  <2> QED
    BY <2>4 DEF HB!HBNext
<1>6. ASSUME NEW b \in 1..MaxRead, NEW v \in {"none", "good", "bad"}, Finish(b, v)
      PROVE  [HB!HBNext]_HB!hbVars
  <2>1. /\ caller = "reading" /\ store = "oppr" /\ verdict = "none" /\ verdict' = v
        /\ len' = len /\ delivered \in Nat /\ len \in Nat
        /\ delivered = consumed + cursor /\ cursor <= have /\ have <= len - consumed
        /\ cursor \in Nat /\ have \in Nat /\ consumed \in Nat
    BY <1>6, BufferAssumption DEF Finish, Stash, Inv, TypeOK, InOrder, Left
  <2>2. Status = "streaming"
    BY <2>1 DEF Status
  <2>3. CASE v # "good"
    <3>1. Status' = "rejected" /\ delivered' = delivered
      BY <1>6, <2>1, <2>3 DEF Finish, AfterError, Status
    <3>2. HB!Reject
      BY <2>1, <2>2, <3>1 DEF HB!Reject
    <3> QED
      BY <3>2 DEF HB!HBNext
  <2>4. CASE v = "good" /\ len > delivered
    <3>1. Least(b, Left - cursor) \in 1..(len - delivered)
      BY <2>1, <2>4, BufferAssumption DEF Least, Left
    <3>2. caller' = "reading" /\ delivered' \in delivered..len
      BY <1>6, <2>1, <2>4, <3>1 DEF Finish
    <3>3. Status' = "verified"
      BY <2>1, <2>4, <3>2 DEF Status
    <3>4. HB!Accept
      BY <2>1, <2>2, <3>2, <3>3 DEF HB!Accept
    <3> QED
      BY <3>4 DEF HB!HBNext
  <2>5. len > delivered
    BY <2>1 DEF Inv
  <2> QED
    BY <2>3, <2>4, <2>5
<1>7. CASE HandOutPanics \/ ReadError \/ NoPpr
  <2>1. /\ caller = "reading" /\ verdict = "none" /\ verdict' = "none"
        /\ caller' \in {"gone", "panicked", "overflow"} /\ len' = len /\ delivered' = delivered
    BY <1>7 DEF HandOutPanics, ReadError, NoPpr, AfterError, Inv, TypeOK
  <2>2. Status = "streaming" /\ Status' = "rejected"
    BY <2>1 DEF Status
  <2>3. HB!Reject
    BY <2>1, <2>2 DEF HB!Reject
  <2> QED
    BY <2>3 DEF HB!HBNext
<1>8. CASE UNCHANGED vars
  BY <1>8 DEF vars, HB!hbVars, Status
<1> QED
  BY <1>1, <1>2, <1>3, <1>4, <1>5, <1>6, <1>7, <1>8 DEF Next, Read, Returned

\* For a caller that stops at the first error the buffer keeps the promise of
\* HoldBack.
THEOREM ImplementsHolds ==
    ASSUME KeepReading = FALSE
    PROVE  Spec => Implements
<1>1. Inv /\ Strict /\ [Next]_vars => Strict'
  BY StrictNext
<1>2. Inv /\ Strict /\ [Next]_vars => [HB!HBNext]_HB!hbVars
  BY RefineNext
<1> QED
  BY <1>1, <1>2, StrictInit, RefineInit, InitInv, NextInv, PTL
     DEF Spec, Implements, HB!HBSpec
=============================================================================
