---------------------- MODULE ModbusTransaction_proofs ----------------------
(***************************************************************************)
(* Proofs about ModbusTransaction, for any timeout, any sizes of messages  *)
(* and pieces, and any behaviour of the device and the network: what a     *)
(* call returns as an answer is one, in time; it waits no longer than it   *)
(* may, and leaves no descriptor open.                                     *)
(***************************************************************************)
EXTENDS ModbusTransaction, TLAPS

LEMMA Sizes ==
  /\ Timeout \in Nat /\ Timeout > 0 /\ RequestSize \in Nat /\ HeaderSize \in Nat
  /\ MaxBody \in Nat
BY SizesAssumption

\* A frame and a result are what their fields say.
LEMMA FrameFields ==
  ASSUME TypeOK
  PROVE  /\ frame.header \in Headers /\ frame.body \in Bodies
         /\ frame.size \in Nat /\ Whole \in Nat
         /\ result.error \in Errors /\ result.exception \in BOOLEAN
<1>1. frame.size \in 1..MaxBody /\ frame.header \in Headers /\ frame.body \in Bodies
  BY DEF TypeOK, Frames
<1>2. Whole \in Nat
  BY <1>1, Sizes DEF Whole
<1>3. result.error \in Errors /\ result.exception \in BOOLEAN
  BY DEF TypeOK
<1> QED BY <1>1, <1>2, <1>3, Sizes

\* While a call is under way there is no exception code, not even an old one.
LEMMA UnderWay ==
  ASSUME Inv, pc \notin {"idle", "done"}
  PROVE  ~result.exception
BY DEF Inv, ExceptionIsOfThisCall

-----------------------------------------------------------------------------
\* A call that fails reports that, has no exception code and keeps its
\* descriptor for the end of the call.
LEMMA FailInv ==
  ASSUME Inv, pc \notin {"idle", "setup", "done"}, UNCHANGED now,
         NEW error \in Errors \ {"ok", "exception"}, Fail(error)
  PROVE  Inv'
<1>1. /\ pc' = "done" /\ wait' = "no"
      /\ UNCHANGED <<now, until, position, sockets, received_at, link, frame, arrived>>
  BY DEF Fail, peer
<1>2. result' \in [error : Errors, exception : BOOLEAN] /\ result'.error = error
      /\ (result'.exception <=> result.exception)
  BY DEF Fail, Inv, TypeOK
<1>3. ~result'.exception
  BY <1>2, UnderWay
<1>4. TypeOK'
  BY <1>1, <1>2 DEF Inv, TypeOK
<1>5. WaitOK' /\ SocketOK' /\ ReceivedOK'
  BY <1>1 DEF Inv, WaitOK, SocketOK, ReceivedOK, Whole
<1>6. AnsweredInTime'
  BY <1>2 DEF AnsweredInTime
<1> QED BY <1>3, <1>4, <1>5, <1>6 DEF Inv, ExceptionIsOfThisCall

\* A step that changes only how far the call has come.
LEMMA ProgressInv ==
  ASSUME Inv, pc \notin {"idle", "done"}, UNCHANGED <<now, result, received_at, frame, arrived>>,
         pc' \in {"connect"} \cup Writing \cup Reading,
         wait' \in {"no", "select", "woken"}, wait' # "no" => pc' \in Writing \cup Reading,
         wait' = "select" => until' = Timeout /\ now <= Timeout,
         until' \in Nat, position' \in Nat, sockets' = 1,
         link' \in {"none", "connecting", "open", "refused", "closed", "reset"},
         pc' = "header" => position' <= arrived,
         pc' = "body" => check_header /\ HeaderSize + position' <= arrived
  PROVE  Inv'
<1>1. TypeOK'
  BY DEF Inv, TypeOK, Writing, Reading
<1>2. WaitOK' /\ SocketOK'
  BY DEF WaitOK, SocketOK, Writing, Reading
<1>3. ReceivedOK'
  BY DEF Inv, ReceivedOK, Whole, check_header
<1>4. AnsweredInTime' /\ ExceptionIsOfThisCall'
  BY UnderWay DEF AnsweredInTime, ExceptionIsOfThisCall, Writing, Reading
<1> QED BY <1>1, <1>2, <1>3, <1>4 DEF Inv

\* What holds before every step that is taken inside of a call.
LEMMA Before ==
  ASSUME Inv
  PROVE  /\ now \in Nat /\ until \in Nat /\ position \in Nat /\ arrived \in Nat
         /\ received_at \in Nat /\ sockets \in Nat
         /\ frame.size \in Nat /\ arrived <= Whole /\ Whole = HeaderSize + frame.size
         /\ pc \notin {"idle", "setup", "done"} => sockets = 1
         /\ wait # "no" => pc \in Writing \cup Reading
         /\ link \in {"none", "connecting", "open", "refused", "closed", "reset"}
         /\ pc = "header" => position <= arrived
         /\ pc = "body" => check_header /\ HeaderSize + position <= arrived
BY FrameFields DEF Inv, TypeOK, WaitOK, SocketOK, ReceivedOK, Whole

\* Connecting (modbus_tcp.c:299-356).
LEMMA ConnectingInv ==
  ASSUME Inv, SetupFails \/ Setup \/ Connect \/ Connected
  PROVE  Inv'
<1> USE Before DEF Writing, Reading
<1>1. CASE SetupFails
  <2>1. PICK error \in {"argument", "connect", "io"} :
          /\ result' = [result EXCEPT !.error = error]
          /\ sockets' = IF error = "io" THEN sockets + 1 ELSE sockets
    BY <1>1 DEF SetupFails
  <2>2. /\ result' \in [error : Errors, exception : BOOLEAN] /\ result'.error = error
        /\ (result'.exception <=> result.exception)
    BY <2>1 DEF Inv, TypeOK, Errors
  <2>3. ~result'.exception
    BY <1>1, <2>2, UnderWay DEF SetupFails
  <2>4. /\ pc = "setup" /\ pc' = "done"
        /\ UNCHANGED <<now, wait, until, position, received_at, link, frame, arrived>>
    BY <1>1 DEF SetupFails, peer
  <2>5. sockets = 0 /\ sockets' \in {0, 1}
    BY <2>1, <2>4 DEF Inv, SocketOK
  <2>6. TypeOK'
    BY <2>2, <2>4, <2>5 DEF Inv, TypeOK
  <2>7. WaitOK' /\ SocketOK' /\ ReceivedOK' /\ AnsweredInTime'
    BY <2>2, <2>4, <2>5 DEF Inv, WaitOK, SocketOK, ReceivedOK, AnsweredInTime, Whole
  <2> QED BY <2>3, <2>6, <2>7 DEF Inv, ExceptionIsOfThisCall
<1>2. CASE Setup
  <2>1. sockets' = 1 /\ wait = "no"
    BY <1>2 DEF Setup, Inv, SocketOK, WaitOK
  <2> QED BY <1>2, <2>1, ProgressInv DEF Setup, peer
<1>3. CASE Connect
  <2>1. CASE Fail("timeout") \/ Fail("connect")
    BY <1>3, <2>1, FailInv DEF Connect, Errors
  <2>2. CASE /\ link' \in {"connecting", "open"}
             /\ Enter(IF link' = "open" THEN "send" ELSE "pending")
             /\ UNCHANGED <<until, sockets, result, received_at, frame, arrived>>
    <3>1. /\ pc' \in {"send", "pending"} /\ wait' = "no" /\ position' = 0
          /\ pc = "connect" /\ UNCHANGED now
      BY <1>3, <2>2 DEF Connect, Enter
    <3> QED BY <2>2, <3>1, ProgressInv
  <2> QED BY <1>3, <2>1, <2>2 DEF Connect
<1>4. CASE Connected
  <2>1. CASE Fail("connect")
    BY <1>4, <2>1, FailInv DEF Connected, Errors
  <2>2. CASE Enter("send") /\ UNCHANGED <<until, sockets, result, received_at, peer>>
    BY <1>4, <2>2, ProgressInv DEF Connected, Enter, peer
  <2> QED BY <1>4, <2>1, <2>2 DEF Connected
<1> QED BY <1>1, <1>2, <1>3, <1>4

\* Waiting (modbus_tcp.c:186-218).
LEMMA WaitingInv ==
  ASSUME Inv, Await \/ SelectReady \/ SelectTimesOut \/ SelectFails
              \/ SelectInterrupted \/ NothingDone
  PROVE  Inv'
<1> USE Before, Sizes DEF Writing, Reading
<1>1. CASE Await
  <2>1. CASE Fail("timeout")
    BY <1>1, <2>1, FailInv DEF Await, Errors
  <2>2. CASE /\ now < Timeout
             /\ wait' = "select" /\ until' = now + Remaining
             /\ UNCHANGED <<now, pc, position, sockets, result, received_at, peer>>
    <3>1. until' = Timeout /\ now <= Timeout /\ until' \in Nat
      BY <2>2 DEF Remaining
    <3> QED BY <1>1, <2>2, <3>1, ProgressInv DEF Await, peer
  <2> QED BY <1>1, <2>1, <2>2 DEF Await
<1>2. CASE SelectReady
  <2>1. CASE Fail("timeout")
    BY <1>2, <2>1, FailInv DEF SelectReady, Errors
  <2>2. CASE /\ wait' = "woken"
             /\ UNCHANGED <<now, pc, until, position, sockets, result, received_at, peer>>
    BY <1>2, <2>2, ProgressInv DEF SelectReady, peer
  <2> QED BY <1>2, <2>1, <2>2 DEF SelectReady
<1>3. CASE SelectTimesOut
  BY <1>3, FailInv DEF SelectTimesOut, Errors
<1>4. CASE SelectFails
  BY <1>4, FailInv DEF SelectFails, Errors
<1>5. CASE SelectInterrupted
  BY <1>5, ProgressInv DEF SelectInterrupted, peer
<1>6. CASE NothingDone
  BY <1>6, ProgressInv DEF NothingDone, Woken, peer
<1> QED BY <1>1, <1>2, <1>3, <1>4, <1>5, <1>6

\* Transferring (modbus_tcp.c:220-268).
LEMMA TransferInv ==
  ASSUME Inv, TransferFails \/ Send \/ Receive \/ Late \/ Sent
  PROVE  Inv'
<1> USE Before, Sizes DEF Writing, Reading
<1>1. CASE TransferFails
  BY <1>1, FailInv DEF TransferFails, Errors
<1>2. CASE Send
  <2>1. position' \in Nat
    BY <1>2 DEF Send
  <2> QED BY <1>2, <2>1, ProgressInv DEF Send, peer
<1>3. CASE Receive
  <2>1. PICK n \in 1..(arrived - Taken) : position + n <= Length /\ position' = position + n
    BY <1>3 DEF Receive
  <2>2. /\ pc \in {"header", "body"} /\ wait' = "no" /\ received_at' = now
        /\ UNCHANGED <<now, pc, until, sockets, result, link, frame, arrived>>
    BY <1>3 DEF Receive, peer
  <2>3. n \in Nat /\ position' \in Nat
    BY <2>1, <2>2 DEF Taken
  <2>4. /\ pc = "header" => position' <= arrived
        /\ pc = "body" => HeaderSize + position' <= arrived
    BY <2>1, <2>2, <2>3 DEF Taken
  <2>5. TypeOK'
    BY <2>2, <2>3 DEF Inv, TypeOK
  <2>6. WaitOK' /\ SocketOK'
    BY <2>2 DEF Inv, WaitOK, SocketOK
  <2>7. ReceivedOK'
    BY <2>2, <2>4 DEF ReceivedOK, Whole, check_header
  <2>8. AnsweredInTime' /\ ExceptionIsOfThisCall'
    BY <2>2, UnderWay DEF AnsweredInTime, ExceptionIsOfThisCall
  <2> QED BY <2>5, <2>6, <2>7, <2>8 DEF Inv
<1>4. CASE Late
  BY <1>4, FailInv DEF Late, Errors
<1>5. CASE Sent
  BY <1>5, ProgressInv DEF Sent, Enter, peer
<1> QED BY <1>1, <1>2, <1>3, <1>4, <1>5

\* What has come in completely is what the call returns (modbus_tcp.c:361-376).
LEMMA DecodeInv ==
  ASSUME Inv, HeaderDone \/ BodyDone
  PROVE  Inv'
<1> USE Before, Sizes DEF Writing, Reading
<1>1. CASE HeaderDone
  <2>1. CASE Fail("header")
    BY <1>1, <2>1, FailInv DEF HeaderDone, Errors
  <2>2. CASE check_header /\ Enter("body") /\ UNCHANGED <<until, sockets, result, received_at, peer>>
    <3>1. position = HeaderSize
      BY <1>1 DEF HeaderDone, Complete, Length
    <3> QED BY <1>1, <2>2, <3>1, ProgressInv DEF HeaderDone, Enter, peer
  <2> QED BY <1>1, <2>1, <2>2 DEF HeaderDone
<1>2. CASE BodyDone
  <2>1. /\ pc = "body" /\ pc' = "done" /\ wait = "no" /\ now < Timeout
        /\ UNCHANGED <<now, wait, until, position, sockets, received_at, link, frame, arrived>>
    BY <1>2 DEF BodyDone, Complete, InTime, peer
  <2>2. position = frame.size /\ arrived = Whole
    BY <1>2, <2>1 DEF BodyDone, Complete, Length
  <2>3. frame.header = "own" /\ frame.body \in Bodies
    BY <2>1, FrameFields DEF check_header, Inv
  <2>4. /\ result'.error = IF frame.body = "data" THEN "ok" ELSE frame.body
        /\ (result'.exception <=> frame.body = "exception")
    BY <1>2, <2>3 DEF BodyDone, mb_decode_read_response, check_header
  <2>5. result' \in [error : Errors, exception : BOOLEAN]
    <3>1. (check_header /\ frame.body = "exception") \in BOOLEAN
      BY <2>3 DEF check_header
    <3>2. (IF ~check_header THEN "header"
           ELSE IF frame.body = "data" THEN "ok" ELSE frame.body) \in Errors
      BY <2>3 DEF check_header, Errors, Bodies
    <3> QED BY <1>2, <3>1, <3>2 DEF BodyDone, mb_decode_read_response
  <2>6. TypeOK'
    BY <2>1, <2>5 DEF Inv, TypeOK
  <2>7. WaitOK' /\ SocketOK' /\ ReceivedOK'
    BY <2>1 DEF Inv, WaitOK, SocketOK, ReceivedOK, Whole
  <2>8. received_at < Timeout
    BY <2>1 DEF Inv, ReceivedOK
  <2>9. AnsweredInTime' /\ ExceptionIsOfThisCall'
    BY <2>1, <2>2, <2>3, <2>4, <2>8 DEF AnsweredInTime, ExceptionIsOfThisCall, Whole, Bodies
  <2> QED BY <2>6, <2>7, <2>9 DEF Inv
<1> QED BY <1>1, <1>2

\* A call begins without any trace of the one before, and ends with its
\* descriptor closed (modbus_tcp.c:277 and :378).
LEMMA CallInv ==
  ASSUME Inv, Call \/ Return
  PROVE  Inv'
<1> USE Before DEF Writing, Reading
<1>1. CASE Call
  <2>1. /\ result'.error = "ok" /\ ~result'.exception
        /\ result' \in [error : Errors, exception : BOOLEAN]
    BY <1>1 DEF Call, reset_result, Errors
  <2>2. /\ pc = "idle" /\ pc' = "setup" /\ UNCHANGED <<wait, sockets>>
        /\ now' = 0 /\ until' = 0 /\ position' = 0 /\ received_at' = 0
        /\ link' = "none" /\ arrived' = 0 /\ frame' \in Frames
    BY <1>1 DEF Call
  <2>3. TypeOK'
    BY <2>1, <2>2 DEF Inv, TypeOK
  <2>4. WaitOK' /\ SocketOK' /\ AnsweredInTime'
    BY <2>2 DEF Inv, WaitOK, SocketOK, AnsweredInTime
  <2>5. Whole' \in Nat
    BY <2>3, Sizes DEF TypeOK, Whole, Frames
  <2>6. ReceivedOK'
    BY <2>2, <2>5 DEF ReceivedOK
  <2> QED BY <2>1, <2>3, <2>4, <2>6 DEF Inv, ExceptionIsOfThisCall
<1>2. CASE Return
  <2>1. /\ pc = "done" /\ pc' = "idle" /\ sockets' = 0 /\ link' = "none"
        /\ UNCHANGED <<now, wait, until, position, result, frame, arrived, received_at>>
    BY <1>2 DEF Return, Close
  <2>2. TypeOK'
    BY <2>1 DEF Inv, TypeOK
  <2>3. WaitOK' /\ SocketOK' /\ ReceivedOK' /\ AnsweredInTime'
    BY <2>1 DEF Inv, WaitOK, SocketOK, ReceivedOK, AnsweredInTime, Whole
  <2>4. ExceptionIsOfThisCall'
    BY <2>1 DEF Inv, ExceptionIsOfThisCall
  <2> QED BY <2>2, <2>3, <2>4 DEF Inv
<1> QED BY <1>1, <1>2

\* The network and the device may add to what is coming in, and time passes.
LEMMA SurroundingsInv ==
  ASSUME Inv, Device \/ Tick
  PROVE  Inv'
<1> USE Before, Sizes DEF Writing, Reading
<1>1. CASE Device
  <2>1. /\ UNCHANGED <<now, pc, wait, until, position, sockets, result, received_at, frame>>
        /\ Answers
    BY <1>1 DEF Device, client
  <2>2. arrived' \in Nat /\ arrived <= arrived' /\ arrived' <= Whole
    BY <2>1 DEF Answers
  <2>3. link' \in {"none", "connecting", "open", "refused", "closed", "reset"}
    BY <2>1 DEF Answers
  <2>4. TypeOK'
    BY <2>1, <2>2, <2>3 DEF Inv, TypeOK
  <2>5. WaitOK' /\ SocketOK' /\ ExceptionIsOfThisCall'
    BY <2>1 DEF Inv, WaitOK, SocketOK, ExceptionIsOfThisCall
  <2>6. ReceivedOK'
    BY <2>1, <2>2 DEF Inv, ReceivedOK, Whole, check_header
  <2>7. AnsweredInTime'
    BY <2>1, <2>2 DEF Inv, AnsweredInTime, Whole
  <2> QED BY <2>4, <2>5, <2>6, <2>7 DEF Inv
<1>2. CASE Tick
  <2>1. /\ UNCHANGED <<pc, wait, until, position, sockets, result, received_at, link, frame, arrived>>
        /\ now' = now + 1 /\ (wait = "select" => now < until)
    BY <1>2 DEF Tick, client, peer
  <2>2. TypeOK'
    BY <2>1 DEF Inv, TypeOK
  <2>3. WaitOK'
    BY <2>1, Sizes DEF Inv, WaitOK
  <2>4. ReceivedOK'
    BY <2>1 DEF Inv, ReceivedOK, Whole, check_header
  <2>5. SocketOK' /\ AnsweredInTime' /\ ExceptionIsOfThisCall'
    BY <2>1 DEF Inv, SocketOK, AnsweredInTime, ExceptionIsOfThisCall, Whole
  <2> QED BY <2>2, <2>3, <2>4, <2>5 DEF Inv
<1> QED BY <1>1, <1>2

LEMMA InitInv == Init => Inv
<1> SUFFICES ASSUME Init
             PROVE  Inv
  OBVIOUS
<1>1. result.error = "ok" /\ ~result.exception /\ result \in [error : Errors, exception : BOOLEAN]
  BY DEF Init, Errors
<1>2. TypeOK
  BY <1>1 DEF Init, TypeOK
<1>3. Whole \in Nat
  BY <1>2, FrameFields
<1> QED BY <1>1, <1>2, <1>3 DEF Init, Inv, WaitOK, SocketOK, ReceivedOK, AnsweredInTime,
     ExceptionIsOfThisCall

LEMMA NextInv == Inv /\ [Next]_vars => Inv'
<1> SUFFICES ASSUME Inv, [Next]_vars
             PROVE  Inv'
  OBVIOUS
<1>1. CASE UNCHANGED vars
  BY <1>1 DEF vars, client, peer, Inv, TypeOK, WaitOK, SocketOK, ReceivedOK, AnsweredInTime,
    ExceptionIsOfThisCall, Whole, check_header
<1>2. CASE Call \/ Return
  BY <1>2, CallInv
<1>3. CASE SetupFails \/ Setup \/ Connect \/ Connected
  BY <1>3, ConnectingInv
<1>4. CASE Await \/ SelectReady \/ SelectTimesOut \/ SelectFails \/ SelectInterrupted \/ NothingDone
  BY <1>4, WaitingInv
<1>5. CASE TransferFails \/ Send \/ Receive \/ Late \/ Sent
  BY <1>5, TransferInv
<1>6. CASE HeaderDone \/ BodyDone
  BY <1>6, DecodeInv
<1>7. CASE Device \/ Tick
  BY <1>7, SurroundingsInv
<1> QED BY <1>1, <1>2, <1>3, <1>4, <1>5, <1>6, <1>7 DEF Next, Run

-----------------------------------------------------------------------------
\* The inductive invariant of a call (mb_read_points).
THEOREM InvIsInvariant == Spec => []Inv
BY InitInv, NextInv, PTL DEF Spec

\* An answer is returned only if all of it came in, for this request and before
\* the deadline (modbus_tcp.c:366-376).
THEOREM AlwaysAnsweredInTime == Spec => []AnsweredInTime
<1>1. Inv => AnsweredInTime
  BY DEF Inv
<1> QED BY <1>1, InvIsInvariant, PTL

\* No wait lasts longer than the call may (modbus_tcp.c:184).
THEOREM AlwaysBlocksOnlyBeforeDeadline == Spec => []BlocksOnlyBeforeDeadline
<1>1. Inv => BlocksOnlyBeforeDeadline
  BY DEF Inv, WaitOK, BlocksOnlyBeforeDeadline
<1> QED BY <1>1, InvIsInvariant, PTL

\* No call leaves a descriptor open (modbus_tcp.c:378).
THEOREM SocketsAreAlwaysClosed == Spec => []SocketsAreClosed
<1>1. Inv => SocketsAreClosed
  BY DEF Inv, SocketOK, SocketsAreClosed
<1> QED BY <1>1, InvIsInvariant, PTL

\* An exception code is always that of the answer to this call
\* (modbus_tcp.c:41-44, reset_result).
THEOREM ExceptionIsAlwaysOfThisCall == Spec => []ExceptionIsOfThisCall
<1>1. Inv => ExceptionIsOfThisCall
  BY DEF Inv
<1> QED BY <1>1, InvIsInvariant, PTL
=============================================================================
