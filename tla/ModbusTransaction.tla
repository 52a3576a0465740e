------------------------- MODULE ModbusTransaction -------------------------
(***************************************************************************)
(* One read request of the Modbus/TCP client (mb_read_points in            *)
(* src/main/modbus_tcp.c), as both polling engines call it, one call after *)
(* the other.  Each call opens a connection of its own; connecting,        *)
(* sending and receiving wait in select and share one deadline.            *)
(*                                                                         *)
(* The bytes of a message are counted in units of any size, so that it     *)
(* goes and comes in pieces.  Of the answer the model keeps whether it     *)
(* belongs to this request and what it turns out to be when decoded.  The  *)
(* clock counts from the start of the call.                                *)
(***************************************************************************)
EXTENDS Naturals

CONSTANTS
  Timeout,       \* timeout_ms
  RequestSize,   \* units of a request
  HeaderSize,    \* of the header of an answer
  MaxBody,       \* and of the longest rest that the header may announce
  MaxTime        \* bound of the model on the clock

ASSUME SizesAssumption ==
  /\ {Timeout, RequestSize, HeaderSize, MaxBody} \subseteq Nat \ {0}
ASSUME MaxTimeAssumption == MaxTime \in Nat

VARIABLES
  now,        \* mb_monotonic_ms, since the call
  pc,         \* what the call is about to do
  wait,       \* where it is in wait_ready
  until,      \* when select gives up
  position,   \* units of the present transfer that are done
  sockets,    \* descriptors that are open
  result,     \* mb_result_t: error and whether exception_code is set
  link,       \* the connection, as the network has it
  frame,      \* the answer that the device gives on it
  arrived,    \* units of it that have come in
  received_at \* history: when the last unit was received

client == <<pc, wait, until, position, sockets, result, received_at>>
peer == <<link, frame, arrived>>
vars == <<now, client, peer>>

\* What check_header may complain of first, and what the rest is.
Headers == {"own", "transaction", "protocol", "unit", "length"}
Bodies == {"data", "exception", "malformed"}
Frames == [header : Headers, body : Bodies, size : 1..MaxBody]

Whole == HeaderSize + frame.size

Errors == {"ok", "argument", "connect", "io", "timeout", "truncated", "header",
           "malformed", "exception"}

\* Where wait_ready is called.
Writing == {"pending", "send"}
Reading == {"header", "body"}

TypeOK ==
  /\ now \in Nat /\ until \in Nat /\ position \in Nat
  /\ pc \in {"idle", "setup", "connect", "done"} \cup Writing \cup Reading
  /\ wait \in {"no", "select", "woken"}
  /\ sockets \in Nat
  /\ result \in [error : Errors, exception : BOOLEAN]
  /\ link \in {"none", "connecting", "open", "refused", "closed", "reset"}
  /\ frame \in Frames
  /\ arrived \in Nat
  /\ received_at \in Nat

Init ==
  /\ now = 0 /\ until = 0 /\ position = 0
  /\ pc = "idle" /\ wait = "no" /\ sockets = 0
  /\ result = [error |-> "ok", exception |-> FALSE]
  /\ link = "none" /\ arrived = 0 /\ frame \in Frames
  /\ received_at = 0

-----------------------------------------------------------------------------
\* How a call begins and ends

reset_result == result' = [error |-> "ok", exception |-> FALSE]

\* mb_read_points up to the check of its arguments.
Call ==
  /\ pc = "idle"
  /\ now' = 0 /\ until' = 0 /\ position' = 0 /\ received_at' = 0
  /\ reset_result
  /\ pc' = "setup"
  /\ link' = "none" /\ arrived' = 0 /\ frame' \in Frames
  /\ UNCHANGED <<wait, sockets>>

\* goto done, with the error that is returned.
Fail(error) ==
  /\ result' = [result EXCEPT !.error = error]
  /\ pc' = "done" /\ wait' = "no"
  /\ UNCHANGED <<until, position, sockets, received_at, peer>>

\* The descriptor is closed on every path.
Close == sockets' = 0

Return ==
  /\ pc = "done"
  /\ Close
  /\ link' = "none" /\ pc' = "idle"
  /\ UNCHANGED <<now, wait, until, position, result, frame, arrived, received_at>>

-----------------------------------------------------------------------------
\* Connecting

\* A bad argument, no descriptor, or one that cannot be made non-blocking.
SetupFails ==
  /\ pc = "setup"
  /\ \E error \in {"argument", "connect", "io"} :
       /\ result' = [result EXCEPT !.error = error]
       /\ sockets' = IF error = "io" THEN sockets + 1 ELSE sockets
  /\ pc' = "done"
  /\ UNCHANGED <<now, wait, until, position, received_at, peer>>

Setup ==
  /\ pc = "setup"
  /\ sockets' = sockets + 1
  /\ pc' = "connect"
  /\ UNCHANGED <<now, wait, until, position, result, received_at, peer>>

Enter(step) == pc' = step /\ wait' = "no" /\ position' = 0

Connect ==
  /\ pc = "connect"
  /\ IF now >= Timeout THEN Fail("timeout")
     ELSE \/ Fail("connect")
          \/ /\ link' \in {"connecting", "open"}
             /\ Enter(IF link' = "open" THEN "send" ELSE "pending")
             /\ UNCHANGED <<until, sockets, result, received_at, frame, arrived>>
  /\ UNCHANGED now

-----------------------------------------------------------------------------
\* wait_ready

\* The time that select is given.
Remaining == Timeout - now

Length == CASE pc = "send" -> RequestSize
            [] pc = "header" -> HeaderSize
            [] pc = "body" -> frame.size
            [] OTHER -> 1

\* Faulty: every wait of the loop has the whole time again.
AwaitAgain ==
  /\ pc \in Writing \cup Reading /\ wait = "no" /\ position < Length
  /\ wait' = "select" /\ until' = now + Timeout
  /\ UNCHANGED <<now, pc, position, sockets, result, received_at, peer>>

\* The top of the loop, also after an interruption or a partial transfer.
Await ==
  /\ pc \in Writing \cup Reading /\ wait = "no" /\ position < Length
  /\ IF now >= Timeout THEN Fail("timeout")
     ELSE /\ wait' = "select" /\ until' = now + Remaining
          /\ UNCHANGED <<pc, position, sockets, result, received_at, peer>>
  /\ UNCHANGED now

\* Units of the answer that have been received.
Taken == IF pc = "body" THEN HeaderSize + position ELSE position

Ready ==
  \/ link \in {"refused", "closed", "reset"}
  \/ pc \in Writing /\ link = "open"
  \/ pc \in Reading /\ Taken < arrived

\* select returned a positive count, and the clock is read again.
SelectReady ==
  /\ wait = "select" /\ Ready
  /\ IF now >= Timeout THEN Fail("timeout")
     ELSE /\ wait' = "woken"
          /\ UNCHANGED <<pc, until, position, sockets, result, received_at, peer>>
  /\ UNCHANGED now

SelectTimesOut ==
  /\ wait = "select" /\ now >= until
  /\ Fail("timeout")
  /\ UNCHANGED now

SelectFails == wait = "select" /\ Fail("io") /\ UNCHANGED now

\* EINTR
SelectInterrupted ==
  /\ wait = "select"
  /\ wait' = "no"
  /\ UNCHANGED <<now, pc, until, position, sockets, result, received_at, peer>>

-----------------------------------------------------------------------------
\* send_exact, receive_exact and what is done with the outcome

\* wait_ready has returned MB_OK.
Woken == wait = "woken"

\* Interrupted, or there was nothing to do after all.
NothingDone ==
  /\ Woken /\ pc # "pending"
  /\ wait' = "no"
  /\ UNCHANGED <<now, pc, until, position, sockets, result, received_at, peer>>

\* getsockopt(SO_ERROR)
Connected ==
  /\ Woken /\ pc = "pending"
  /\ \/ /\ link = "open"
        /\ Enter("send")
        /\ UNCHANGED <<until, sockets, result, received_at, peer>>
     \/ Fail("connect")
  /\ UNCHANGED now

TransferFails ==
  /\ Woken /\ pc \in {"send", "header", "body"}
  /\ \/ Fail("io")
     \/ pc \in Reading /\ link = "closed" /\ Taken = arrived /\ Fail("truncated")
  /\ UNCHANGED now

\* send and recv transfer some of what is left.
Send ==
  /\ Woken /\ pc = "send" /\ link \in {"open", "closed"}
  /\ position' \in (position + 1)..RequestSize
  /\ wait' = "no"
  /\ UNCHANGED <<now, pc, until, sockets, result, received_at, peer>>

Receive ==
  /\ Woken /\ pc \in Reading /\ link # "reset" /\ Taken < arrived
  /\ \E n \in 1..(arrived - Taken) :
       position + n <= Length /\ position' = position + n
  /\ received_at' = now
  /\ wait' = "no"
  /\ UNCHANGED <<now, pc, until, sockets, result, peer>>

Complete == wait = "no" /\ position = Length

\* Faulty: the clock is not read again after the last piece.
InTimeNotChecked == TRUE

\* The test with which send_exact and receive_exact end.
InTime == now < Timeout

Late ==
  /\ pc \in {"send", "header", "body"} /\ Complete /\ ~InTime
  /\ Fail("timeout")
  /\ UNCHANGED now

Sent ==
  /\ pc = "send" /\ Complete /\ InTime
  /\ Enter("header")
  /\ UNCHANGED <<now, until, sockets, result, received_at, peer>>

\* Faulty: the transaction identifier is not compared.
CheckHeaderAnyTid == frame.header \in {"own", "transaction"}

check_header == frame.header = "own"

HeaderDone ==
  /\ pc = "header" /\ Complete /\ InTime
  /\ IF check_header
     THEN Enter("body") /\ UNCHANGED <<until, sockets, result, received_at, peer>>
     ELSE Fail("header")
  /\ UNCHANGED now

\* mb_decode_read_response, which resets the result and checks the header again.
mb_decode_read_response ==
  result' = [error |-> IF ~check_header THEN "header"
                       ELSE IF frame.body = "data" THEN "ok" ELSE frame.body,
             exception |-> check_header /\ frame.body = "exception"]

BodyDone ==
  /\ pc = "body" /\ Complete /\ InTime
  /\ mb_decode_read_response
  /\ pc' = "done"
  /\ UNCHANGED <<now, wait, until, position, sockets, received_at, peer>>

-----------------------------------------------------------------------------
\* The network and the device, which may do anything, and the clock, which
\* advances until select gives up or the bound of the model.

Answers ==
  \/ link = "connecting" /\ link' \in {"open", "refused"} /\ UNCHANGED arrived
  \/ link = "open" /\ arrived < Whole /\ arrived' = arrived + 1 /\ UNCHANGED link
  \/ link \in {"open", "closed"} /\ link' \in {"closed", "reset"} /\ UNCHANGED arrived

Device == Answers /\ UNCHANGED <<now, client, frame>>

Tick ==
  /\ pc # "idle" /\ now < MaxTime
  /\ wait = "select" => now < until
  /\ now' = now + 1
  /\ UNCHANGED <<client, peer>>

-----------------------------------------------------------------------------
\* The call itself; the rest is up to its surroundings.
Run ==
  \/ Setup \/ Connect \/ Await \/ SelectReady \/ SelectTimesOut
  \/ NothingDone \/ Connected \/ TransferFails \/ Send \/ Receive
  \/ Late \/ Sent \/ HeaderDone \/ BodyDone \/ Return

Next ==
  \/ Call \/ Run \/ SetupFails \/ SelectFails \/ SelectInterrupted
  \/ Device \/ Tick

Spec == Init /\ [][Next]_vars

\* The polling task runs, and time passes; the device owes nothing.
FairSpec == Spec /\ WF_vars(Run) /\ WF_vars(Tick)

-----------------------------------------------------------------------------
\* The properties of a call, and what they rest on.

\* select never waits for longer than to the deadline.
WaitOK ==
  /\ wait # "no" => pc \in Writing \cup Reading
  /\ wait = "select" => until = Timeout /\ now <= Timeout

SocketOK ==
  /\ pc \in {"idle", "setup"} => sockets = 0
  /\ pc = "done" => sockets \in {0, 1}
  /\ pc \notin {"idle", "setup", "done"} => sockets = 1

\* What has been received is of this answer, and not before it came in.
ReceivedOK ==
  /\ received_at <= now
  /\ pc = "header" => position <= arrived
  /\ pc = "body" => check_header /\ HeaderSize + position <= arrived
  /\ arrived <= Whole

\* MB_OK and MB_ERR_EXCEPTION are returned only for the complete answer of the
\* device to this request, whose last byte was received before the deadline
\* (modbus_tcp.c:366-376), in whatever pieces it came.
AnsweredInTime ==
  pc = "done" /\ result.error \in {"ok", "exception"} =>
    /\ frame.header = "own" /\ arrived = Whole
    /\ frame.body = IF result.error = "ok" THEN "data" ELSE "exception"
    /\ received_at < Timeout

\* The exception code, by which the engines tell a refusal from a lost device
\* (gateway_poll.c:80, custom_map.c:389), is never that of an earlier call or
\* of an answer that does not match.
ExceptionIsOfThisCall ==
  result.exception =>
    /\ pc \in {"done", "idle"}
    /\ result.error = "exception" /\ frame.header = "own" /\ frame.body = "exception"

\* The parts hold together in every state (modbus_tcp.c, during one call of
\* mb_read_points and between two).
Inv ==
  TypeOK /\ WaitOK /\ SocketOK /\ ReceivedOK /\ AnsweredInTime /\ ExceptionIsOfThisCall

\* The call blocks only before its deadline, however many times a slow device
\* or a signal wakes it (modbus_tcp.c:184, "A slow peer cannot extend the
\* original request's deadline").
BlocksOnlyBeforeDeadline == wait = "select" => now <= Timeout

\* Between calls no descriptor is open, whichever way the last one ended
\* (modbus_tcp.c:378).
SocketsAreClosed == pc = "idle" => sockets = 0

\* Every call returns, whatever the device does and however often it is woken.
CallReturns == pc # "idle" ~> pc = "idle"
=============================================================================
