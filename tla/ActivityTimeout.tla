--------------------------- MODULE ActivityTimeout ---------------------------
(***************************************************************************)
(* The clock of NWebsocketCppRest's activity timeout, which the module of  *)
(* that name abstracts to "expired at any time" (TickTimeout).  The IO     *)
(* thread writes _lastReceivedMessageTimeMs when a connection opens or     *)
(* receives; tick() compares it with the time, by a difference of unsigned *)
(* 64 bit numbers whose two operands it reads one after the other.         *)
(***************************************************************************)
EXTENDS Integers, Sequences

CONSTANTS
  ActivityTimeoutMs,   (* _activityTimeoutMs                               *)
  TimeMod,             (* 2^64: differences are taken modulo TimeMod, which
                          MaxTime + ActivityTimeoutMs does not reach       *)
  MaxTime,             (* bound of the clock                               *)
  MaxConnects          (* bound of connect()                               *)

NoTime == -1
Unread == [now |-> NoTime, last |-> NoTime]

VARIABLES
  time,                        \* the clock of getUnixTimestampMs()
  lastReceivedMessageTimeMs,   \* the member of that name
  connected,                   \* _connected
  queue,                       \* _userThreadFuncs
  conn,                        \* the connection of _wsClient: "none", "connecting" or "open"
  connects,                    \* auxiliary: how many there were
  heard,                       \* auxiliary: when it was made, opened or received last
  ticking,                     \* auxiliary: what heard was when the tick() in progress began
  read                         \* the operands that tick() has read

vars == <<time, lastReceivedMessageTimeMs, connected, queue, conn, connects, heard, ticking, read>>

Init ==
  /\ time = 0 /\ lastReceivedMessageTimeMs = 0
  /\ connected = FALSE /\ queue = <<>> /\ conn = "none" /\ connects = 0
  /\ heard = 0 /\ ticking = NoTime /\ read = Unread

TimePasses ==
  /\ time < MaxTime
  /\ time' = time + 1
  /\ UNCHANGED <<lastReceivedMessageTimeMs, connected, queue, conn, connects, heard, ticking, read>>

\* connect() has closed the connection before, whose end is then queued.
Connect ==
  /\ ticking = NoTime /\ connects < MaxConnects
  /\ connects' = connects + 1
  /\ conn' = "connecting" /\ heard' = time
  /\ queue' = IF conn = "open" THEN Append(queue, "closed") ELSE queue
  /\ UNCHANGED <<time, lastReceivedMessageTimeMs, connected, ticking, read>>

OnOpened ==
  /\ conn = "connecting"
  /\ conn' = "open" /\ heard' = time
  /\ lastReceivedMessageTimeMs' = time
  /\ queue' = Append(queue, "opened")
  /\ UNCHANGED <<time, connected, connects, ticking, read>>

OnSocketMessage ==
  /\ conn = "open"
  /\ heard' = time
  /\ lastReceivedMessageTimeMs' = time
  /\ UNCHANGED <<time, connected, queue, conn, connects, ticking, read>>

-----------------------------------------------------------------------------
(* tick()                                                                  *)

TickBegins ==
  /\ ticking = NoTime
  /\ ticking' = heard
  /\ UNCHANGED <<time, lastReceivedMessageTimeMs, connected, queue, conn, connects, heard, read>>

Checks == ticking # NoTime /\ connected

\* The language does not say which operand is read first.
TickReadsTime ==
  /\ Checks /\ read.now = NoTime
  /\ read' = [read EXCEPT !.now = time]
  /\ UNCHANGED <<time, lastReceivedMessageTimeMs, connected, queue, conn, connects, heard, ticking>>

TickReadsLast ==
  /\ Checks /\ read.last = NoTime
  /\ read' = [read EXCEPT !.last = lastReceivedMessageTimeMs]
  /\ UNCHANGED <<time, lastReceivedMessageTimeMs, connected, queue, conn, connects, heard, ticking>>

Elapsed == (read.now - read.last) % TimeMod

\* _connected after the events that are queued.
Delivered(c) == IF queue = <<>> THEN c ELSE queue[Len(queue)] = "opened"

\* tick() disconnects, and then delivers what is queued.
TimesOut ==
  /\ Checks /\ read.now # NoTime /\ read.last # NoTime
  /\ Elapsed >= ActivityTimeoutMs /\ conn # "none"
  /\ conn' = "none"
  /\ connected' = Delivered(FALSE)
  /\ queue' = IF conn = "open" THEN <<"closed">> ELSE <<>>
  /\ ticking' = NoTime /\ read' = Unread
  /\ UNCHANGED <<time, lastReceivedMessageTimeMs, connects, heard>>

\* tick() delivers what is queued.
TickReturns ==
  /\ ticking # NoTime
  /\ connected => /\ read.now # NoTime /\ read.last # NoTime
                  /\ conn = "none" \/ Elapsed < ActivityTimeoutMs
  /\ connected' = Delivered(connected)
  /\ queue' = <<>>
  /\ ticking' = NoTime /\ read' = Unread
  /\ UNCHANGED <<time, lastReceivedMessageTimeMs, conn, connects, heard>>

Next ==
  \/ TimePasses \/ Connect \/ OnOpened \/ OnSocketMessage
  \/ TickBegins \/ TickReadsTime \/ TickReadsLast \/ TimesOut \/ TickReturns

Spec == Init /\ [][Next]_vars

-----------------------------------------------------------------------------
(* What the documentation says and the code does not keep.                 *)

\* "if no any message received from server during "Activity timeout" then
\* connection will be closed" (README): the connection that is closed was made,
\* opened and last heard of so long ago, as far as the tick() could know when
\* it began.  It may not be: a message that arrives between the two reads makes
\* the difference negative, and a connection that replaces an open one is
\* measured by what its predecessor received.
ClosedOnlyIfSilent ==
  [][TimesOut => time - ticking >= ActivityTimeoutMs]_vars

=============================================================================
