----------------------- MODULE Rb10SocketClient_proofs -----------------------
(***************************************************************************)
(* Proofs about Rb10SocketClient: the types, the pacing of servo frames,   *)
(* and what is left of a session, for every interleaving of the three      *)
(* reader threads, the caller and the robot.                               *)
(***************************************************************************)
EXTENDS Rb10SocketClient, TLAPS

-----------------------------------------------------------------------------
(* The inductive invariant, conjunct by conjunct.                           *)

Opening == {"new", "open_data", "start"}
Serving == {"up", "text", "wait", "armed", "undo"}

\* Before the threads exist nobody closes anything; while the caller is served
\* the session runs.
Lifecycle ==
    /\ pc["caller"] \in Opening =>
         /\ ~connected
         /\ \A t \in Reader : pc[t] = "off"
         /\ \A t \in Thread : closing[t] = "no"
         /\ \A c \in Channel : sock[c] \in {"none", "open"}
    /\ pc["caller"] \in Serving => running

\* What may have been written since the last release, by where the next frame
\* stands and whether a response is still due.
Paced ==
    /\ unreleased <= 2
    /\ ~pending => unreleased <= 1
    /\ pc["caller"] = "armed" => unreleased <= 1
    /\ pc["caller"] = "armed" /\ ~pending => unreleased = 0

\* A thread that is closing has lowered the flag, and a socket whose descriptor
\* is forgotten, or about to be, is closed.
ClosedInOrder ==
    /\ \A t \in Thread : closing[t] \notin {"no", "flag"} => ~connected
    /\ \A c \in Channel : sock[c] = "closed" => ~connected
    /\ \A c \in Channel : ~fd[c] => sock[c] \in {"none", "closed"}
    /\ \A t \in Thread : closing[t] = "cmd_close" => sock["cmd"] # "none"
    /\ \A t \in Thread : closing[t] = "data_close" => sock["data"] # "none"
    /\ \A t \in Thread : closing[t] = "cmd_clear" => sock["cmd"] = "closed"
    /\ \A t \in Thread : closing[t] = "data_clear" => sock["data"] = "closed"

\* disconnect() has joined the readers before it closes, and what its own
\* set_disconnected() has passed is forgotten.
LeftInOrder ==
    /\ pc["caller"] \in {"leave", "gone"} => \A t \in Reader : Returned(t)
    /\ pc["caller"] = "leave" /\ closing["caller"] \notin
         {"flag", "cmd", "cmd_close", "cmd_clear"} => ~fd["cmd"] /\ ~connected
    /\ pc["caller"] = "leave" /\ closing["caller"] = "no" => ~fd["data"]
    /\ pc["caller"] = "gone" =>
         closing["caller"] = "no" /\ ~connected /\ \A c \in Channel : ~fd[c]

IInv == TypeOK /\ Lifecycle /\ Paced /\ ClosedInOrder /\ LeftInOrder

\* Every step keeps the types.
LEMMA TypePreserved ==
    ASSUME TypeOK, [Next]_vars
    PROVE  TypeOK'
<1> USE DEF TypeOK, Stage, CallerPc, ReaderPc, Channel, Reader, Thread,
           session, files, pacing, vars
<1>1. CASE Connect
  <2>1. CASE OpenSocket("cmd", "new", "open_data")
    <3>1. fd' \in [Channel -> BOOLEAN]
      BY <2>1, Zenon DEF OpenSocket, OpenFailed, files
    <3>2. QED
      BY <2>1, <3>1 DEF OpenSocket, OpenFailed, Step, Stays, Disconnecting
  <2>2. CASE OpenSocket("data", "open_data", "start")
    <3>1. fd' \in [Channel -> BOOLEAN]
      BY <2>2, Zenon DEF OpenSocket, OpenFailed, files
    <3>2. QED
      BY <2>2, <3>1 DEF OpenSocket, OpenFailed, Step, Stays, Disconnecting
  <2>3. QED
    BY <1>1, <2>1, <2>2 DEF Connect
<1>2. CASE StartThreads
  <2>1. connected' \in BOOLEAN /\ running' \in BOOLEAN
    BY <1>2, Zenon DEF StartThreads
  <2>2. QED
    BY <1>2, <2>1 DEF StartThreads
<1>3. CASE WriteText
  BY <1>3 DEF WriteText, Step, Stays, Disconnecting, SendsText, GivesUp
<1>4. CASE Waited
  <2>1. pending' \in BOOLEAN
    BY <1>4, Zenon DEF Waited, Step, Live
  <2>2. QED
    BY <1>4, <2>1 DEF Waited, Step, Live
<1>5. CASE TimedOut
  <2>1. pending' \in BOOLEAN
    BY <1>5, Zenon DEF TimedOut, Step, Live
  <2>2. QED
    BY <1>5, <2>1 DEF TimedOut, Step, Live
<1>6. CASE WriteFrame
  BY <1>6 DEF WriteFrame, Step, Stays, Disconnecting, SendsText, GivesUp
<1>7. CASE Undo
  <2>1. pending' \in BOOLEAN
    BY <1>7, Zenon DEF Undo, Step
  <2>2. QED
    BY <1>7, <2>1 DEF Undo, Step
<1>8. CASE StopRunning
  <2>1. running' \in BOOLEAN
    BY <1>8, Zenon DEF StopRunning, Step
  <2>2. QED
    BY <1>8, <2>1 DEF StopRunning, Step
<1>9. CASE ShutBoth
  BY <1>9 DEF ShutBoth, Step
<1>10. CASE Join
  BY <1>10 DEF Join, Step, Disconnecting, Returned
<1>11. CASE Leave
  BY <1>11 DEF Leave, Step
<1>12. CASE Text
  BY <1>12 DEF Text, Step
<1>13. CASE Call
  BY <1>13 DEF Call, Step
<1>14. CASE Disconnect
  BY <1>14 DEF Disconnect, Step
<1>15. CASE RequestData
  BY <1>15 DEF RequestData, LoopHead, Step, Stays, Disconnecting, Live
<1>16. CASE ReadData
  BY <1>16 DEF ReadData, LoopHead, Step, Stays, Disconnecting, Live
<1>17. CASE ReadCmd
  <2>1. pending' \in BOOLEAN
    BY <1>17, Zenon DEF ReadCmd, LoopHead, Step, Stays, Response, Live
  <2>2. QED
    BY <1>17, <2>1 DEF ReadCmd, LoopHead, Step, Stays, Response, Live
<1>18. CASE \E t \in Thread : LowerFlag(t)
  <2>1. connected' \in BOOLEAN
    BY <1>18, Zenon DEF LowerFlag
  <2>2. QED
    BY <1>18, <2>1 DEF LowerFlag
<1>19. CASE \E t \in Thread, c \in Channel : ShutSocket(t, c)
  BY <1>19 DEF ShutSocket, ToClose, ToClear, After
<1>20. CASE \E t \in Thread, c \in Channel : CloseSocket(t, c)
  BY <1>20 DEF CloseSocket, ToClose, ToClear, After
<1>21. CASE \E t \in Thread, c \in Channel : ForgetSocket(t, c)
  BY <1>21 DEF ForgetSocket, ToClose, ToClear, After
<1>22. CASE Robot
  BY <1>22 DEF Robot, PeerFails, PeerStalls, PeerReads, PeerMoves
<1>23. CASE UNCHANGED vars
  BY <1>23 DEF vars, Returned
<1>24. QED
  BY <1>1, <1>2, <1>3, <1>4, <1>5, <1>6, <1>7, <1>8, <1>9, <1>10, <1>11, <1>12,
     <1>13, <1>14, <1>15, <1>16, <1>17, <1>18, <1>19, <1>20, <1>21, <1>22, <1>23
     DEF Next, InCall, SetDisconnected, Terminated

\* Only the caller opens, and the session runs until it asks for the stop.
LEMMA LifecyclePreserved ==
    ASSUME TypeOK, TypeOK', Lifecycle, [Next]_vars
    PROVE  Lifecycle'
<1> USE DEF TypeOK, Stage, CallerPc, ReaderPc, Channel, Reader, Thread,
           session, files, pacing, Opening, Serving, Lifecycle
<1>1. CASE Connect
  BY <1>1 DEF Connect, OpenSocket, OpenFailed, Step, Stays, Disconnecting
<1>2. CASE StartThreads
  BY <1>2 DEF StartThreads
<1>3. CASE WriteText
  BY <1>3 DEF WriteText, Step, Stays, Disconnecting, SendsText, GivesUp
<1>4. CASE Waited
  BY <1>4 DEF Waited, Step, Live
<1>5. CASE TimedOut
  BY <1>5 DEF TimedOut, Step, Live
<1>6. CASE WriteFrame
  BY <1>6 DEF WriteFrame, Step, Stays, Disconnecting, SendsText, GivesUp
<1>7. CASE Undo
  BY <1>7 DEF Undo, Step
<1>8. CASE StopRunning
  BY <1>8 DEF StopRunning, Step
<1>9. CASE ShutBoth
  BY <1>9 DEF ShutBoth, Step
<1>10. CASE Join
  BY <1>10 DEF Join, Step, Disconnecting, Returned
<1>11. CASE Leave
  BY <1>11 DEF Leave, Step
<1>12. CASE Text
  BY <1>12 DEF Text, Step
<1>13. CASE Call
  BY <1>13 DEF Call, Step
<1>14. CASE Disconnect
  BY <1>14 DEF Disconnect, Step
<1>15. CASE RequestData
  BY <1>15 DEF RequestData, LoopHead, Step, Stays, Disconnecting, Live
<1>16. CASE ReadData
  BY <1>16 DEF ReadData, LoopHead, Step, Stays, Disconnecting, Live
<1>17. CASE ReadCmd
  BY <1>17 DEF ReadCmd, LoopHead, Step, Stays, Response, Live
<1>18. CASE \E t \in Thread : LowerFlag(t)
  BY <1>18 DEF LowerFlag
<1>19. CASE \E t \in Thread, c \in Channel : ShutSocket(t, c)
  BY <1>19 DEF ShutSocket, ToClose, ToClear, After
<1>20. CASE \E t \in Thread, c \in Channel : CloseSocket(t, c)
  BY <1>20 DEF CloseSocket, ToClose, ToClear, After
<1>21. CASE \E t \in Thread, c \in Channel : ForgetSocket(t, c)
  BY <1>21 DEF ForgetSocket, ToClose, ToClear, After
<1>22. CASE Robot
  BY <1>22 DEF Robot, PeerFails, PeerStalls, PeerReads, PeerMoves
<1>23. CASE UNCHANGED vars
  BY <1>23 DEF vars, Returned
<1>24. QED
  BY <1>1, <1>2, <1>3, <1>4, <1>5, <1>6, <1>7, <1>8, <1>9, <1>10, <1>11, <1>12,
     <1>13, <1>14, <1>15, <1>16, <1>17, <1>18, <1>19, <1>20, <1>21, <1>22, <1>23
     DEF Next, InCall, SetDisconnected, Terminated

\* A frame is written only from "armed", where at most one has gone before it.
LEMMA PacedPreserved ==
    ASSUME TypeOK, TypeOK', Lifecycle, Paced, [Next]_vars
    PROVE  Paced'
<1> USE DEF TypeOK, Stage, CallerPc, ReaderPc, Channel, Reader, Thread,
           session, files, pacing, Opening, Serving, Lifecycle, Paced
<1>1. CASE Connect
  BY <1>1 DEF Connect, OpenSocket, OpenFailed, Step, Stays, Disconnecting
<1>2. CASE StartThreads
  BY <1>2 DEF StartThreads
<1>3. CASE WriteText
  BY <1>3 DEF WriteText, Step, Stays, Disconnecting, SendsText, GivesUp
<1>4. CASE Waited
  BY <1>4 DEF Waited, Step, Live
<1>5. CASE TimedOut
  BY <1>5 DEF TimedOut, Step, Live
<1>6. CASE WriteFrame
  BY <1>6 DEF WriteFrame, Step, Stays, Disconnecting, SendsText, GivesUp
<1>7. CASE Undo
  BY <1>7 DEF Undo, Step
<1>8. CASE StopRunning
  BY <1>8 DEF StopRunning, Step
<1>9. CASE ShutBoth
  BY <1>9 DEF ShutBoth, Step
<1>10. CASE Join
  BY <1>10 DEF Join, Step, Disconnecting, Returned
<1>11. CASE Leave
  BY <1>11 DEF Leave, Step
<1>12. CASE Text
  BY <1>12 DEF Text, Step
<1>13. CASE Call
  BY <1>13 DEF Call, Step
<1>14. CASE Disconnect
  BY <1>14 DEF Disconnect, Step
<1>15. CASE RequestData
  BY <1>15 DEF RequestData, LoopHead, Step, Stays, Disconnecting, Live
<1>16. CASE ReadData
  BY <1>16 DEF ReadData, LoopHead, Step, Stays, Disconnecting, Live
<1>17. CASE ReadCmd
  BY <1>17 DEF ReadCmd, LoopHead, Step, Stays, Response, Live
<1>18. CASE \E t \in Thread : LowerFlag(t)
  BY <1>18 DEF LowerFlag
<1>19. CASE \E t \in Thread, c \in Channel : ShutSocket(t, c)
  BY <1>19 DEF ShutSocket, ToClose, ToClear, After
<1>20. CASE \E t \in Thread, c \in Channel : CloseSocket(t, c)
  BY <1>20 DEF CloseSocket, ToClose, ToClear, After
<1>21. CASE \E t \in Thread, c \in Channel : ForgetSocket(t, c)
  BY <1>21 DEF ForgetSocket, ToClose, ToClear, After
<1>22. CASE Robot
  BY <1>22 DEF Robot, PeerFails, PeerStalls, PeerReads, PeerMoves
<1>23. CASE UNCHANGED vars
  BY <1>23 DEF vars, Returned
<1>24. QED
  BY <1>1, <1>2, <1>3, <1>4, <1>5, <1>6, <1>7, <1>8, <1>9, <1>10, <1>11, <1>12,
     <1>13, <1>14, <1>15, <1>16, <1>17, <1>18, <1>19, <1>20, <1>21, <1>22, <1>23
     DEF Next, InCall, SetDisconnected, Terminated

\* Threads may close side by side: each finds the flag lowered, and what one has
\* closed no other reopens.
LEMMA ClosedInOrderPreserved ==
    ASSUME TypeOK, TypeOK', Lifecycle, ClosedInOrder, [Next]_vars
    PROVE  ClosedInOrder'
<1> USE DEF TypeOK, Stage, CallerPc, ReaderPc, Channel, Reader, Thread,
           session, files, pacing, Opening, Lifecycle, ClosedInOrder
<1>1. CASE Connect
  BY <1>1 DEF Connect, OpenSocket, OpenFailed, Step, Stays, Disconnecting
<1>2. CASE StartThreads
  BY <1>2 DEF StartThreads
<1>3. CASE WriteText
  BY <1>3 DEF WriteText, Step, Stays, Disconnecting, SendsText, GivesUp
<1>4. CASE Waited
  BY <1>4 DEF Waited, Step, Live
<1>5. CASE TimedOut
  BY <1>5 DEF TimedOut, Step, Live
<1>6. CASE WriteFrame
  BY <1>6 DEF WriteFrame, Step, Stays, Disconnecting, SendsText, GivesUp
<1>7. CASE Undo
  BY <1>7 DEF Undo, Step
<1>8. CASE StopRunning
  BY <1>8 DEF StopRunning, Step
<1>9. CASE ShutBoth
  BY <1>9 DEF ShutBoth, Step
<1>10. CASE Join
  BY <1>10 DEF Join, Step, Disconnecting, Returned
<1>11. CASE Leave
  BY <1>11 DEF Leave, Step
<1>12. CASE Text
  BY <1>12 DEF Text, Step
<1>13. CASE Call
  BY <1>13 DEF Call, Step
<1>14. CASE Disconnect
  BY <1>14 DEF Disconnect, Step
<1>15. CASE RequestData
  BY <1>15 DEF RequestData, LoopHead, Step, Stays, Disconnecting, Live
<1>16. CASE ReadData
  BY <1>16 DEF ReadData, LoopHead, Step, Stays, Disconnecting, Live
<1>17. CASE ReadCmd
  BY <1>17 DEF ReadCmd, LoopHead, Step, Stays, Response, Live
<1>18. CASE \E t \in Thread : LowerFlag(t)
  BY <1>18 DEF LowerFlag
<1>19. CASE \E t \in Thread, c \in Channel : ShutSocket(t, c)
  BY <1>19 DEF ShutSocket, ToClose, ToClear, After
<1>20. CASE \E t \in Thread, c \in Channel : CloseSocket(t, c)
  BY <1>20 DEF CloseSocket, ToClose, ToClear, After
<1>21. CASE \E t \in Thread, c \in Channel : ForgetSocket(t, c)
  BY <1>21 DEF ForgetSocket, ToClose, ToClear, After
<1>22. CASE Robot
  BY <1>22 DEF Robot, PeerFails, PeerStalls, PeerReads, PeerMoves
<1>23. CASE UNCHANGED vars
  BY <1>23 DEF vars, Returned
<1>24. QED
  BY <1>1, <1>2, <1>3, <1>4, <1>5, <1>6, <1>7, <1>8, <1>9, <1>10, <1>11, <1>12,
     <1>13, <1>14, <1>15, <1>16, <1>17, <1>18, <1>19, <1>20, <1>21, <1>22, <1>23
     DEF Next, InCall, SetDisconnected, Terminated

\* Nobody opens or closes once the readers are joined, but the caller.
LEMMA LeftInOrderPreserved ==
    ASSUME TypeOK, TypeOK', Lifecycle, ClosedInOrder, LeftInOrder, [Next]_vars
    PROVE  LeftInOrder'
<1> USE DEF TypeOK, Stage, CallerPc, ReaderPc, Channel, Reader, Thread,
           session, files, pacing, Opening, Lifecycle, ClosedInOrder,
           LeftInOrder, Returned
<1>1. CASE Connect
  BY <1>1 DEF Connect, OpenSocket, OpenFailed, Step, Stays, Disconnecting
<1>2. CASE StartThreads
  BY <1>2 DEF StartThreads
<1>3. CASE WriteText
  BY <1>3 DEF WriteText, Step, Stays, Disconnecting, SendsText, GivesUp
<1>4. CASE Waited
  BY <1>4 DEF Waited, Step, Live
<1>5. CASE TimedOut
  BY <1>5 DEF TimedOut, Step, Live
<1>6. CASE WriteFrame
  BY <1>6 DEF WriteFrame, Step, Stays, Disconnecting, SendsText, GivesUp
<1>7. CASE Undo
  BY <1>7 DEF Undo, Step
<1>8. CASE StopRunning
  BY <1>8 DEF StopRunning, Step
<1>9. CASE ShutBoth
  BY <1>9 DEF ShutBoth, Step
<1>10. CASE Join
  BY <1>10 DEF Join, Step, Disconnecting, Returned
<1>11. CASE Leave
  BY <1>11 DEF Leave, Step
<1>12. CASE Text
  BY <1>12 DEF Text, Step
<1>13. CASE Call
  BY <1>13 DEF Call, Step
<1>14. CASE Disconnect
  BY <1>14 DEF Disconnect, Step
<1>15. CASE RequestData
  BY <1>15 DEF RequestData, LoopHead, Step, Stays, Disconnecting, Live
<1>16. CASE ReadData
  BY <1>16 DEF ReadData, LoopHead, Step, Stays, Disconnecting, Live
<1>17. CASE ReadCmd
  BY <1>17 DEF ReadCmd, LoopHead, Step, Stays, Response, Live
<1>18. CASE \E t \in Thread : LowerFlag(t)
  BY <1>18 DEF LowerFlag
<1>19. CASE \E t \in Thread, c \in Channel : ShutSocket(t, c)
  BY <1>19 DEF ShutSocket, ToClose, ToClear, After
<1>20. CASE \E t \in Thread, c \in Channel : CloseSocket(t, c)
  BY <1>20 DEF CloseSocket, ToClose, ToClear, After
<1>21. CASE \E t \in Thread, c \in Channel : ForgetSocket(t, c)
  BY <1>21 DEF ForgetSocket, ToClose, ToClear, After
<1>22. CASE Robot
  BY <1>22 DEF Robot, PeerFails, PeerStalls, PeerReads, PeerMoves
<1>23. CASE UNCHANGED vars
  BY <1>23 DEF vars, Returned
<1>24. QED
  BY <1>1, <1>2, <1>3, <1>4, <1>5, <1>6, <1>7, <1>8, <1>9, <1>10, <1>11, <1>12,
     <1>13, <1>14, <1>15, <1>16, <1>17, <1>18, <1>19, <1>20, <1>21, <1>22, <1>23
     DEF Next, InCall, SetDisconnected, Terminated

\* A client that was never connected satisfies it.
LEMMA InitIInv ==
    Init => IInv
<1> USE DEF Init, IInv, TypeOK, Lifecycle, Paced, ClosedInOrder, LeftInOrder,
           Stage, CallerPc, ReaderPc, Channel, Reader, Thread, Opening, Serving
<1>1. Init => TypeOK
  <2> SUFFICES ASSUME Init
               PROVE  TypeOK
    OBVIOUS
  <2>1. connected \in BOOLEAN /\ running \in BOOLEAN /\ pending \in BOOLEAN
    BY Zenon
  <2>2. fd \in [Channel -> BOOLEAN]
    BY Zenon
  <2>3. QED
    BY <2>1, <2>2
<1>2. Init => Lifecycle /\ Paced /\ ClosedInOrder /\ LeftInOrder
  OBVIOUS
<1>3. QED
  BY <1>1, <1>2

\* The invariant is inductive.
THEOREM Invariance ==
    Spec => []IInv
<1>1. IInv /\ [Next]_vars => IInv'
  BY TypePreserved, LifecyclePreserved, PacedPreserved, ClosedInOrderPreserved,
     LeftInOrderPreserved DEF IInv
<1>2. QED
  BY InitIInv, <1>1, PTL DEF Spec

\* The variables keep their ranges, and a remembered descriptor is of a socket
\* that was opened.
THEOREM TypeCorrect ==
    Spec => []TypeOK
<1>1. IInv => TypeOK
  BY DEF IInv
<1>2. QED
  BY Invariance, <1>1, PTL

\* At most two servo frames are written between two releases of the pending
\* flag, wherever responses and time-outs fall.
THEOREM FramesArePaced ==
    Spec => []PacingBound
<1>1. IInv => PacingBound
  BY DEF IInv, Paced, PacingBound
<1>2. QED
  BY Invariance, <1>1, PTL

\* No socket is closed while the client passes for connected.
THEOREM ClosedAfterTheFlag ==
    Spec => []ClosedMeansDisconnected
<1>1. IInv => ClosedMeansDisconnected
  BY DEF IInv, ClosedInOrder, ClosedMeansDisconnected
<1>2. QED
  BY Invariance, <1>1, PTL

\* disconnect() leaves no thread, no open socket and no descriptor behind.
THEOREM DisconnectLeavesNothing ==
    Spec => []NothingLeftBehind
<1>1. IInv => NothingLeftBehind
  BY DEF IInv, ClosedInOrder, LeftInOrder, NothingLeftBehind
<1>2. QED
  BY Invariance, <1>1, PTL

-----------------------------------------------------------------------------
(* What the return of disconnect() rests on: the readers it joins can all   *)
(* move, and what they still have to do runs out.                           *)

\* What the caller of disconnect() has seen to by the time it joins: its own
\* set_disconnected() is over, running_ is down, and no socket is open, so that
\* every system call of a reader returns.
Leaving ==
    /\ pc["caller"] \in Opening => ~running
    /\ pc["caller"] \in {"shut", "join", "leave", "gone"} => ~running
    /\ pc["caller"] \in {"stop", "shut", "join"} => closing["caller"] = "no"
    /\ pc["caller"] = "join" => \A c \in Channel : sock[c] # "open"
    /\ pc["request"] # "recv" /\ pc["data_read"] # "send"
    /\ pc["cmd_read"] # "send"

\* Reader t has a step to take: in set_disconnected(), at the head of its loop,
\* or out of a system call on a socket that was shut down.
CanStep(t) ==
    \/ closing[t] # "no"
    \/ pc[t] = "loop"
    \/ t = "request" /\ pc[t] = "send" /\ GivesUp("data")
    \/ t = "data_read" /\ pc[t] = "recv" /\ Drained("data")
    \/ t = "cmd_read" /\ pc[t] = "recv" /\ Drained("cmd")

\* No reader that disconnect() waits for is stuck.
JoinedReadersCanStep ==
    pc["caller"] = "join" => \A t \in Reader : Returned(t) \/ CanStep(t)

\* What a thread has left of set_disconnected(), and a reader of its life.
ClosingSteps(t) ==
    [no |-> 0, data_clear |-> 1, data_close |-> 2, data |-> 3,
     cmd_clear |-> 4, cmd_close |-> 5, cmd |-> 6, flag |-> 7][closing[t]]
ReaderSteps(t) ==
    ClosingSteps(t) + (IF pc[t] \in {"loop", "send", "recv"} THEN 8 ELSE 0)

\* A step of reader t.
ReaderMoves(t) ==
    \/ t = "request" /\ RequestData
    \/ t = "data_read" /\ ReadData
    \/ t = "cmd_read" /\ ReadCmd
    \/ SetDisconnected(t)

\* While the caller waits in join() every step of a reader brings that reader
\* closer to its return and leaves the others where they are.
ReadersRunOut ==
    pc["caller"] = "join" /\ pc'["caller"] = "join" =>
        \A t \in Reader :
            /\ ReaderSteps(t) \in Nat
            /\ ReaderSteps(t) = 0 => Returned(t)
            /\ ReaderSteps(t)' <= ReaderSteps(t)
            /\ ReaderMoves(t) => ReaderSteps(t)' < ReaderSteps(t)
JoinRunsOut == [][ReadersRunOut]_vars

\* disconnect() lowers running_ and shuts both sockets down before it joins, and
\* nobody raises or opens them again.
LEMMA LeavingPreserved ==
    ASSUME TypeOK, TypeOK', Lifecycle, ClosedInOrder, LeftInOrder, Leaving,
           [Next]_vars
    PROVE  Leaving'
<1> USE DEF TypeOK, Stage, CallerPc, ReaderPc, Channel, Reader, Thread,
           session, files, pacing, Opening, Lifecycle, ClosedInOrder,
           LeftInOrder, Leaving, Returned
<1>1. CASE Connect
  BY <1>1 DEF Connect, OpenSocket, OpenFailed, Step, Stays, Disconnecting
<1>2. CASE StartThreads
  BY <1>2 DEF StartThreads
<1>3. CASE WriteText
  BY <1>3 DEF WriteText, Step, Stays, Disconnecting, SendsText, GivesUp
<1>4. CASE Waited
  BY <1>4 DEF Waited, Step, Live
<1>5. CASE TimedOut
  BY <1>5 DEF TimedOut, Step, Live
<1>6. CASE WriteFrame
  BY <1>6 DEF WriteFrame, Step, Stays, Disconnecting, SendsText, GivesUp
<1>7. CASE Undo
  BY <1>7 DEF Undo, Step
<1>8. CASE StopRunning
  BY <1>8 DEF StopRunning, Step
<1>9. CASE ShutBoth
  BY <1>9 DEF ShutBoth, Step
<1>10. CASE Join
  BY <1>10 DEF Join, Step, Disconnecting, Returned
<1>11. CASE Leave
  BY <1>11 DEF Leave, Step
<1>12. CASE Text
  BY <1>12 DEF Text, Step
<1>13. CASE Call
  BY <1>13 DEF Call, Step
<1>14. CASE Disconnect
  BY <1>14 DEF Disconnect, Step
<1>15. CASE RequestData
  BY <1>15 DEF RequestData, LoopHead, Step, Stays, Disconnecting, Live
<1>16. CASE ReadData
  BY <1>16 DEF ReadData, LoopHead, Step, Stays, Disconnecting, Live
<1>17. CASE ReadCmd
  BY <1>17 DEF ReadCmd, LoopHead, Step, Stays, Response, Live
<1>18. CASE \E t \in Thread : LowerFlag(t)
  BY <1>18 DEF LowerFlag
<1>19. CASE \E t \in Thread, c \in Channel : ShutSocket(t, c)
  BY <1>19 DEF ShutSocket, ToClose, ToClear, After
<1>20. CASE \E t \in Thread, c \in Channel : CloseSocket(t, c)
  BY <1>20 DEF CloseSocket, ToClose, ToClear, After
<1>21. CASE \E t \in Thread, c \in Channel : ForgetSocket(t, c)
  BY <1>21 DEF ForgetSocket, ToClose, ToClear, After
<1>22. CASE Robot
  BY <1>22 DEF Robot, PeerFails, PeerStalls, PeerReads, PeerMoves
<1>23. CASE UNCHANGED vars
  BY <1>23 DEF vars, Returned
<1>24. QED
  BY <1>1, <1>2, <1>3, <1>4, <1>5, <1>6, <1>7, <1>8, <1>9, <1>10, <1>11, <1>12,
     <1>13, <1>14, <1>15, <1>16, <1>17, <1>18, <1>19, <1>20, <1>21, <1>22, <1>23
     DEF Next, InCall, SetDisconnected, Terminated

\* Nobody disconnect() waits for is stuck: with both sockets shut down every
\* send and receive returns, and set_disconnected() waits for nothing.
THEOREM JoinedReadersCanMove ==
    Spec => []Leaving /\ []JoinedReadersCanStep
<1>1. Init => Leaving
  BY DEF Init, Leaving, Opening, Channel, Thread, Reader
<1>2. IInv /\ IInv' /\ Leaving /\ [Next]_vars => Leaving'
  BY LeavingPreserved DEF IInv
<1>3. IInv /\ Leaving => JoinedReadersCanStep
  BY DEF IInv, TypeOK, Leaving, JoinedReadersCanStep, CanStep, Returned,
         GivesUp, Broken, Drained, Reader, Thread, Channel, ReaderPc, Stage
<1>4. QED
  BY Invariance, <1>1, <1>2, <1>3, PTL DEF Spec

\* A step of set_disconnected() moves its thread one stage on, and no other.
LEMMA ClosingMovesOn ==
    ASSUME TypeOK, NEW t \in Thread, SetDisconnected(t)
    PROVE  /\ ClosingSteps(t) \in Nat /\ ClosingSteps(t)' \in Nat
           /\ ClosingSteps(t)' < ClosingSteps(t)
           /\ pc' = pc
           /\ \A u \in Thread \ {t} : ClosingSteps(u)' = ClosingSteps(u)
<1> USE DEF TypeOK, Stage, Channel, ClosingSteps
<1>1. CASE LowerFlag(t)
  BY <1>1 DEF LowerFlag
<1>2. ASSUME NEW c \in Channel, ShutSocket(t, c)
      PROVE  /\ ClosingSteps(t) \in Nat /\ ClosingSteps(t)' \in Nat
             /\ ClosingSteps(t)' < ClosingSteps(t)
             /\ pc' = pc
             /\ \A u \in Thread \ {t} : ClosingSteps(u)' = ClosingSteps(u)
  BY <1>2 DEF ShutSocket, ToClose, After
<1>3. ASSUME NEW c \in Channel, CloseSocket(t, c)
      PROVE  /\ ClosingSteps(t) \in Nat /\ ClosingSteps(t)' \in Nat
             /\ ClosingSteps(t)' < ClosingSteps(t)
             /\ pc' = pc
             /\ \A u \in Thread \ {t} : ClosingSteps(u)' = ClosingSteps(u)
  BY <1>3 DEF CloseSocket, ToClose, ToClear
<1>4. ASSUME NEW c \in Channel, ForgetSocket(t, c)
      PROVE  /\ ClosingSteps(t) \in Nat /\ ClosingSteps(t)' \in Nat
             /\ ClosingSteps(t)' < ClosingSteps(t)
             /\ pc' = pc
             /\ \A u \in Thread \ {t} : ClosingSteps(u)' = ClosingSteps(u)
  BY <1>4 DEF ForgetSocket, ToClear, After
<1>5. QED
  BY <1>1, <1>2, <1>3, <1>4 DEF SetDisconnected

\* A step of a reader's loop, while the caller joins, is its last: from the head
\* of the loop because running_ is down, from a system call because the socket
\* is.
LEMMA LoopsLeave ==
    ASSUME TypeOK, Leaving, pc["caller"] = "join", NEW t \in Reader,
           \/ t = "request" /\ RequestData
           \/ t = "data_read" /\ ReadData
           \/ t = "cmd_read" /\ ReadCmd
    PROVE  /\ closing[t] = "no" /\ pc[t] \in {"loop", "send", "recv"}
           /\ pc' = [pc EXCEPT ![t] = "done"]
           /\ closing' \in {closing, [closing EXCEPT ![t] = "flag"]}
<1> USE DEF TypeOK, Leaving, Reader, Thread, Channel, LoopHead, Step, Stays,
           Disconnecting, Live, SendsText, GivesUp, Writable, Broken, Drained
<1>1. CASE t = "request" /\ RequestData
  BY <1>1 DEF RequestData
<1>2. CASE t = "data_read" /\ ReadData
  BY <1>2 DEF ReadData
<1>3. CASE t = "cmd_read" /\ ReadCmd
  BY <1>3 DEF ReadCmd
<1>4. QED
  BY <1>1, <1>2, <1>3

\* The readers' steps run out while disconnect() joins them: with the fairness
\* of the threads this is why it returns.
THEOREM ReadersRunOutTheorem ==
    Spec => JoinRunsOut
<1>1. IInv /\ Leaving /\ [Next]_vars => [ReadersRunOut]_vars
  <2> SUFFICES ASSUME IInv, Leaving, [Next]_vars, vars' # vars,
                      pc["caller"] = "join", pc'["caller"] = "join",
                      NEW t \in Reader
               PROVE  /\ ReaderSteps(t) \in Nat
                      /\ ReaderSteps(t) = 0 => Returned(t)
                      /\ ReaderSteps(t)' <= ReaderSteps(t)
                      /\ ReaderMoves(t) => ReaderSteps(t)' < ReaderSteps(t)
    BY DEF ReadersRunOut
  <2>1. TypeOK
    BY DEF IInv
  <2>2. ClosingSteps(t) \in Nat /\ ReaderSteps(t) \in Nat
    BY <2>1 DEF ClosingSteps, ReaderSteps, TypeOK, Stage, Thread
  <2>3. ReaderSteps(t) = 0 => Returned(t)
    BY <2>1 DEF ClosingSteps, ReaderSteps, Returned, TypeOK, Stage, Thread,
           ReaderPc
  <2>4. ASSUME SetDisconnected(t)
        PROVE  ReaderSteps(t)' < ReaderSteps(t)
    BY <2>1, <2>2, <2>4, ClosingMovesOn DEF ReaderSteps, Thread
  <2>5. ASSUME \/ t = "request" /\ RequestData
               \/ t = "data_read" /\ ReadData
               \/ t = "cmd_read" /\ ReadCmd
        PROVE  ReaderSteps(t)' < ReaderSteps(t)
    BY <2>1, <2>5, LoopsLeave DEF ReaderSteps, ClosingSteps, TypeOK, Thread
  <2>6. ReaderMoves(t) => ReaderSteps(t)' < ReaderSteps(t)
    BY <2>4, <2>5, Zenon DEF ReaderMoves
  <2>7. ReaderSteps(t)' <= ReaderSteps(t)
    <3>1. CASE ReaderMoves(t)
      <4>1. ReaderSteps(t)' \in Nat
        <5>1. TypeOK'
          BY <2>1, TypePreserved
        <5>2. QED
          BY <5>1 DEF ClosingSteps, ReaderSteps, TypeOK, Stage, Thread
      <4>2. QED
        BY <2>2, <2>6, <3>1, <4>1
    <3>2. CASE \E u \in Thread \ {t} : SetDisconnected(u)
      BY <2>1, <2>2, <3>2, ClosingMovesOn DEF ReaderSteps, Thread
    <3>3. ASSUME NEW u \in Reader \ {t},
                 \/ u = "request" /\ RequestData
                 \/ u = "data_read" /\ ReadData
                 \/ u = "cmd_read" /\ ReadCmd
          PROVE  ReaderSteps(t)' <= ReaderSteps(t)
      <4>1. /\ pc' = [pc EXCEPT ![u] = "done"]
            /\ closing' \in {closing, [closing EXCEPT ![u] = "flag"]}
        BY <2>1, <3>3, LoopsLeave
      <4>2. pc'[t] = pc[t] /\ closing'[t] = closing[t]
        BY <2>1, <3>3, <4>1 DEF TypeOK, Thread
      <4>3. QED
        BY <2>2, <4>2 DEF ReaderSteps, ClosingSteps
    <3>4. ~InCall /\ ~Text /\ ~Call /\ ~Disconnect
      BY <2>1 DEF InCall, Connect, OpenSocket, StartThreads, WriteText, Waited,
         TimedOut, WriteFrame, Undo, StopRunning, ShutBoth, Join, Leave, Text,
         Call, Disconnect, Step, TypeOK, Thread
    <3>5. ~Robot
      BY DEF Robot, PeerFails, PeerStalls, PeerReads, PeerMoves, Leaving
    <3>6. QED
      BY <3>1, <3>2, <3>3, <3>4, <3>5
         DEF Next, Terminated, ReaderMoves, Reader, Thread
  <2>8. QED
    BY <2>2, <2>3, <2>6, <2>7
<1>2. QED
  BY Invariance, JoinedReadersCanMove, <1>1, PTL DEF Spec, JoinRunsOut

=============================================================================
