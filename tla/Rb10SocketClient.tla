--------------------------- MODULE Rb10SocketClient ---------------------------
(***************************************************************************)
(* The RB10 socket client: two TCP connections, the three threads that     *)
(* serve them, and the program that calls the client.  Both of its users   *)
(* make one call at a time (the direct backend starts its servo thread     *)
(* after the last start-up command and joins it before the first shutdown  *)
(* command; the bridge node is spun by one thread), so the calls are one   *)
(* more thread, "caller", and command_mutex_ is never contended.           *)
(*                                                                         *)
(* Three of the four threads may find a connection broken and run          *)
(* set_disconnected(), step by step and beside the others.  A send to a    *)
(* peer that does not read spins in send_all(): a thread with no step to   *)
(* take until the peer reads or the socket breaks.                         *)
(***************************************************************************)
EXTENDS Naturals

Channel == {"cmd", "data"}
Reader  == {"request", "data_read", "cmd_read"}
Thread  == Reader \cup {"caller"}

VARIABLES
    pc,           \* where each thread stands
    closing,      \* how far each thread is in set_disconnected()
    connected,    \* connected_
    running,      \* running_
    fd,           \* cmd_sock_ >= 0, data_sock_ >= 0
    sock,         \* the socket behind it
    peer,         \* the robot's end: up, not reading, no longer sending, gone
    pending,      \* servo_command_response_pending_
    unreleased    \* history: servo frames written since pending was released

session == <<connected, running>>
files   == <<fd, sock>>
pacing  == <<pending, unreleased>>
vars == <<pc, closing, connected, running, fd, sock, peer, pending, unreleased>>

Stage == {"no", "flag", "cmd", "cmd_close", "cmd_clear",
          "data", "data_close", "data_clear"}
CallerPc == {"new", "open_data", "start", "up", "text", "wait", "armed", "undo",
             "stop", "shut", "join", "leave", "gone"}
ReaderPc == {"off", "loop", "send", "recv", "done"}

\* The values of the variables, and that a descriptor the client remembers is
\* one that was opened and not yet forgotten.
TypeOK ==
    /\ pc \in [Thread -> CallerPc \cup ReaderPc]
    /\ pc["caller"] \in CallerPc /\ \A t \in Reader : pc[t] \in ReaderPc
    /\ closing \in [Thread -> Stage]
    /\ connected \in BOOLEAN /\ running \in BOOLEAN /\ pending \in BOOLEAN
    /\ fd \in [Channel -> BOOLEAN]
    /\ sock \in [Channel -> {"none", "open", "shut", "closed"}]
    /\ \A c \in Channel : fd[c] => sock[c] # "none"
    /\ peer \in [Channel -> {"up", "stalled", "half", "gone"}]
    /\ unreleased \in Nat

Init ==
    /\ pc = [t \in Thread |-> IF t = "caller" THEN "new" ELSE "off"]
    /\ closing = [t \in Thread |-> "no"]
    /\ connected = FALSE /\ running = FALSE
    /\ fd = [c \in Channel |-> FALSE]
    /\ sock = [c \in Channel |-> "none"]
    /\ peer = [c \in Channel |-> "up"]
    /\ pending = FALSE /\ unreleased = 0

\* Thread t, not in set_disconnected(), goes from here to there.
Step(t, here, there) ==
    /\ pc[t] = here /\ closing[t] = "no"
    /\ pc' = [pc EXCEPT ![t] = there]

Stays == UNCHANGED closing

\* Thread t calls set_disconnected() on the way.
Disconnecting(t) == closing' = [closing EXCEPT ![t] = "flag"]

\* What send() and recv() can say of a channel.
Writable(c) == sock[c] = "open" /\ peer[c] \in {"up", "half"}
Broken(c)   == sock[c] # "open" \/ peer[c] = "gone"
Drained(c)  == sock[c] # "open" \/ peer[c] \in {"half", "gone"}

Live == running /\ connected

-----------------------------------------------------------------------------
(* set_disconnected(): the flag, then each socket is shut down, closed and  *)
(* its descriptor forgotten.  Nothing keeps two threads from doing it at    *)
(* the same time; every step reads the descriptor again.                    *)

\* The stage that handles channel c is c itself, and then:
ToClose(c) == IF c = "cmd" THEN "cmd_close" ELSE "data_close"
ToClear(c) == IF c = "cmd" THEN "cmd_clear" ELSE "data_clear"
After(c)   == IF c = "cmd" THEN "data" ELSE "no"

LowerFlag(t) ==
    /\ closing[t] = "flag"
    /\ closing' = [closing EXCEPT ![t] = "cmd"]
    /\ connected' = FALSE
    /\ UNCHANGED <<pc, running, files, peer, pacing>>

ShutSocket(t, c) ==
    /\ closing[t] = c
    /\ closing' = [closing EXCEPT ![t] = IF fd[c] THEN ToClose(c) ELSE After(c)]
    /\ sock' = [sock EXCEPT ![c] = IF fd[c] /\ @ = "open" THEN "shut" ELSE @]
    /\ UNCHANGED <<pc, session, fd, peer, pacing>>

\* Mutant: the socket is shut down and never closed.
CloseSocket_forgotten(t, c) ==
    /\ closing[t] = ToClose(c)
    /\ closing' = [closing EXCEPT ![t] = ToClear(c)]
    /\ UNCHANGED <<pc, session, files, peer, pacing>>

CloseSocket(t, c) ==
    /\ closing[t] = ToClose(c)
    /\ closing' = [closing EXCEPT ![t] = ToClear(c)]
    /\ sock' = [sock EXCEPT ![c] = IF fd[c] THEN "closed" ELSE @]
    /\ UNCHANGED <<pc, session, fd, peer, pacing>>

ForgetSocket(t, c) ==
    /\ closing[t] = ToClear(c)
    /\ closing' = [closing EXCEPT ![t] = After(c)]
    /\ fd' = [fd EXCEPT ![c] = FALSE]
    /\ UNCHANGED <<pc, session, sock, peer, pacing>>

SetDisconnected(t) ==
    \/ LowerFlag(t)
    \/ \E c \in Channel :
         ShutSocket(t, c) \/ CloseSocket(t, c) \/ ForgetSocket(t, c)

-----------------------------------------------------------------------------
(* connect(): both sockets, then the flags, then the threads.               *)

OpenFailed(c) == UNCHANGED files

OpenSocket(c, here, there) ==
    /\ \/ /\ Step("caller", here, there) /\ Stays
          /\ fd' = [fd EXCEPT ![c] = TRUE]
          /\ sock' = [sock EXCEPT ![c] = "open"]
       \/ /\ Step("caller", here, "leave") /\ Disconnecting("caller")
          /\ OpenFailed(c)
    /\ UNCHANGED <<session, peer, pacing>>

Connect == OpenSocket("cmd", "new", "open_data")
           \/ OpenSocket("data", "open_data", "start")

StartThreads ==
    /\ pc["caller"] = "start"
    /\ connected' = TRUE /\ running' = TRUE
    /\ pc' = [t \in Thread |-> IF t = "caller" THEN "up" ELSE "loop"]
    /\ UNCHANGED <<closing, files, peer, pacing>>

-----------------------------------------------------------------------------
(* send_text_command(), alone or for a servo frame: it looks at the         *)
(* connection, and then writes, spins, or gives the session up.             *)

SendsText(c) == connected /\ Writable(c)
GivesUp(c)   == ~connected \/ Broken(c)

\* initialize_robot(), send_movej_degrees(), send_shutdown_sequence().
Text ==
    /\ connected /\ Step("caller", "up", "text")
    /\ UNCHANGED <<closing, session, files, peer, pacing>>

WriteText ==
    /\ Step("caller", "text", "up")
    /\ \/ SendsText("cmd") /\ Stays
       \/ ~connected /\ Stays
       \/ GivesUp("cmd") /\ Disconnecting("caller")
    /\ UNCHANGED <<session, files, peer, pacing>>

-----------------------------------------------------------------------------
(* send_servoj_degrees().                                                   *)

Call ==
    /\ Step("caller", "up", "wait")
    /\ UNCHANGED <<closing, session, files, peer, pacing>>

\* Mutant: the frame goes out without announcing that a response is due.
Waited_unarmed ==
    /\ pending => ~Live
    /\ Step("caller", "wait", IF connected THEN "armed" ELSE "up")
    /\ UNCHANGED <<closing, session, files, peer, pacing>>

\* wait_for() came back with its predicate true.
Waited ==
    /\ pending => ~Live
    /\ Step("caller", "wait", IF connected THEN "armed" ELSE "up")
    /\ pending' = (pending \/ connected)
    /\ UNCHANGED <<closing, session, files, peer, unreleased>>

\* Mutant: a wait that ran out leaves the flag for the next call to find.
TimedOut_keeps_flag ==
    /\ pending /\ Live
    /\ Step("caller", "wait", "up")
    /\ UNCHANGED <<closing, session, files, peer, pacing>>

\* 50 ms without a response: this command is dropped, the next one may go.
TimedOut ==
    /\ pending /\ Live
    /\ Step("caller", "wait", "up")
    /\ pending' = FALSE /\ unreleased' = 0
    /\ UNCHANGED <<closing, session, files, peer>>

WriteFrame ==
    /\ \/ /\ SendsText("cmd")
          /\ Step("caller", "armed", "up") /\ Stays
          /\ unreleased' = unreleased + 1
       \/ /\ ~connected
          /\ Step("caller", "armed", "undo") /\ Stays
          /\ UNCHANGED unreleased
       \/ /\ GivesUp("cmd")
          /\ Step("caller", "armed", "undo") /\ Disconnecting("caller")
          /\ UNCHANGED unreleased
    /\ UNCHANGED <<session, files, peer, pending>>

Undo ==
    /\ Step("caller", "undo", "up")
    /\ pending' = FALSE /\ unreleased' = 0
    /\ UNCHANGED <<closing, session, files, peer>>

-----------------------------------------------------------------------------
(* disconnect(): stop_threads() and set_disconnected().                     *)

Disconnect ==
    /\ Step("caller", "up", "stop")
    /\ UNCHANGED <<closing, session, files, peer, pacing>>

StopRunning ==
    /\ Step("caller", "stop", "shut")
    /\ running' = FALSE
    /\ UNCHANGED <<closing, connected, files, peer, pacing>>

\* Mutant: the threads are asked to stop and left in their system calls.
ShutBoth_forgotten ==
    /\ Step("caller", "shut", "join")
    /\ UNCHANGED <<closing, session, files, peer, pacing>>

ShutBoth ==
    /\ Step("caller", "shut", "join")
    /\ sock' = [c \in Channel |-> IF fd[c] /\ sock[c] = "open" THEN "shut"
                                                               ELSE sock[c]]
    /\ UNCHANGED <<closing, session, fd, peer, pacing>>

Returned(t) == pc[t] \in {"off", "done"} /\ closing[t] = "no"

Join ==
    /\ \A t \in Reader : Returned(t)
    /\ Step("caller", "join", "leave") /\ Disconnecting("caller")
    /\ UNCHANGED <<session, files, peer, pacing>>

Leave ==
    /\ Step("caller", "leave", "gone")
    /\ UNCHANGED <<closing, session, files, peer, pacing>>

-----------------------------------------------------------------------------
(* The client's own threads.  Each looks at both flags at its loop's head;  *)
(* a receive that times out or is interrupted comes back there unseen.      *)

LoopHead(t, work) ==
    /\ Step(t, "loop", IF Live THEN work ELSE "done")
    /\ UNCHANGED <<closing, session, files, peer, pacing>>

RequestData ==
    \/ LoopHead("request", "send")
    \/ /\ \/ /\ SendsText("data")
             /\ Step("request", "send", "loop") /\ Stays
          \/ /\ GivesUp("data")
             /\ Step("request", "send", "done") /\ Disconnecting("request")
       /\ UNCHANGED <<session, files, peer, pacing>>

\* A packet, or a failed receive: the thread disconnects unless it was stopped.
ReadData ==
    \/ LoopHead("data_read", "recv")
    \/ /\ \/ /\ ~Drained("data")
             /\ Step("data_read", "recv", "loop") /\ Stays
          \/ /\ ~Live \/ Drained("data")
             /\ Step("data_read", "recv", "done")
             /\ IF running THEN Disconnecting("data_read") ELSE Stays
       /\ UNCHANGED <<session, files, peer, pacing>>

\* Any bytes on the command socket release the next servo frame.
Response == pending' = FALSE /\ unreleased' = 0

ReadCmd ==
    \/ LoopHead("cmd_read", "recv")
    \/ /\ \/ /\ ~Drained("cmd")
             /\ Step("cmd_read", "recv", "loop")
             /\ Response \/ UNCHANGED pacing
          \/ /\ Drained("cmd")
             /\ Step("cmd_read", "recv", "done")
             /\ UNCHANGED pacing
       /\ UNCHANGED <<closing, session, files, peer>>

-----------------------------------------------------------------------------
(* The robot's end of the two connections.                                  *)

PeerMoves(c, from, to) ==
    /\ sock[c] = "open" /\ peer[c] \in from
    /\ peer' = [peer EXCEPT ![c] = to]
    /\ UNCHANGED <<pc, closing, session, files, pacing>>

PeerFails(c)  == PeerMoves(c, {"up", "stalled"}, "half")
                 \/ PeerMoves(c, {"up", "stalled", "half"}, "gone")
PeerStalls(c) == PeerMoves(c, {"up"}, "stalled")
PeerReads(c)  == PeerMoves(c, {"stalled"}, "up")

InCall == \/ Connect \/ StartThreads \/ WriteText
          \/ Waited \/ TimedOut \/ WriteFrame \/ Undo
          \/ StopRunning \/ ShutBoth \/ Join \/ Leave
Robot == \E c \in Channel : PeerFails(c) \/ PeerStalls(c) \/ PeerReads(c)

Terminated == pc["caller"] = "gone" /\ UNCHANGED vars

Next ==
    \/ InCall \/ Text \/ Call \/ Disconnect
    \/ RequestData \/ ReadData \/ ReadCmd
    \/ \E t \in Thread : SetDisconnected(t)
    \/ Robot \/ Terminated

Spec == Init /\ [][Next]_vars

\* Threads run; the robot owes nothing.
FairSpec ==
    /\ Spec
    /\ WF_vars(InCall)
    /\ WF_vars(RequestData) /\ WF_vars(ReadData) /\ WF_vars(ReadCmd)
    /\ \A t \in Thread : WF_vars(SetDisconnected(t))

-----------------------------------------------------------------------------
(* Safety.                                                                  *)

\* Between two releases of the pending flag (a response, a wait that ran out, a
\* failed send) the client writes at most two servo frames: one whose flag was
\* released before it was written, and the one after it.
PacingBound == unreleased <= 2

\* Whoever still finds the client connected has not been overtaken by a close:
\* both sockets are open or at most shut down.
ClosedMeansDisconnected ==
    \A c \in Channel : sock[c] = "closed" => ~connected

\* When disconnect() has returned nothing of the session is left: the client's
\* threads have ended, and each socket that was opened is closed and forgotten,
\* whichever threads were disconnecting at the same time.
NothingLeftBehind ==
    pc["caller"] = "gone" =>
        /\ ~connected /\ \A t \in Reader : Returned(t)
        /\ \A c \in Channel : sock[c] \in {"none", "closed"} /\ ~fd[c]

-----------------------------------------------------------------------------
(* Liveness.                                                                *)

\* disconnect() returns even from a robot that has stopped reading: shutting
\* the sockets down gets every thread out of its system call.
DisconnectReturns == pc["caller"] = "stop" ~> pc["caller"] = "gone"

\* The program keeps having servo commands to send, a blocked send goes on when
\* it can, and a robot that is up reads from the command connection again.
Streaming ==
    /\ SF_vars(Call) /\ SF_vars(WriteText) /\ SF_vars(WriteFrame)
    /\ WF_vars(PeerReads("cmd"))

\* "keeping the session alive until a send fails" (read_cmd_loop): with the
\* response side of the command socket gone for good the client still does not
\* stop sending, because a wait that runs out releases the next call.
SessionStaysAlive == Streaming => (pending ~> ~pending \/ ~connected)
=============================================================================
