-------------------------------- MODULE QMP ---------------------------------
(***************************************************************************)
(* The QMP connection to one QEMU: commands of several callers, the reader *)
(* goroutine, and a peer that answers and goes away.                       *)
(***************************************************************************)
EXTENDS Naturals, Sequences, FiniteSets

CONSTANTS
    Caller,        \* goroutines that execute commands
    MaxCommands    \* bound: commands in a behaviour

ASSUME CommandsAssumption == MaxCommands \in Nat

ID == 1..MaxCommands
NoID == 0

VARIABLES
    exec,       \* where Execute is, per caller: its step and its id
    nextID, pending,
    replies,    \* ids whose buffered reply channel is full
    outcome,    \* what Execute returned for an id
    qemu,       \* QEMU's end: "open", "gone"
    asked,      \* commands QEMU has and has not answered
    wire,       \* replies on their way to the reader
    conn,       \* our end: "open", "closed"
    reader,     \* the reader: its step, and the id whose reply it hands over
    received    \* history: ids whose reply the reader has decoded

qmpVars == <<exec, nextID, pending, replies, outcome, qemu, asked, wire, conn, reader,
             received>>

NotExecuting == [at |-> "idle", id |-> NoID]

\* dialQMP: the greeting has been read, the reader runs.
QMPInit ==
    /\ exec = [c \in Caller |-> NotExecuting] /\ nextID = 0
    /\ pending = {} /\ replies = {} /\ outcome = [i \in ID |-> "none"]
    /\ qemu = "open" /\ asked = {} /\ wire = <<>> /\ conn = "open"
    /\ reader = [at |-> "decode", id |-> NoID] /\ received = {}

-----------------------------------------------------------------------------
(* QEMU.                                                                   *)

\* QEMU answers one of the commands it has.
Answer ==
    \E i \in asked :
        /\ qemu = "open"
        /\ asked' = asked \ {i} /\ wire' = Append(wire, i)
        /\ UNCHANGED <<exec, nextID, pending, replies, outcome, qemu, conn, reader, received>>

\* QEMU exits; what it has written can still be read.
QEMUGone ==
    /\ qemu = "open" /\ qemu' = "gone"
    /\ UNCHANGED <<exec, nextID, pending, replies, outcome, asked, wire, conn, reader, received>>

-----------------------------------------------------------------------------
(* The reader.                                                             *)

\* read: a reply is looked up and taken out of pending.  Events only go into a
\* channel, without waiting.
Decode ==
    LET i == Head(wire) IN
    /\ reader.at = "decode" /\ wire # <<>>
    /\ wire' = Tail(wire)
    /\ reader' = IF i \in pending THEN [at |-> "handover", id |-> i] ELSE reader
    /\ received' = received \cup {i}
    /\ pending' = pending \ {i}
    /\ UNCHANGED <<exec, nextID, replies, outcome, qemu, asked, conn>>

\* read: the reply goes into the channel of its caller.
Handover ==
    /\ reader.at = "handover"
    /\ replies' = replies \cup {reader.id}
    /\ reader' = [at |-> "decode", id |-> NoID]
    /\ UNCHANGED <<exec, nextID, pending, outcome, qemu, asked, wire, conn, received>>

\* read: the connection has ended, done and the event channel are closed.
ReaderEnds ==
    /\ reader.at = "decode"
    /\ conn = "closed" \/ (qemu = "gone" /\ wire = <<>>)
    /\ reader' = [at |-> "done", id |-> NoID]
    /\ UNCHANGED <<exec, nextID, pending, replies, outcome, qemu, asked, wire, conn, received>>

ReaderDone == reader.at = "done"

-----------------------------------------------------------------------------
(* Execute.                                                                *)

ExecGoto(c, label) == exec' = [exec EXCEPT ![c].at = label]

ExecReturn(c, what) ==
    /\ exec' = [exec EXCEPT ![c] = NotExecuting]
    /\ outcome' = [outcome EXCEPT ![exec[c].id] = what]

ExecUnchanged == UNCHANGED <<qemu, wire, conn, reader, received>>

\* Mutant: an Execute that gives up leaves its id behind.
forgetNot(id) == UNCHANGED pending

forget(id) == pending' = pending \ {id}

\* Execute sees the connection open.
Execute(c) ==
    /\ exec[c].at = "idle" /\ ~ReaderDone
    /\ ExecGoto(c, "register")
    /\ UNCHANGED <<nextID, pending, replies, outcome, asked>> /\ ExecUnchanged

RegisterCommand(c) ==
    /\ exec[c].at = "register" /\ nextID < MaxCommands
    /\ nextID' = nextID + 1
    /\ pending' = pending \cup {nextID'}
    /\ exec' = [exec EXCEPT ![c] = [at |-> "write", id |-> nextID']]
    /\ UNCHANGED <<replies, outcome, asked>> /\ ExecUnchanged

\* The write succeeds while both ends are open, and may run into its deadline.
WriteCommand(c) ==
    LET i == exec[c].id IN
    /\ exec[c].at = "write"
    /\ \/ /\ qemu = "open" /\ conn = "open"
          /\ asked' = asked \cup {i}
          /\ ExecGoto(c, "wait")
          /\ UNCHANGED <<pending, outcome>>
       \/ ExecReturn(c, "write") /\ forget(i) /\ UNCHANGED asked
    /\ UNCHANGED <<nextID, replies>> /\ ExecUnchanged

\* The reply, the caller's context, or the end of the connection.
WaitReply(c) ==
    /\ exec[c].at = "wait" /\ exec[c].id \in replies
    /\ ExecReturn(c, "reply")
    /\ UNCHANGED <<nextID, pending, replies, asked>> /\ ExecUnchanged

WaitContext(c) ==
    /\ exec[c].at = "wait"
    /\ ExecReturn(c, "context") /\ forget(exec[c].id)
    /\ UNCHANGED <<nextID, replies, asked>> /\ ExecUnchanged

\* Mutant: the end of the connection is reported without another look.
ReplyAtEndIgnored(id) == FALSE

\* A reply that came before the end is preferred.
ReplyAtEnd(id) == id \in replies

WaitDone(c) ==
    LET i == exec[c].id IN
    /\ exec[c].at = "wait" /\ ReaderDone
    /\ IF ReplyAtEnd(i) THEN ExecReturn(c, "reply") /\ UNCHANGED pending
       ELSE ExecReturn(c, "closed") /\ forget(i)
    /\ UNCHANGED <<nextID, replies, asked>> /\ ExecUnchanged

\* Close; its wait for the reader changes nothing.
CloseQMP ==
    /\ conn = "open" /\ conn' = "closed"
    /\ UNCHANGED <<exec, nextID, pending, replies, outcome, qemu, asked, wire, reader, received>>

-----------------------------------------------------------------------------
QMPNext ==
    \/ Answer \/ QEMUGone
    \/ Decode \/ Handover \/ ReaderEnds \/ CloseQMP
    \/ \E c \in Caller :
         \/ Execute(c) \/ RegisterCommand(c) \/ WriteCommand(c)
         \/ WaitReply(c) \/ WaitContext(c) \/ WaitDone(c)

QMPSpec == QMPInit /\ [][QMPNext]_qmpVars

-----------------------------------------------------------------------------
(* Properties.                                                             *)

\* A command whose reply the reader got is never reported as cut off by the
\* end of the connection: the acknowledgement of system_powerdown or quit from
\* a QEMU that exits right after it counts.  And whatever ends an Execute, the
\* reply, its context, a failed write or the end of the connection, its id
\* does not stay in pending.
RepliesKept ==
    /\ \A i \in ID : outcome[i] = "closed" => i \notin received
    /\ \A i \in pending : \E c \in Caller : exec[c].id = i
=============================================================================
