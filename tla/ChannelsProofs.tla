--------------------------- MODULE ChannelsProofs ---------------------------
(***************************************************************************)
(* The channels for every number of callers, commands, boots, messages,    *)
(* reports and replies: the QMP connection, the notify listener, the       *)
(* guest's reports and the connection to the storage provider.             *)
(***************************************************************************)
EXTENDS QMP, Notify, Reports, Varlink, TLAPS

-----------------------------------------------------------------------------
(* QMP.                                                                    *)

QMPType ==
  /\ exec \in [Caller -> [at : {"idle", "register", "write", "wait"}, id : ID \cup {NoID}]]
  /\ nextID \in 0..MaxCommands
  /\ pending \subseteq ID /\ replies \subseteq ID /\ asked \subseteq ID /\ received \subseteq ID
  /\ outcome \in [ID -> {"none", "write", "reply", "context", "closed"}]
  /\ wire \in Seq(ID)
  /\ reader \in [at : {"decode", "handover", "done"}, id : ID \cup {NoID}]

\* Ids are counted up: none is in use that has not been given out.
Issued ==
  /\ \A i \in pending \cup replies \cup asked \cup received : i <= nextID
  /\ \A k \in 1..Len(wire) : wire[k] <= nextID
  /\ \A c \in Caller : exec[c].id <= nextID
  /\ reader.id <= nextID

\* The callers that have a command out have one each.
OwnCommand ==
  /\ \A c \in Caller : exec[c].at \in {"write", "wait"} <=> exec[c].id # NoID
  /\ \A c, d \in Caller : exec[c].id = exec[d].id /\ exec[c].id # NoID => c = d

\* The reader hands over a reply whose id it has taken out of pending.
TakenOut ==
  /\ reader.at = "handover" => reader.id # NoID /\ reader.id \notin pending
  /\ replies \cap pending = {}

\* The reply of a command is to come, in the reader's hands, or in the channel.
ReplyTracked ==
  \A c \in Caller :
    LET i == exec[c].id IN
    i # NoID => \/ i \in pending /\ i \notin received
                \/ i \in replies
                \/ reader.at = "handover" /\ reader.id = i

\* What has ended by the end of the connection stays without a reply.
ClosedIsFinal ==
  \A i \in ID : outcome[i] = "closed" => ReaderDone /\ i \notin received

PendingOwned == \A i \in pending : \E c \in Caller : exec[c].id = i

QMPInv ==
  QMPType /\ Issued /\ OwnCommand /\ TakenOut /\ ReplyTracked /\ ClosedIsFinal /\ PendingOwned

\* Execute moves one caller to a label, a new command, or back to idle.
LEMMA ExecSteps ==
  ASSUME QMPType, NEW c \in Caller
  PROVE /\ \A l \in {"idle", "register", "write", "wait"} : ExecGoto(c, l) =>
             /\ exec' \in [Caller -> [at : {"idle", "register", "write", "wait"}, id : ID \cup {NoID}]]
             /\ exec'[c].at = l /\ exec'[c].id = exec[c].id
             /\ \A d \in Caller \ {c} : exec'[d] = exec[d]
        /\ \A what \in {"write", "reply", "context", "closed"} : ExecReturn(c, what) /\ exec[c].id \in ID =>
             /\ exec' \in [Caller -> [at : {"idle", "register", "write", "wait"}, id : ID \cup {NoID}]]
             /\ exec'[c].at = "idle" /\ exec'[c].id = NoID
             /\ \A d \in Caller \ {c} : exec'[d] = exec[d]
             /\ outcome' \in [ID -> {"none", "write", "reply", "context", "closed"}]
             /\ outcome'[exec[c].id] = what
             /\ \A i \in ID \ {exec[c].id} : outcome'[i] = outcome[i]
<1>1. ASSUME NEW l \in {"idle", "register", "write", "wait"}, ExecGoto(c, l)
      PROVE /\ exec' \in [Caller -> [at : {"idle", "register", "write", "wait"}, id : ID \cup {NoID}]]
            /\ exec'[c].at = l /\ exec'[c].id = exec[c].id
            /\ \A d \in Caller \ {c} : exec'[d] = exec[d]
  BY Zenon, <1>1 DEF QMPType, ExecGoto
<1>2. ASSUME NEW what \in {"write", "reply", "context", "closed"}, ExecReturn(c, what), exec[c].id \in ID
      PROVE /\ exec' \in [Caller -> [at : {"idle", "register", "write", "wait"}, id : ID \cup {NoID}]]
            /\ exec'[c].at = "idle" /\ exec'[c].id = NoID
            /\ \A d \in Caller \ {c} : exec'[d] = exec[d]
            /\ outcome' \in [ID -> {"none", "write", "reply", "context", "closed"}]
            /\ outcome'[exec[c].id] = what
            /\ \A i \in ID \ {exec[c].id} : outcome'[i] = outcome[i]
  <2>1. NotExecuting \in [at : {"idle", "register", "write", "wait"}, id : ID \cup {NoID}]
    BY Zenon DEF NotExecuting
  <2> QED BY Zenon, <1>2, <2>1 DEF QMPType, ExecReturn, NotExecuting
<1> QED BY Zenon, <1>1, <1>2

\* QMPInv holds when the connection is up.
LEMMA QMPInvInit == QMPInit => QMPInv
<1> SUFFICES ASSUME QMPInit PROVE QMPInv
  BY Zenon
<1>1. \A c \in Caller : exec[c].at = "idle" /\ exec[c].id = NoID
  BY Zenon DEF QMPInit, NotExecuting
<1>2. QMPType
  <2>1. NotExecuting \in [at : {"idle", "register", "write", "wait"}, id : ID \cup {NoID}]
    BY Zenon DEF NotExecuting
  <2>2. reader \in [at : {"decode", "handover", "done"}, id : ID \cup {NoID}]
    BY Zenon DEF QMPInit
  <2> QED BY <2>1, <2>2, CommandsAssumption DEF QMPInit, QMPType, ID
<1> QED BY <1>1, <1>2
        DEF QMPInit, QMPInv, Issued, OwnCommand, TakenOut, ReplyTracked, ClosedIsFinal, PendingOwned, NoID

\* QEMU and the reader keep QMPInv.
LEMMA QMPReaderStep ==
  ASSUME QMPInv, Answer \/ QEMUGone \/ Decode \/ Handover \/ ReaderEnds \/ CloseQMP
  PROVE QMPInv'
<1> USE DEF QMPInv
<1>1. CASE Answer
  <2>1. PICK i \in asked : /\ asked' = asked \ {i} /\ wire' = Append(wire, i)
                           /\ UNCHANGED <<exec, nextID, pending, replies, outcome, qemu, conn, reader, received>>
    BY Zenon, <1>1 DEF Answer
  <2>2. QMPType'
    BY <2>1 DEF QMPType
  <2>3. \A k \in 1..Len(wire') : wire'[k] <= nextID
    BY <2>1 DEF QMPType, Issued
  <2>4. Issued'
    BY Zenon, <2>1, <2>3 DEF QMPType, Issued
  <2> QED BY Zenon, <2>1, <2>2, <2>4 DEF OwnCommand, TakenOut, ReplyTracked, ClosedIsFinal, PendingOwned, ReaderDone
<1>2. CASE QEMUGone \/ CloseQMP
  BY <1>2 DEF QEMUGone, CloseQMP, QMPType, Issued, OwnCommand, TakenOut, ReplyTracked, ClosedIsFinal,
     PendingOwned, ReaderDone
<1>3. CASE Decode
  <2>1. PICK i \in ID : i = Head(wire) /\ i <= nextID
    BY <1>3 DEF Decode, QMPType, Issued
  <2>2. /\ wire' \in Seq(ID)
        /\ \A k \in 1..Len(wire') : wire'[k] <= nextID
    BY <1>3 DEF Decode, QMPType, Issued
  <2>3. /\ received' = received \cup {i} /\ pending' = pending \ {i}
        /\ reader.at = "decode"
        /\ UNCHANGED <<exec, nextID, replies, outcome, qemu, asked, conn>>
        /\ reader' = IF i \in pending THEN [at |-> "handover", id |-> i] ELSE reader
    BY Zenon, <1>3, <2>1 DEF Decode
  <2>4. /\ reader' \in [at : {"decode", "handover", "done"}, id : ID \cup {NoID}]
        /\ \/ i \in pending /\ reader'.at = "handover" /\ reader'.id = i
           \/ i \notin pending /\ reader' = reader
    BY Zenon, <2>1, <2>3 DEF QMPType
  <2>5. i # NoID
    BY <2>1 DEF ID, NoID
  <2>6. QMPType'
    BY Zenon, <2>1, <2>2, <2>3, <2>4 DEF QMPType
  <2>7. Issued'
    BY Zenon, <2>1, <2>2, <2>3, <2>4 DEF Issued
  <2>8. TakenOut' /\ OwnCommand'
    BY Zenon, <2>3, <2>4, <2>5 DEF TakenOut, OwnCommand
  <2>9. ReplyTracked'
    BY Zenon, <2>3, <2>4 DEF ReplyTracked
  <2>10. ClosedIsFinal' /\ PendingOwned'
    BY Zenon, <2>3, <2>4 DEF ClosedIsFinal, PendingOwned, ReaderDone
  <2> QED BY Zenon, <2>6, <2>7, <2>8, <2>9, <2>10
<1>4. CASE Handover
  <2>1. /\ reader.at = "handover" /\ replies' = replies \cup {reader.id} /\ reader.id \in ID
        /\ UNCHANGED <<exec, nextID, pending, outcome, qemu, asked, wire, conn, received>>
    BY Zenon, <1>4 DEF Handover, QMPType, TakenOut
  <2>2. /\ reader' \in [at : {"decode", "handover", "done"}, id : ID \cup {NoID}]
        /\ reader'.at = "decode" /\ reader'.id = NoID
    BY Zenon, <1>4 DEF Handover
  <2>3. QMPType' /\ Issued'
    BY <2>1, <2>2 DEF QMPType, Issued, NoID
  <2>4. TakenOut' /\ OwnCommand'
    BY <2>1, <2>2 DEF TakenOut, OwnCommand
  <2>5. ReplyTracked'
    BY Zenon, <2>1, <2>2 DEF ReplyTracked
  <2>6. ClosedIsFinal' /\ PendingOwned'
    BY Zenon, <2>1, <2>2 DEF ClosedIsFinal, PendingOwned, ReaderDone
  <2> QED BY Zenon, <2>3, <2>4, <2>5, <2>6
<1>5. CASE ReaderEnds
  <2>1. /\ reader.at = "decode"
        /\ UNCHANGED <<exec, nextID, pending, replies, outcome, qemu, asked, wire, conn, received>>
    BY Zenon, <1>5 DEF ReaderEnds
  <2>2. /\ reader' \in [at : {"decode", "handover", "done"}, id : ID \cup {NoID}]
        /\ reader'.at = "done" /\ reader'.id = NoID
    BY Zenon, <1>5 DEF ReaderEnds
  <2>3. QMPType' /\ Issued'
    BY <2>1, <2>2 DEF QMPType, Issued, NoID
  <2>4. TakenOut' /\ OwnCommand' /\ ReplyTracked' /\ ClosedIsFinal' /\ PendingOwned'
    BY Zenon, <2>1, <2>2 DEF TakenOut, OwnCommand, ReplyTracked, ClosedIsFinal, PendingOwned, ReaderDone
  <2> QED BY Zenon, <2>3, <2>4
<1> QED BY Zenon, <1>1, <1>2, <1>3, <1>4, <1>5

\* A caller that starts, registers or writes a command keeps QMPInv.
LEMMA QMPCommandStep ==
  ASSUME QMPInv, NEW c \in Caller,
         \/ Execute(c) \/ RegisterCommand(c)
         \/ WriteCommand(c) /\ ExecGoto(c, "wait") /\ asked' = asked \cup {exec[c].id} /\ pending' = pending
              /\ outcome' = outcome
  PROVE QMPInv'
<1> USE DEF QMPInv, ExecUnchanged
<1>1. CASE Execute(c)
  <2>1. /\ exec'[c].at = "register" /\ exec'[c].id = exec[c].id /\ exec[c].at = "idle"
        /\ \A d \in Caller \ {c} : exec'[d] = exec[d]
        /\ exec' \in [Caller -> [at : {"idle", "register", "write", "wait"}, id : ID \cup {NoID}]]
    BY Zenon, <1>1, ExecSteps DEF Execute
  <2>2. UNCHANGED <<nextID, pending, replies, outcome, asked, qemu, wire, conn, reader, received>>
    BY Zenon, <1>1 DEF Execute
  <2>3. \A d \in Caller : exec'[d].id = exec[d].id
    BY Zenon, <2>1
  <2>4. OwnCommand'
    BY <2>1, <2>3 DEF OwnCommand
  <2> QED BY <2>1, <2>2, <2>3, <2>4
          DEF QMPType, Issued, TakenOut, ReplyTracked, ClosedIsFinal, PendingOwned, ReaderDone
<1>2. CASE RegisterCommand(c)
  <2>1. PICK i \in ID : i = nextID + 1
    BY <1>2, CommandsAssumption DEF RegisterCommand, QMPType, ID
  <2>2. [at |-> "write", id |-> i] \in [at : {"idle", "register", "write", "wait"}, id : ID \cup {NoID}]
    BY Zenon, <2>1
  <2>3. /\ exec' \in [Caller -> [at : {"idle", "register", "write", "wait"}, id : ID \cup {NoID}]]
        /\ exec'[c].at = "write" /\ exec'[c].id = i
        /\ \A d \in Caller \ {c} : exec'[d] = exec[d]
    BY Zenon, <1>2, <2>1, <2>2 DEF RegisterCommand, QMPType
  <2>4. /\ nextID' = i /\ pending' = pending \cup {i}
        /\ UNCHANGED <<replies, outcome, asked, qemu, wire, conn, reader, received>>
    BY Zenon, <1>2, <2>1 DEF RegisterCommand
  <2>5. /\ i \notin pending \cup replies \cup received /\ i # NoID /\ i # reader.id
        /\ \A d \in Caller : exec[d].id # i
    BY <2>1 DEF QMPType, Issued, ID, NoID
  <2>6. nextID \in Nat /\ i = nextID + 1
    BY <2>1 DEF QMPType
  <2>7. QMPType'
    BY <2>1, <2>3, <2>4 DEF QMPType, ID
  <2>8. Issued'
    <3>1. \A j \in ID \cup {NoID} : j <= nextID => j <= i
      BY <2>6 DEF ID, NoID
    <3>2. \A k \in 1..Len(wire) : wire[k] <= i
      BY <3>1 DEF QMPType, Issued
    <3>3. \A d \in Caller : exec'[d].id <= i
      <4>1. i <= i
        BY <2>1 DEF ID
      <4>2. \A d \in Caller \ {c} : exec[d].id <= i
        BY Zenon, <3>1 DEF QMPType, Issued
      <4> QED BY Zenon, <2>3, <4>1, <4>2
    <3>4. \A j \in pending' \cup replies \cup asked \cup received : j <= i
      BY <2>1, <2>4, <3>1 DEF QMPType, Issued, ID
    <3>5. reader.id <= i
      BY Zenon, <3>1 DEF QMPType, Issued
    <3> QED BY Zenon, <2>4, <3>2, <3>3, <3>4, <3>5 DEF Issued
  <2>9. OwnCommand'
    BY <2>3, <2>5 DEF OwnCommand
  <2>10. TakenOut' /\ ClosedIsFinal'
    BY Zenon, <2>4, <2>5 DEF TakenOut, ClosedIsFinal, ReaderDone
  <2>11. ReplyTracked'
    BY Zenon, <2>3, <2>4, <2>5 DEF ReplyTracked
  <2>12. PendingOwned'
    <3>1. exec[c].id = NoID
      BY Zenon, <1>2 DEF RegisterCommand, OwnCommand
    <3>2. NoID \notin pending
      BY DEF QMPType, ID, NoID
    <3> QED BY <2>3, <2>4, <3>1, <3>2 DEF PendingOwned
  <2> QED BY Zenon, <2>7, <2>8, <2>9, <2>10, <2>11, <2>12
<1>3. CASE WriteCommand(c) /\ ExecGoto(c, "wait") /\ asked' = asked \cup {exec[c].id} /\ pending' = pending
             /\ outcome' = outcome
  <2>1. /\ exec'[c].at = "wait" /\ exec'[c].id = exec[c].id /\ exec[c].at = "write"
        /\ \A d \in Caller \ {c} : exec'[d] = exec[d]
        /\ exec' \in [Caller -> [at : {"idle", "register", "write", "wait"}, id : ID \cup {NoID}]]
    BY Zenon, <1>3, ExecSteps DEF WriteCommand
  <2>2. UNCHANGED <<nextID, pending, replies, outcome, qemu, wire, conn, reader, received>>
    BY Zenon, <1>3 DEF WriteCommand
  <2>3. \A d \in Caller : exec'[d].id = exec[d].id
    BY Zenon, <2>1
  <2>4. OwnCommand'
    BY <2>1, <2>3 DEF OwnCommand
  <2>5. exec[c].id \in ID
    BY Zenon, <2>1 DEF OwnCommand, QMPType
  <2>6. QMPType' /\ Issued'
    <3>1. QMPType'
      BY Zenon, <1>3, <2>1, <2>2, <2>5 DEF QMPType
    <3>2. Issued'
      <4>1. exec[c].id <= nextID /\ \A i \in asked : i <= nextID
        BY Zenon DEF Issued
      <4>2. \A i \in pending' \cup replies' \cup asked' \cup received' : i <= nextID
        BY Zenon, <1>3, <2>2, <4>1 DEF Issued
      <4> QED BY Zenon, <2>2, <2>3, <4>2 DEF Issued
    <3> QED BY Zenon, <3>1, <3>2
  <2>7. TakenOut' /\ ClosedIsFinal'
    BY Zenon, <2>2 DEF TakenOut, ClosedIsFinal, ReaderDone
  <2>8. ReplyTracked'
    BY Zenon, <2>2, <2>3 DEF ReplyTracked
  <2>9. PendingOwned'
    BY Zenon, <2>2, <2>3 DEF PendingOwned
  <2> QED BY Zenon, <2>4, <2>6, <2>7, <2>8, <2>9
<1> QED BY Zenon, <1>1, <1>2, <1>3

\* However Execute ends, QMPInv is kept: the command's id is in no one's hands
\* any more, and "closed" is only said of a reply that never came.
LEMMA QMPReturnStep ==
  ASSUME QMPInv, NEW c \in Caller, NEW what \in {"write", "reply", "context", "closed"},
         exec[c].at \in {"write", "wait"}, ExecReturn(c, what),
         forget(exec[c].id) \/ (exec[c].id \in replies /\ UNCHANGED pending),
         what = "closed" => ReaderDone /\ exec[c].id \notin replies,
         UNCHANGED <<nextID, replies, asked>>, ExecUnchanged
  PROVE QMPInv'
<1> USE DEF QMPInv, ExecUnchanged
<1>1. PICK i \in ID : i = exec[c].id /\ i # NoID
  BY Zenon DEF OwnCommand, QMPType
<1>2. /\ exec' \in [Caller -> [at : {"idle", "register", "write", "wait"}, id : ID \cup {NoID}]]
      /\ exec'[c].at = "idle" /\ exec'[c].id = NoID
      /\ \A d \in Caller \ {c} : exec'[d] = exec[d]
      /\ outcome' \in [ID -> {"none", "write", "reply", "context", "closed"}]
      /\ outcome'[i] = what
      /\ \A j \in ID \ {i} : outcome'[j] = outcome[j]
  BY Zenon, <1>1, ExecSteps
<1>3. pending' = pending \ {i}
  BY Zenon, <1>1 DEF forget, TakenOut
<1>4. \A d \in Caller \ {c} : exec[d].id # i
  BY Zenon, <1>1 DEF OwnCommand
<1>5. QMPType' /\ Issued'
  BY <1>2, <1>3 DEF QMPType, Issued, NoID
<1>6. OwnCommand' /\ TakenOut'
  <2>1. \A d \in Caller : exec'[d].at \in {"write", "wait"} <=> exec'[d].id # NoID
    <3> SUFFICES ASSUME NEW d \in Caller
                 PROVE  exec'[d].at \in {"write", "wait"} <=> exec'[d].id # NoID
      BY Zenon
    <3>1. CASE d = c
      BY Zenon, <1>2, <3>1
    <3>2. CASE d # c
      BY Zenon, <1>2, <3>2 DEF OwnCommand
    <3> QED BY Zenon, <3>1, <3>2
  <2>2. \A d, e \in Caller : exec'[d].id = exec'[e].id /\ exec'[d].id # NoID => d = e
    <3> SUFFICES ASSUME NEW d \in Caller, NEW e \in Caller, exec'[d].id = exec'[e].id,
                        exec'[d].id # NoID
                 PROVE  d = e
      BY Zenon
    <3>1. d # c /\ e # c
      BY Zenon, <1>2
    <3>2. exec'[d] = exec[d] /\ exec'[e] = exec[e]
      BY Zenon, <1>2, <3>1
    <3> QED BY Zenon, <3>2 DEF OwnCommand
  <2>3. TakenOut'
    BY Zenon, <1>3 DEF TakenOut
  <2> QED BY Zenon, <2>1, <2>2, <2>3 DEF OwnCommand
<1>7. ReplyTracked'
  <2> SUFFICES ASSUME NEW d \in Caller, exec'[d].id # NoID
               PROVE  \/ exec'[d].id \in pending' /\ exec'[d].id \notin received'
                      \/ exec'[d].id \in replies'
                      \/ reader'.at = "handover" /\ reader'.id = exec'[d].id
    BY Zenon DEF ReplyTracked
  <2>1. d # c /\ exec'[d] = exec[d] /\ exec[d].id # i
    BY Zenon, <1>2, <1>4
  <2>2. \/ exec[d].id \in pending /\ exec[d].id \notin received
        \/ exec[d].id \in replies
        \/ reader.at = "handover" /\ reader.id = exec[d].id
    BY Zenon, <2>1 DEF ReplyTracked
  <2> QED BY Zenon, <1>3, <2>1, <2>2
<1>8. what = "closed" => i \notin received
  BY Zenon, <1>1 DEF ReplyTracked, ReaderDone
<1>9. ClosedIsFinal'
  BY Zenon, <1>2, <1>8 DEF ClosedIsFinal, ReaderDone
<1>10. PendingOwned'
  <2> SUFFICES ASSUME NEW j \in pending, j # i PROVE \E d \in Caller : exec'[d].id = j
    BY Zenon, <1>3 DEF PendingOwned
  <2>1. PICK d \in Caller : exec[d].id = j
    BY Zenon DEF PendingOwned
  <2>2. exec'[d] = exec[d]
    BY Zenon, <1>1, <1>2, <2>1
  <2> QED BY Zenon, <2>1, <2>2
<1> QED BY Zenon, <1>5, <1>6, <1>7, <1>9, <1>10

\* Every step keeps QMPInv.
LEMMA QMPInvStep == QMPInv /\ [QMPNext]_qmpVars => QMPInv'
<1> SUFFICES ASSUME QMPInv, [QMPNext]_qmpVars PROVE QMPInv'
  BY Zenon
<1>1. CASE UNCHANGED qmpVars
  BY Zenon, <1>1 DEF qmpVars, QMPInv, QMPType, Issued, OwnCommand, TakenOut, ReplyTracked, ClosedIsFinal,
     PendingOwned, ReaderDone
<1>2. CASE Answer \/ QEMUGone \/ Decode \/ Handover \/ ReaderEnds \/ CloseQMP
  BY Zenon, <1>2, QMPReaderStep
<1>3. ASSUME NEW c \in Caller,
             \/ Execute(c) \/ RegisterCommand(c) \/ WriteCommand(c)
             \/ WaitReply(c) \/ WaitContext(c) \/ WaitDone(c)
      PROVE QMPInv'
  <2>1. CASE Execute(c) \/ RegisterCommand(c)
    BY Zenon, <2>1, QMPCommandStep
  <2>2. CASE WriteCommand(c)
    BY Zenon, <2>2, QMPCommandStep, QMPReturnStep DEF WriteCommand
  <2>3. CASE WaitReply(c)
    BY Zenon, <2>3, QMPReturnStep DEF WaitReply
  <2>4. CASE WaitContext(c)
    BY Zenon, <2>4, QMPReturnStep DEF WaitContext
  <2>5. CASE WaitDone(c)
    BY Zenon, <2>5, QMPReturnStep DEF WaitDone, ReplyAtEnd
  <2> QED BY Zenon, <1>3, <2>1, <2>2, <2>3, <2>4, <2>5
<1> QED BY Zenon, <1>1, <1>2, <1>3 DEF QMPNext

\* A reply that the reader got is never reported as the end of the connection,
\* and no id outlives its Execute, for any number of callers and commands.
THEOREM AcknowledgementsCount == QMPSpec => []RepliesKept
<1>1. QMPInv => RepliesKept
  BY Zenon DEF QMPInv, ClosedIsFinal, PendingOwned, RepliesKept
<1> QED BY <1>1, QMPInvInit, QMPInvStep, PTL DEF QMPSpec

-----------------------------------------------------------------------------
(* The notify listener.                                                    *)

RunRecord ==
  [at : {"new", "up", "exited", "over"}, cid : Peer \cup {NoRun}, chan : Run \cup {NoRun}]

Connection == [from : Run, cid : Peer, read : BOOLEAN, nr : Nat]

NotifyType ==
  /\ run \in [Run -> RunRecord] /\ chan \in [Peer -> Run \cup {NoRun}]
  /\ inbox \in [Run -> Seq(Run)] /\ conns \subseteq Connection
  /\ heard \in [Run -> SUBSET Run] /\ between \in [Run -> SUBSET Run]
  /\ messages \in Nat

\* A boot holds its CID from its subscription to onExit.
Holds(r, c) == run[r].at \in {"up", "exited"} /\ run[r].cid = c

\* A CID has one holder, which made the channel it reads.
OneHolder ==
  /\ \A r \in Run : run[r].at \in {"up", "exited"} => run[r].chan = r /\ run[r].cid \in Peer
  /\ \A c \in Peer : \A q, r \in Run : Holds(q, c) /\ Holds(r, c) => q = r

\* A channel in the table is open and its CID's holder's.
ChannelHeld == \A c \in Peer : chan[c] # NoRun => Holds(chan[c], c) /\ chan[c] \in open

\* What is on its way to a channel, in it or out of it is of its run, or of
\* one that had a connection open when that run subscribed.
Mine(r) == {r} \cup between[r]

SentByHolder ==
  /\ \A m \in conns : chan[m.cid] # NoRun => m.from \in Mine(chan[m.cid])
  /\ \A r \in Run : \A k \in 1..Len(inbox[r]) : inbox[r][k] \in Mine(r)
  /\ \A r \in Run : heard[r] \subseteq Mine(r)
  /\ \A r \in Run : run[r].at = "new" => inbox[r] = <<>> /\ heard[r] = {}

NotifyInv == NotifyType /\ OneHolder /\ ChannelHeld /\ SentByHolder /\ ~panicked

\* No run has the name of no run.
LEMMA NoRunIsNone == NoRun \notin Run
  BY DEF NoRun, Run

\* NotifyInv holds before the first boot.
LEMMA NotifyInvInit == NotifyInit => NotifyInv
<1> SUFFICES ASSUME NotifyInit PROVE NotifyInv
  BY Zenon
<1>1. [at |-> "new", cid |-> NoRun, chan |-> NoRun] \in RunRecord
  BY Zenon DEF RunRecord
<1>2. NotifyType
  BY <1>1 DEF NotifyInit, NotifyType
<1>3. \A r \in Run : run[r].at = "new"
  BY Zenon DEF NotifyInit
<1> QED BY <1>2, <1>3 DEF NotifyInit, NotifyInv, OneHolder, ChannelHeld, SentByHolder, Holds

\* A boot that subscribes keeps NotifyInv.
LEMMA BeginRunStep ==
  ASSUME NotifyInv, NEW r \in Run, NEW c \in Peer, BeginRun(r, c)
  PROVE NotifyInv'
<1> USE DEF NotifyInv
<1>1. chan[c] = NoRun /\ run[r].at = "new"
  <2>1. run[r].at = "new" /\ \A q \in Run : run[q].at \in {"up", "exited"} => run[q].cid # c
    BY Zenon DEF BeginRun
  <2>2. chan[c] \in Run \cup {NoRun} /\ (chan[c] # NoRun => Holds(chan[c], c))
    BY Zenon DEF NotifyType, ChannelHeld
  <2> QED BY Zenon, <2>1, <2>2 DEF Holds
<1>2. /\ chan' = [chan EXCEPT ![c] = r] /\ open' = open \cup {r}
      /\ run' = [run EXCEPT ![r] = [at |-> "up", cid |-> c, chan |-> r]]
      /\ between' = [between EXCEPT ![r] = {m.from : m \in conns}]
      /\ UNCHANGED <<inbox, conns, heard, listener, panicked, messages>>
  BY Zenon, <1>1 DEF BeginRun, SubscribeCID
<1>3. /\ run' \in [Run -> RunRecord]
      /\ run'[r].at = "up" /\ run'[r].cid = c /\ run'[r].chan = r
      /\ \A q \in Run \ {r} : run'[q] = run[q]
  <2>1. [at |-> "up", cid |-> c, chan |-> r] \in RunRecord
    BY Zenon DEF RunRecord
  <2> QED BY Zenon, <1>2, <2>1 DEF NotifyType
<1>4. chan'[c] = r /\ \A d \in Peer \ {c} : chan'[d] = chan[d] /\ chan[d] # r
  BY Zenon, <1>1, <1>2, NoRunIsNone DEF NotifyType, ChannelHeld, Holds
<1>5. {m.from : m \in conns} \subseteq Run
  BY Zenon DEF NotifyType, Connection
<1>6. between'[r] = {m.from : m \in conns} /\ \A q \in Run \ {r} : between'[q] = between[q]
  BY Zenon, <1>2 DEF NotifyType
<1>7. NotifyType'
  BY Zenon, <1>2, <1>3, <1>5 DEF NotifyType
<1>8. OneHolder'
  BY <1>3 DEF OneHolder, Holds, BeginRun
<1>9. ChannelHeld'
  BY <1>2, <1>3, <1>4 DEF ChannelHeld, Holds, NotifyType
<1>10. SentByHolder'
  <2>1. \A m \in conns : chan'[m.cid] # NoRun => m.from \in {chan'[m.cid]} \cup between'[chan'[m.cid]]
    <3> SUFFICES ASSUME NEW m \in conns, chan'[m.cid] # NoRun
                 PROVE m.from \in {chan'[m.cid]} \cup between'[chan'[m.cid]]
      BY Zenon
    <3>1. CASE m.cid = c
      BY Zenon, <3>1, <1>4, <1>6
    <3>2. CASE m.cid # c
      <4>1. m.cid \in Peer
        BY Zenon DEF NotifyType, Connection
      <4>2. chan'[m.cid] = chan[m.cid] /\ chan[m.cid] \in Run \ {r}
        BY Zenon, <3>2, <4>1, <1>4 DEF NotifyType
      <4> QED BY <4>2, <1>6 DEF SentByHolder, Mine
    <3> QED BY Zenon, <3>1, <3>2
  <2>2. \A q \in Run : \A k \in 1..Len(inbox[q]) : inbox[q][k] \in Mine(q)'
    <3>1. \A k \in 1..Len(inbox[r]) : FALSE
      BY <1>1 DEF SentByHolder
    <3> QED BY Zenon, <3>1, <1>6 DEF SentByHolder, Mine
  <2>3. \A q \in Run : heard[q] \subseteq Mine(q)'
    BY Zenon, <1>1, <1>6 DEF SentByHolder, Mine
  <2>4. \A q \in Run : run'[q].at = "new" => inbox[q] = <<>> /\ heard[q] = {}
    BY Zenon, <1>3 DEF SentByHolder
  <2> QED BY Zenon, <1>2, <2>1, <2>2, <2>3, <2>4 DEF SentByHolder, Mine
<1> QED BY Zenon, <1>2, <1>7, <1>8, <1>9, <1>10

\* A guest that sends, and a supervisor that reads, keep NotifyInv.
LEMMA GuestTalksStep ==
  ASSUME NotifyInv, NEW r \in Run, ConnectGuest(r) \/ ReadNotify(r)
  PROVE NotifyInv'
<1> USE DEF NotifyInv
<1>1. CASE ConnectGuest(r)
  <2>1. PICK m \in Connection : m = [from |-> r, cid |-> run[r].cid, read |-> FALSE, nr |-> messages]
    BY Zenon, <1>1 DEF ConnectGuest, NotifyType, OneHolder, Connection
  <2>2. m.from = r /\ m.cid = run[r].cid /\ m.cid \in Peer
    BY Zenon, <2>1 DEF Connection
  <2>3. /\ conns' = conns \cup {m} /\ messages' = messages + 1
        /\ UNCHANGED <<run, chan, open, inbox, heard, between, listener, panicked>>
    BY Zenon, <1>1, <2>1 DEF ConnectGuest
  <2>4. chan[m.cid] # NoRun => chan[m.cid] = r
    <3>1. Holds(r, m.cid)
      BY Zenon, <1>1, <2>2 DEF ConnectGuest, Holds
    <3> QED BY <2>2, <3>1 DEF ChannelHeld, OneHolder, NotifyType
  <2>5. NotifyType'
    BY <2>3 DEF NotifyType
  <2>6. OneHolder' /\ ChannelHeld'
    BY <2>3 DEF OneHolder, ChannelHeld, Holds
  <2>7. SentByHolder'
    BY Zenon, <2>2, <2>3, <2>4 DEF SentByHolder, Mine
  <2> QED BY Zenon, <2>3, <2>5, <2>6, <2>7
<1>2. CASE ReadNotify(r)
  <2>1. run[r].chan = r /\ run[r].at = "up"
    BY Zenon, <1>2 DEF ReadNotify, OneHolder
  <2>2. /\ inbox[r] # <<>>
        /\ heard' = [heard EXCEPT ![r] = heard[r] \cup {Head(inbox[r])}]
        /\ inbox' = [inbox EXCEPT ![r] = Tail(inbox[r])]
        /\ UNCHANGED <<run, chan, open, conns, between, listener, panicked, messages>>
    BY Zenon, <1>2, <2>1 DEF ReadNotify
  <2>3. PICK q \in Seq(Run) : q = inbox[r] /\ q # <<>> /\ \A k \in 1..Len(q) : q[k] \in Mine(r)
    BY Zenon, <2>2 DEF NotifyType, SentByHolder
  <2>4. Head(q) \in Run /\ Head(q) \in Mine(r) /\ Tail(q) \in Seq(Run)
    BY <2>3
  <2>5. \A k \in 1..Len(Tail(q)) : Tail(q)[k] \in Mine(r)
    BY <2>3
  <2>6. inbox'[r] = Tail(q) /\ heard'[r] = heard[r] \cup {Head(q)}
        /\ \A s \in Run \ {r} : inbox'[s] = inbox[s] /\ heard'[s] = heard[s]
    BY Zenon, <2>2, <2>3 DEF NotifyType
  <2>7. NotifyType'
    BY Zenon, <2>2, <2>3, <2>4 DEF NotifyType
  <2>8. OneHolder' /\ ChannelHeld'
    BY <2>2 DEF OneHolder, ChannelHeld, Holds
  <2>9. \A s \in Run : Mine(s)' = Mine(s)
    BY Zenon, <2>2 DEF Mine
  <2>10. \A m \in conns : chan[m.cid] # NoRun => m.from \in Mine(chan[m.cid])'
    BY Zenon, <2>2 DEF SentByHolder, Mine
  <2>11. SentByHolder'
    BY <2>1, <2>2, <2>4, <2>5, <2>6, <2>9, <2>10 DEF SentByHolder
  <2> QED BY Zenon, <2>2, <2>7, <2>8, <2>11
<1> QED BY Zenon, <1>1, <1>2

\* A handler that reads or delivers a message keeps NotifyInv: it never finds
\* a closed channel in the table.
LEMMA HandlerStep ==
  ASSUME NotifyInv, NEW m \in conns, ReadMessage(m) \/ Deliver(m)
  PROVE NotifyInv'
<1> USE DEF NotifyInv
<1>1. m \in Connection /\ m.cid \in Peer /\ m.from \in Run
  BY Zenon DEF NotifyType, Connection
<1>2. CASE ReadMessage(m)
  <2>1. PICK d \in Connection : d = [m EXCEPT !.read = TRUE]
    BY Zenon, <1>1 DEF Connection
  <2>2. d.from = m.from /\ d.cid = m.cid
    BY Zenon, <1>1, <2>1 DEF Connection
  <2>3. /\ conns' = (conns \ {m}) \cup {d} \/ conns' = conns \ {m}
        /\ UNCHANGED <<run, chan, open, inbox, heard, between, listener, panicked, messages>>
    BY Zenon, <1>2, <2>1 DEF ReadMessage
  <2>4. NotifyType' /\ OneHolder' /\ ChannelHeld'
    BY <2>3 DEF NotifyType, OneHolder, ChannelHeld, Holds
  <2>5. SentByHolder'
    <3>1. chan[d.cid] # NoRun => d.from \in Mine(chan[d.cid])
      BY Zenon, <2>2 DEF SentByHolder
    <3>2. \A e \in conns' : e \in conns \/ e = d
      BY Zenon, <2>3
    <3>3. \A e \in conns' : chan[e.cid] # NoRun => e.from \in Mine(chan[e.cid])
      BY Zenon, <3>1, <3>2 DEF SentByHolder
    <3> QED BY Zenon, <2>3, <3>3 DEF SentByHolder, Mine
  <2> QED BY Zenon, <2>3, <2>4, <2>5
<1>3. CASE Deliver(m)
  <2>1. PICK ch \in Run \cup {NoRun} : ch = chan[m.cid]
    BY Zenon, <1>1 DEF NotifyType
  <2>2. /\ conns' = conns \ {m}
        /\ panicked' = (panicked \/ (ch # NoRun /\ ch \notin open))
        /\ inbox' = IF ch = NoRun \/ Len(inbox[ch]) = notifyBuffer THEN inbox
                    ELSE [inbox EXCEPT ![ch] = Append(inbox[ch], m.from)]
        /\ UNCHANGED <<run, chan, open, heard, between, listener, messages>>
    BY Zenon, <1>3, <2>1 DEF Deliver
  <2>3. ch # NoRun => ch \in open /\ run[ch].at \in {"up", "exited"}
    BY Zenon, <1>1, <2>1 DEF ChannelHeld, Holds
  <2>4. ~panicked'
    BY Zenon, <2>2, <2>3
  <2>5. OneHolder' /\ ChannelHeld'
    <3>1. \A q, d : Holds(q, d)' <=> Holds(q, d)
      BY Zenon, <2>2 DEF Holds
    <3>2. OneHolder'
      BY Zenon, <1>1, <2>2, <3>1 DEF OneHolder
    <3>3. ChannelHeld'
      BY Zenon, <1>1, <2>2, <3>1 DEF ChannelHeld
    <3> QED BY Zenon, <3>2, <3>3
  <2>6. CASE inbox' = inbox
    BY Zenon, <2>2, <2>4, <2>5, <2>6 DEF NotifyType, SentByHolder, Mine
  <2>7. CASE ch # NoRun /\ inbox' = [inbox EXCEPT ![ch] = Append(inbox[ch], m.from)]
    <3>1. PICK q \in Seq(Run) : q = inbox[ch] /\ \A k \in 1..Len(q) : q[k] \in Mine(ch)
      BY Zenon, <2>1, <2>7 DEF NotifyType, SentByHolder
    <3>2. m.from \in Mine(ch)
      BY Zenon, <2>1, <2>7 DEF SentByHolder
    <3>3. /\ Append(q, m.from) \in Seq(Run)
          /\ \A k \in 1..Len(Append(q, m.from)) : Append(q, m.from)[k] \in Mine(ch)
      BY <1>1, <3>1, <3>2
    <3>4. inbox'[ch] = Append(q, m.from) /\ \A s \in Run \ {ch} : inbox'[s] = inbox[s]
      BY Zenon, <2>1, <2>7, <3>1 DEF NotifyType
    <3>5. NotifyType'
      BY <2>1, <2>2, <2>7, <3>1, <3>3 DEF NotifyType
    <3>6. \A s \in Run : Mine(s)' = Mine(s)
      BY Zenon, <2>2 DEF Mine
    <3>7. \A d \in conns : chan[d.cid] # NoRun => d.from \in Mine(chan[d.cid])'
      BY Zenon, <2>2 DEF SentByHolder, Mine
    <3>8. SentByHolder'
      BY <2>2, <2>3, <2>7, <3>3, <3>4, <3>6, <3>7 DEF SentByHolder
    <3> QED BY Zenon, <2>4, <2>5, <3>5, <3>8
  <2> QED BY Zenon, <2>2, <2>6, <2>7
<1> QED BY Zenon, <1>2, <1>3

\* A boot that ends takes its channel out of the table before it closes it.
LEMMA RunOverStep ==
  ASSUME NotifyInv, NEW r \in Run, EndRun(r) \/ LeaveRun(r)
  PROVE NotifyInv'
<1> USE DEF NotifyInv
<1>1. CASE EndRun(r)
  <2>1. /\ run' \in [Run -> RunRecord]
        /\ run[r].at = "up" /\ run'[r].at = "exited" /\ run'[r].cid = run[r].cid /\ run'[r].chan = run[r].chan
        /\ \A q \in Run \ {r} : run'[q] = run[q]
    BY Zenon, <1>1 DEF EndRun, NotifyType, RunRecord
  <2>2. UNCHANGED <<chan, open, inbox, conns, heard, between, listener, panicked, messages>>
    BY Zenon, <1>1 DEF EndRun
  <2>3. \A q \in Run : \A c : Holds(q, c)' <=> Holds(q, c)
    BY Zenon, <2>1 DEF Holds
  <2>4. NotifyType' /\ OneHolder'
    BY Zenon, <2>1, <2>2, <2>3 DEF NotifyType, OneHolder
  <2>5. ChannelHeld'
    <3> SUFFICES ASSUME NEW c \in Peer, chan[c] # NoRun PROVE Holds(chan[c], c)' /\ chan[c] \in open
      BY Zenon, <2>2 DEF ChannelHeld, Holds
    <3>1. chan[c] \in Run /\ Holds(chan[c], c) /\ chan[c] \in open
      BY Zenon DEF NotifyType, ChannelHeld
    <3> QED BY Zenon, <2>2, <2>3, <3>1 DEF Holds
  <2>6. SentByHolder'
    BY Zenon, <2>1, <2>2 DEF SentByHolder, Mine
  <2> QED BY Zenon, <2>2, <2>4, <2>5, <2>6
<1>2. CASE LeaveRun(r)
  <2>1. PICK c \in Peer : c = run[r].cid /\ Holds(r, c)
    BY Zenon, <1>2 DEF LeaveRun, OneHolder, Holds
  <2>2. /\ run' \in [Run -> RunRecord] /\ run'[r].at = "over"
        /\ \A q \in Run \ {r} : run'[q] = run[q]
    BY Zenon, ZenonT(30), <1>2 DEF LeaveRun, NotifyType, RunRecord
  <2>3. /\ chan' = [chan EXCEPT ![c] = NoRun] /\ open' = open \ {chan[c]}
        /\ UNCHANGED <<inbox, conns, heard, between, listener, panicked, messages>>
    BY Zenon, <1>2, <2>1 DEF LeaveRun, UnsubscribeCID
  <2>4. chan[c] \in {NoRun, r}
    BY Zenon, <2>1 DEF ChannelHeld, OneHolder, NotifyType
  <2>5. chan'[c] = NoRun /\ \A d \in Peer \ {c} : chan'[d] = chan[d]
    BY Zenon, <2>3 DEF NotifyType
  <2>6. \A d \in Peer \ {c} : chan[d] # NoRun => chan[d] \in Run \ {r}
    BY Zenon, <2>1 DEF ChannelHeld, Holds, NotifyType
  <2>7. NotifyType'
    BY Zenon, <2>2, <2>3 DEF NotifyType
  <2>8. OneHolder'
    <3>1. \A q \in Run : run'[q].at \in {"up", "exited"} => q # r /\ run'[q] = run[q]
      BY Zenon, <2>2
    <3>2. \A q \in Run, d \in Peer : Holds(q, d)' => Holds(q, d)
      BY Zenon, <3>1 DEF Holds
    <3> QED BY Zenon, <3>1, <3>2 DEF OneHolder
  <2>9. ChannelHeld'
    <3>1. \A d \in Peer : chan'[d] # NoRun => d # c /\ chan'[d] = chan[d] /\ chan[d] \in Run \ {r}
      BY Zenon, <2>5, <2>6
    <3>2. \A d \in Peer : chan'[d] # NoRun => chan'[d] \in open'
      BY <2>3, <2>4, <3>1 DEF ChannelHeld
    <3>3. \A d \in Peer : chan'[d] # NoRun => run'[chan'[d]] = run[chan[d]]
      BY Zenon, <2>2, <3>1
    <3> QED BY Zenon, <3>1, <3>2, <3>3 DEF ChannelHeld, Holds
  <2>10. \A m \in conns : chan'[m.cid] # NoRun => chan'[m.cid] = chan[m.cid]
    BY Zenon, <2>5 DEF NotifyType, Connection
  <2>11. SentByHolder'
    BY Zenon, <2>2, <2>3, <2>10 DEF SentByHolder, Mine
  <2> QED BY Zenon, <2>3, <2>7, <2>8, <2>9, <2>11
<1> QED BY Zenon, <1>1, <1>2

\* Every step keeps NotifyInv.
LEMMA NotifyInvStep == NotifyInv /\ [NotifyNext]_notifyVars => NotifyInv'
<1> SUFFICES ASSUME NotifyInv, [NotifyNext]_notifyVars PROVE NotifyInv'
  BY Zenon
<1>1. CASE UNCHANGED notifyVars \/ CloseListener
  <2>1. UNCHANGED <<run, chan, open, inbox, conns, heard, between, panicked, messages>>
    BY Zenon, <1>1 DEF notifyVars, CloseListener
  <2>2. NotifyType' /\ OneHolder' /\ ChannelHeld'
    BY <2>1 DEF NotifyInv, NotifyType, OneHolder, ChannelHeld, Holds
  <2>3. SentByHolder'
    BY Zenon, <2>1 DEF NotifyInv, SentByHolder, Mine
  <2> QED BY Zenon, <2>1, <2>2, <2>3 DEF NotifyInv
<1>2. CASE CloseChannels
  <2>1. \A c \in Peer : chan'[c] = NoRun
    BY Zenon, <1>2 DEF CloseChannels
  <2>2. UNCHANGED <<run, inbox, conns, heard, between, panicked, messages>>
    BY Zenon, <1>2 DEF CloseChannels
  <2>3. chan' \in [Peer -> Run \cup {NoRun}]
    BY Zenon, <1>2 DEF CloseChannels
  <2>4. NotifyType' /\ OneHolder' /\ ChannelHeld'
    BY <2>1, <2>2, <2>3 DEF NotifyInv, NotifyType, OneHolder, ChannelHeld, Holds
  <2>5. \A m \in conns : m.cid \in Peer
    BY Zenon DEF NotifyInv, NotifyType, Connection
  <2>6. SentByHolder'
    BY Zenon, <2>1, <2>2, <2>5 DEF NotifyInv, SentByHolder, Mine
  <2> QED BY Zenon, <2>2, <2>4, <2>6 DEF NotifyInv
<1>3. CASE \E r \in Run : \/ \E c \in Peer : BeginRun(r, c)
                         \/ ConnectGuest(r) \/ ReadNotify(r) \/ EndRun(r) \/ LeaveRun(r)
  BY Zenon, <1>3, BeginRunStep, GuestTalksStep, RunOverStep
<1>4. CASE \E m \in conns : ReadMessage(m) \/ Deliver(m)
  BY Zenon, <1>4, HandlerStep
<1> QED BY Zenon, <1>1, <1>2, <1>3, <1>4 DEF NotifyNext

\* A supervisor hears its own boot, or one that was still being read when it
\* subscribed, and no handler sends on a closed channel, for any number of
\* boots, CIDs and messages and any buffer.
THEOREM NotificationsAreOwn == NotifySpec => []ReadyIsOwn
<1>1. NotifyInv => ReadyIsOwn
  BY Zenon DEF NotifyInv, SentByHolder, Mine, ReadyIsOwn
<1> QED BY <1>1, NotifyInvInit, NotifyInvStep, PTL DEF NotifySpec

-----------------------------------------------------------------------------
(* The guest's reports.                                                    *)

AnyReport == Report \cup {NoReport}

ReportsType ==
  /\ upload \in [Report -> {"none", "kept", "done"}] /\ parses \subseteq Report
  /\ stored \in AnyReport /\ summary \in AnyReport /\ raw \subseteq AnyReport
  /\ unsettled \in BOOLEAN

\* Reports are stored in the order in which they come, and read no earlier.
InOrder ==
  /\ reportFile = stored
  /\ \A u \in Report : u <= stored <=> upload[u] # "none"
  /\ \A r \in raw : r <= stored

\* Until uploads overlap, only the last one may wait for its export, and the
\* summary is of the last exported report that parses.
ExportedLast ==
  ~unsettled =>
    /\ \A u \in Report : upload[u] = "kept" => u = stored
    /\ \A u \in parses : upload[u] = "done" => summary \in parses /\ summary >= u

ReportsInv == ReportsType /\ InOrder /\ ExportedLast /\ MetricsTrue

\* An answer put together when nothing is under way and nothing overlapped is
\* true, whatever was uploaded between its two halves.
LEMMA AnswerTrue ==
  ASSUME ReportsInv, NEW r \in raw, Settled
  PROVE /\ Note(r) = "not a systemd-report" => r \notin parses
        /\ \A u \in parses : u <= r => summary \in parses /\ summary >= u
<1> USE DEF ReportsInv, AnyReport, Report, NoReport
<1>1. \A u \in parses : u <= r => upload[u] = "done"
  BY ReportsAssumption DEF ReportsType, InOrder, Settled
<1>2. \A u \in parses : u <= r => summary \in parses /\ summary >= u
  BY Zenon, <1>1 DEF ExportedLast, Settled
<1>3. ASSUME Note(r) = "not a systemd-report", r \in parses PROVE FALSE
  <2>1. summary = NoReport
    BY Zenon, <1>3 DEF Note
  <2>2. parses \subseteq Report
    BY Zenon DEF ReportsType
  <2>3. r <= r
    <3>1. r \in 1..Uploads
      BY Zenon, <1>3, <2>2
    <3>2. \A n \in 1..Uploads : n <= n
      BY ReportsAssumption
    <3> QED BY Zenon, <3>1, <3>2
  <2>4. summary \in Report
    BY Zenon, <1>2, <1>3, <2>2, <2>3
  <2> QED BY <2>1, <2>4
<1> QED BY Zenon, <1>2, <1>3

\* Before the first question, and after a restart, there is no answer that
\* could be wrong.
LEMMA NoAnswerTrue ==
  /\ NoAnswer.note # "not a systemd-report"
  /\ \A u \in Report : ~(u <= NoAnswer.raw)
<1>1. NoAnswer.note = "" /\ NoAnswer.raw = 0
  BY Zenon DEF NoAnswer, NoReport
<1>2. \A u \in Report : ~(u <= 0)
  BY ReportsAssumption DEF Report
<1> QED BY Zenon, <1>1, <1>2

\* Every step keeps ReportsInv.
LEMMA ReportsInvStep == ReportsInv /\ [ReportsNext]_reportVars => ReportsInv'
<1> SUFFICES ASSUME ReportsInv, [ReportsNext]_reportVars PROVE ReportsInv'
  BY Zenon
<1> USE ReportsAssumption DEF ReportsInv
<1>1. CASE UNCHANGED reportVars
  BY Zenon, <1>1 DEF reportVars, ReportsType, InOrder, ExportedLast, MetricsTrue
<1>2. ASSUME NEW u \in Report, KeepReport(u) PROVE ReportsInv'
  <2> USE DEF AnyReport, Report, NoReport
  <2>1. /\ upload[u] = "none" /\ upload'[u] = "kept"
        /\ \A v \in Report \ {u} : upload'[v] = upload[v]
        /\ upload' \in [Report -> {"none", "kept", "done"}]
    BY Zenon, <1>2 DEF KeepReport, ReportsType
  <2>2. /\ stored' = u /\ reportFile' = u
        /\ unsettled' = (unsettled \/ \E v \in Report : upload[v] = "kept")
        /\ UNCHANGED <<parses, summary, raw, answer, restores>>
    BY Zenon, <1>2 DEF KeepReport
  <2>3. stored < u
    BY <2>1 DEF ReportsType, InOrder
  <2>4. ReportsType'
    BY Zenon, <2>1, <2>2 DEF ReportsType
  <2>5. \A v \in Report : v <= u <=> upload'[v] # "none"
    BY <1>2, <2>1, <2>3 DEF KeepReport, ReportsType, InOrder
  <2>6. \A r \in raw : r <= u
    BY <2>3 DEF ReportsType, InOrder
  <2>7. InOrder'
    BY Zenon, <2>2, <2>5, <2>6 DEF InOrder
  <2>8. ExportedLast'
    BY Zenon, <2>1, <2>2 DEF ExportedLast, ReportsType
  <2> QED BY Zenon, <2>2, <2>4, <2>7, <2>8 DEF MetricsTrue
<1>3. ASSUME NEW u \in Report, ExportReport(u) PROVE ReportsInv'
  <2>1. /\ upload[u] = "kept" /\ upload'[u] = "done"
        /\ \A v \in Report \ {u} : upload'[v] = upload[v]
        /\ upload' \in [Report -> {"none", "kept", "done"}]
    BY Zenon, <1>3 DEF ExportReport, ReportsType
  <2>2. /\ summary' = IF u \in parses THEN u ELSE summary
        /\ unsettled' = (unsettled /\ ~(u \in parses /\ u = stored /\ \A v \in Report \ {u} : upload[v] # "kept"))
        /\ UNCHANGED <<parses, stored, reportFile, raw, answer, restores>>
    BY Zenon, <1>3 DEF ExportReport, Replace
  <2>3. ReportsType'
    BY Zenon, <2>1, <2>2 DEF ReportsType, AnyReport
  <2>4. InOrder'
    BY Zenon, <2>1, <2>2 DEF InOrder
  <2>5. ASSUME ~unsettled' PROVE /\ \A v \in Report : upload'[v] # "kept"
                                 /\ u = stored
                                 /\ u \in parses \/ ~unsettled
    BY Zenon, <2>1, <2>2, <2>5 DEF ExportedLast, ReportsType
  <2>6. \A v \in Report : upload'[v] = "done" => v <= stored
    BY Zenon, <2>1 DEF InOrder
  <2>7. ASSUME ~unsettled', NEW v \in parses, upload'[v] = "done"
        PROVE summary' \in parses /\ summary' >= v
    <3>1. CASE u \in parses
      BY Zenon, <2>2, <2>5, <2>6, <2>7, <3>1 DEF ReportsType, Report
    <3>2. CASE u \notin parses
      BY Zenon, <2>1, <2>2, <2>5, <2>7, <3>2 DEF ReportsType, ExportedLast
    <3> QED BY Zenon, <3>1, <3>2
  <2>8. ExportedLast'
    BY Zenon, <2>2, <2>5, <2>7 DEF ExportedLast
  <2> QED BY Zenon, <2>2, <2>3, <2>4, <2>8 DEF MetricsTrue
<1>4. CASE MetricsReport
  <2>1. raw' = {stored} /\ UNCHANGED <<upload, parses, stored, reportFile, summary, answer, unsettled, restores>>
    BY Zenon, <1>4 DEF MetricsReport
  <2>2. stored <= stored
    BY DEF ReportsType, AnyReport, Report, NoReport
  <2> QED BY Zenon, <2>1, <2>2 DEF ReportsType, InOrder, ExportedLast, MetricsTrue
<1>5. CASE MetricsVM
  <2>1. PICK r \in raw :
          /\ answer' = [note |-> Note(r), raw |-> r, guest |-> summary, settled |-> Settled]
          /\ raw' = {}
          /\ UNCHANGED <<upload, parses, stored, reportFile, summary, unsettled, restores>>
    BY Zenon, <1>5 DEF MetricsVM
  <2>2. /\ answer'.note = Note(r) /\ answer'.raw = r /\ answer'.guest = summary
        /\ answer'.settled = Settled
    BY Zenon, <2>1
  <2>3. MetricsTrue'
    BY Zenon, <2>1, <2>2, AnswerTrue DEF MetricsTrue
  <2> QED BY Zenon, <2>1, <2>3 DEF ReportsType, InOrder, ExportedLast
<1>6. CASE Restore
  <2>1. /\ upload' \in [Report -> {"none", "kept", "done"}]
        /\ \A u \in Report : upload'[u] # "none" <=> upload[u] # "none"
    BY Zenon, <1>6 DEF Restore, ReportsType
  <2>2. /\ stored' = reportFile /\ summary' = NoReport /\ raw' = {} /\ answer' = NoAnswer
        /\ unsettled' = TRUE /\ parses' = parses /\ reportFile' = reportFile
    BY Zenon, <1>6 DEF Restore
  <2>3. MetricsTrue'
    BY Zenon, <2>2, NoAnswerTrue DEF MetricsTrue, ReportsType
  <2> QED BY Zenon, <2>1, <2>2, <2>3 DEF ReportsType, AnyReport, InOrder, ExportedLast
<1> QED BY Zenon, <1>1, <1>2, <1>3, <1>4, <1>5, <1>6 DEF ReportsNext

\* What get_vm_metrics answers is of the last report that parses, and its note
\* is true, for any number of uploads, questions and restarts.
THEOREM MetricsAreTrue == ReportsSpec => []MetricsTrue
<1>1. ReportsInit => ReportsInv
  <2> SUFFICES ASSUME ReportsInit PROVE ReportsInv
    BY Zenon
  <2>1. ReportsType /\ ExportedLast
    BY Zenon DEF ReportsInit, ReportsType, AnyReport, ExportedLast
  <2>2. InOrder
    BY ReportsAssumption DEF ReportsInit, InOrder, Report, NoReport
  <2>3. MetricsTrue
    BY Zenon, NoAnswerTrue DEF ReportsInit, MetricsTrue
  <2> QED BY Zenon, <2>1, <2>2, <2>3 DEF ReportsInv
<1>2. ReportsInv => MetricsTrue
  BY Zenon DEF ReportsInv
<1> QED BY <1>1, <1>2, ReportsInvStep, PTL DEF ReportsSpec

-----------------------------------------------------------------------------
(* Varlink.                                                                *)

\* What the service writes.
Reply == [first : Nat, last : Nat, files : Nat, continues : BOOLEAN, error : BOOLEAN]
Sent == 1..Len(sent)

VarlinkTypes ==
  /\ sent \in Seq(Reply) /\ at \in Nat /\ pos \in Nat /\ Written \in Nat
  /\ call \in {"idle", "Acquire", "List", "pick"} /\ link \in {"open", "closed"}

\* The replies lie in the stream one after the other, and what has been
\* consumed is whole replies.
Layout ==
  /\ pos <= at /\ at <= Written
  /\ \A m \in Sent : /\ sent[m].first <= sent[m].last /\ sent[m].last < Written
                     /\ sent[m].last < pos \/ pos <= sent[m].first
  /\ \A m, k \in Sent : m < k => sent[m].last < sent[k].first

\* A batch ends within the reply its descriptors came with, which is to come.
Batches ==
  \A b \in rights : \E m \in Sent :
    /\ b.fds = FilesOf(m) /\ b.last \in Nat /\ pos <= sent[m].first
    /\ sent[m].first <= b.last /\ b.last <= sent[m].last

\* A descriptor that was handed out is of a reply that has been consumed.
Consumed(f) == \E m \in Sent : f \in FilesOf(m) /\ sent[m].last < pos

\* Where descriptors are: none is in two places, and a connection that is
\* closed has none.
Accounted ==
  /\ \A f \in files \cup volume : Consumed(f)
  /\ link = "open" => \A f \in shut : Consumed(f)
  /\ link = "closed" => rights = {} /\ call # "pick"
  /\ call # "pick" => files = {}
  /\ files \cap (volume \cup shut) = {} /\ volume \cap shut = {}

\* The replies of which a byte has been received.
Received == {m \in Sent : sent[m].first < at}

\* The descriptors that came with them are accounted for.
Kept == \A m \in Received : FilesOf(m) \subseteq FDs(rights) \cup files \cup volume \cup shut

\* The inductive invariant of the connection.
VarlinkInv == VarlinkTypes /\ Layout /\ Batches /\ Accounted /\ Kept /\ FilesBelong

\* The initial connection: nothing was sent or received.
LEMMA VarlinkStarts == ASSUME VarlinkInit PROVE VarlinkInv
<1>1. Len(sent) = 0 /\ Sent = {} /\ Written = 0 /\ sent \in Seq(Reply)
  BY DEF VarlinkInit, Sent, Written
<1>2. VarlinkTypes /\ Layout
  BY <1>1 DEF VarlinkInit, VarlinkTypes, Layout
<1>3. Batches /\ Accounted /\ Kept /\ FilesBelong
  BY Zenon, <1>1 DEF VarlinkInit, Batches, Accounted, Kept, Received, FilesBelong, Consumed
<1> QED BY Zenon, <1>2, <1>3 DEF VarlinkInv

\* A reply that was sent has its two ends and the number of its descriptors.
LEMMA Replies ==
  ASSUME VarlinkTypes, NEW m \in Sent
  PROVE /\ sent[m].first \in Nat /\ sent[m].last \in Nat /\ sent[m].files \in Nat
        /\ m \in Nat /\ Len(sent) \in Nat
<1>1. Len(sent) \in Nat /\ m \in 1..Len(sent) /\ sent[m] \in Reply
  BY DEF VarlinkTypes, Sent
<1> QED BY <1>1 DEF Reply

\* A descriptor belongs to one reply.
LEMMA OneReply == ASSUME NEW m, NEW f \in FilesOf(m) PROVE f[1] = m
BY Zenon DEF FilesOf

\* What has been handed out is not among the batches that wait.
LEMMA Apart ==
  ASSUME VarlinkTypes, Layout, Batches, NEW f, Consumed(f)
  PROVE f \notin FDs(rights)
<1> SUFFICES ASSUME NEW b \in rights, f \in b.fds PROVE FALSE
  BY Zenon DEF FDs
<1>1. PICK m \in Sent : f \in FilesOf(m) /\ sent[m].last < pos
  BY Zenon DEF Consumed
<1>2. PICK k \in Sent : b.fds = FilesOf(k) /\ pos <= sent[k].first
  BY Zenon DEF Batches
<1>3. k = m
  BY Zenon, <1>1, <1>2, OneReply
<1>4. sent[m].first <= sent[m].last /\ sent[m].last < pos /\ pos <= sent[m].first
  BY Zenon, <1>1, <1>2, <1>3 DEF Layout
<1>5. sent[m].first \in Nat /\ sent[m].last \in Nat /\ pos \in Nat
  BY Zenon, <1>1, Replies DEF VarlinkTypes
<1> QED BY <1>4, <1>5

\* What the stream holds does not change while nothing is sent.
LEMMA StreamSame ==
  ASSUME sent' = sent
  PROVE Written' = Written /\ Sent' = Sent /\ \A m : FilesOf(m)' = FilesOf(m)
BY Zenon DEF Written, Sent, FilesOf

\* SendReply puts a reply behind the others, of which nothing is received yet.
LEMMA SendReplyKept == ASSUME VarlinkInv, SendReply PROVE VarlinkInv'
<1>1. PICK parts \in 1..MaxParts, n \in 0..MaxFiles, more \in BOOLEAN, error \in BOOLEAN :
        sent' = Append(sent, [first |-> Written, last |-> Written + parts - 1, files |-> n,
                              continues |-> more, error |-> error])
  BY Zenon DEF SendReply
<1>2. UNCHANGED <<at, pos, rights, link, call, files, volume, shut, handed>>
  BY Zenon DEF SendReply
<1>3. /\ VarlinkTypes /\ Layout /\ Batches /\ Accounted /\ Kept /\ FilesBelong
      /\ sent \in Seq(Reply) /\ Len(sent) \in Nat /\ Written \in Nat /\ at \in Nat /\ pos \in Nat
  BY DEF VarlinkInv, VarlinkTypes
<1> DEFINE new == [first |-> Written, last |-> Written + parts - 1, files |-> n,
                   continues |-> more, error |-> error]
<1>4. new \in Reply /\ new.first = Written /\ new.last = Written + parts - 1 /\ Written <= new.last
  BY <1>3, VarlinkAssumption DEF Reply
<1>5. /\ sent' \in Seq(Reply) /\ Len(sent') = Len(sent) + 1 /\ sent'[Len(sent) + 1] = new
      /\ \A m \in Sent : sent'[m] = sent[m]
  BY <1>1, <1>3, <1>4 DEF Sent
<1>6. Sent' = Sent \cup {Len(sent) + 1} /\ \A m \in Sent : m < Len(sent) + 1
  BY SMTT(30), <1>3, <1>5 DEF Sent
<1>7. Written' = new.last + 1
  BY SMTT(30), <1>3, <1>5 DEF Written
<1> HIDE DEF new
<1>8. \A m \in Sent : FilesOf(m)' = FilesOf(m)
  BY Zenon, <1>5 DEF FilesOf
<1>9. VarlinkTypes'
  <2>1. new.last + 1 \in Nat
    BY <1>4 DEF Reply
  <2> QED BY Zenon, <1>2, <1>3, <1>5, <1>7, <2>1 DEF VarlinkTypes
<1>10. Layout'
  <2>1. pos' <= at' /\ at' <= Written'
    BY <1>2, <1>3, <1>4, <1>7 DEF Layout, Reply
  <2>2. ASSUME NEW m \in Sent'
        PROVE /\ sent'[m].first <= sent'[m].last /\ sent'[m].last < Written'
              /\ sent'[m].last < pos' \/ pos' <= sent'[m].first
    <3>1. CASE m \in Sent
      <4>1. /\ sent'[m] = sent[m] /\ sent[m].first <= sent[m].last /\ sent[m].last < Written
            /\ sent[m].last < pos \/ pos <= sent[m].first
        BY Zenon, <1>3, <1>5, <3>1 DEF Layout
      <4>2. sent[m].last \in Nat /\ new.last \in Nat
        BY Zenon, <1>3, <1>4, <3>1, Replies DEF Reply
      <4>3. sent[m].last < Written'
        BY <1>3, <1>4, <1>7, <4>1, <4>2
      <4> QED BY Zenon, <1>2, <4>1, <4>3
    <3>2. CASE m = Len(sent) + 1
      BY SMTT(30), <1>2, <1>3, <1>4, <1>5, <1>7, <3>2 DEF Layout, Reply
    <3> QED BY Zenon, <1>6, <3>1, <3>2
  <2>3. ASSUME NEW m \in Sent', NEW k \in Sent', m < k PROVE sent'[m].last < sent'[k].first
    <3>1. m \in Sent
      BY <1>3, <1>5, <2>3 DEF Sent
    <3>2. CASE k \in Sent
      BY Zenon, <1>3, <1>5, <2>3, <3>1, <3>2 DEF Layout
    <3>3. CASE k = Len(sent) + 1
      <4>1. sent[m].last < Written
        BY Zenon, <1>3, <3>1 DEF Layout
      <4> QED BY Zenon, <1>4, <1>5, <3>1, <3>3, <4>1
    <3> QED BY Zenon, <1>6, <3>2, <3>3
  <2> QED BY Zenon, <2>1, <2>2, <2>3 DEF Layout
<1>11. Batches'
  <2> SUFFICES ASSUME NEW b \in rights
               PROVE \E m \in Sent' :
                       /\ b.fds = FilesOf(m)' /\ b.last \in Nat /\ pos' <= sent'[m].first
                       /\ sent'[m].first <= b.last /\ b.last <= sent'[m].last
    BY Zenon, <1>2 DEF Batches
  <2>1. PICK m \in Sent : /\ b.fds = FilesOf(m) /\ b.last \in Nat /\ pos <= sent[m].first
                          /\ sent[m].first <= b.last /\ b.last <= sent[m].last
    BY Zenon, <1>3 DEF Batches
  <2> QED BY Zenon, <1>2, <1>5, <1>6, <1>8, <2>1
<1>12. Accounted'
  <2>1. ASSUME NEW f, Consumed(f) PROVE Consumed(f)'
    BY Zenon, <1>2, <1>5, <1>6, <1>8, <2>1 DEF Consumed
  <2> QED BY Zenon, <1>2, <1>3, <2>1 DEF Accounted
<1>13. Kept'
  <2> SUFFICES ASSUME NEW m \in Sent', sent'[m].first < at'
               PROVE FilesOf(m)' \subseteq FDs(rights') \cup files' \cup volume' \cup shut'
    BY Zenon DEF Kept, Received, FDs
  <2>1. m # Len(sent) + 1
    BY SMTT(30), <1>2, <1>3, <1>4, <1>5 DEF Layout
  <2>2. m \in Received
    BY Zenon, <1>2, <1>5, <1>6, <2>1 DEF Received
  <2> QED BY Zenon, <1>2, <1>3, <1>6, <1>8, <2>1, <2>2 DEF Kept
<1>14. FilesBelong'
  BY Zenon, <1>2, <1>3 DEF FilesBelong
<1> QED BY Zenon, <1>9, <1>10, <1>11, <1>12, <1>13, <1>14 DEF VarlinkInv

\* Read keeps what it received in a batch of its own.
LEMMA ReadKept == ASSUME VarlinkInv, Read PROVE VarlinkInv'
<1> DEFINE with(to) == {m \in 1..Len(sent) : sent[m].files > 0 /\ sent[m].first \in at..(to - 1)}
<1>1. PICK to \in (at + 1)..Written :
        /\ link = "open" /\ at' = to
        /\ \A m \in with(to) : to - 1 <= sent[m].last
        /\ rights' = rights \cup {[last |-> to - 1, fds |-> FilesOf(m)] : m \in with(to)}
  BY Zenon DEF Read
<1>2. UNCHANGED <<sent, pos, link, call, files, volume, shut, handed>>
  BY Zenon DEF Read
<1>3. /\ VarlinkTypes /\ Layout /\ Batches /\ Accounted /\ Kept /\ FilesBelong
      /\ Written \in Nat /\ at \in Nat /\ pos \in Nat
  BY Zenon DEF VarlinkInv, VarlinkTypes
<1>4. to \in Nat /\ at < to /\ to <= Written /\ to - 1 \in Nat
  BY <1>3
<1>5. Written' = Written /\ Sent' = Sent /\ \A m : FilesOf(m)' = FilesOf(m)
  BY Zenon, <1>2, StreamSame
<1>6. ASSUME NEW m \in with(to)
      PROVE /\ m \in Sent /\ pos <= sent[m].first /\ sent[m].first <= to - 1
            /\ to - 1 <= sent[m].last
  <2>1. m \in Sent /\ sent[m].first \in at..(to - 1) /\ to - 1 <= sent[m].last
    BY Zenon, <1>1, <1>6 DEF Sent
  <2>2. sent[m].first \in Nat /\ pos <= at
    BY Zenon, <1>3, <2>1, Replies DEF Layout
  <2> QED BY <1>3, <1>4, <2>1, <2>2
<1>7. VarlinkTypes'
  BY Zenon, <1>1, <1>2, <1>3, <1>4, <1>5 DEF VarlinkTypes
<1>8. Layout'
  <2>1. pos <= at /\ at <= Written
    BY Zenon, <1>3 DEF Layout
  <2>2. pos <= to /\ to <= Written
    BY <1>3, <1>4, <2>1
  <2> QED BY Zenon, <1>1, <1>2, <1>3, <1>5, <2>2 DEF Layout
<1>9. Batches'
  <2> SUFFICES ASSUME NEW b \in rights'
               PROVE \E m \in Sent : /\ b.fds = FilesOf(m) /\ b.last \in Nat /\ pos <= sent[m].first
                                     /\ sent[m].first <= b.last /\ b.last <= sent[m].last
    BY Zenon, <1>2, <1>5 DEF Batches
  <2>1. CASE b \in rights
    BY Zenon, <1>3, <2>1 DEF Batches
  <2>2. CASE \E m \in with(to) : b = [last |-> to - 1, fds |-> FilesOf(m)]
    <3>1. PICK m \in with(to) : b = [last |-> to - 1, fds |-> FilesOf(m)]
      BY Zenon, <2>2
    <3>2. b.last = to - 1 /\ b.fds = FilesOf(m)
      BY Zenon, <3>1
    <3> QED BY Zenon, <1>4, <1>6, <3>2
  <2> QED BY Zenon, <1>1, <2>1, <2>2
<1>10. Accounted'
  <2>1. \A f : Consumed(f)' = Consumed(f)
    BY Zenon, <1>2, <1>5 DEF Consumed
  <2>2. link # "closed"
    BY Zenon, <1>1
  <2> QED BY Zenon, <1>2, <1>3, <2>1, <2>2 DEF Accounted
<1>11. Kept'
  <2> SUFFICES ASSUME NEW m \in Sent, sent[m].first < to, NEW f \in FilesOf(m)
               PROVE f \in FDs(rights') \cup files \cup volume \cup shut
    BY Zenon, <1>1, <1>2, <1>5 DEF Kept, Received, FDs
  <2>1. CASE sent[m].first < at
    <3>1. f \in FDs(rights) \cup files \cup volume \cup shut
      BY Zenon, <1>3, <2>1 DEF Kept, Received
    <3> QED BY Zenon, <1>1, <3>1 DEF FDs
  <2>2. CASE at <= sent[m].first
    <3>1. sent[m].files > 0 /\ sent[m].first \in at..(to - 1)
      <4>1. sent[m].first \in Nat /\ sent[m].files \in Nat /\ f[2] \in 1..sent[m].files
        BY Zenon, <1>3, Replies DEF FilesOf
      <4> QED BY <1>3, <1>4, <2>2, <4>1
    <3>2. m \in with(to)
      BY Zenon, <3>1 DEF Sent
    <3>3. [last |-> to - 1, fds |-> FilesOf(m)] \in rights'
      BY Zenon, <1>1, <3>2
    <3> DEFINE b == [last |-> to - 1, fds |-> FilesOf(m)]
    <3>4. b \in rights' /\ f \in b.fds
      BY Zenon, <3>3
    <3> QED BY Zenon, <3>4 DEF FDs
  <2>3. sent[m].first \in Nat /\ at \in Nat
    BY Zenon, <1>3, Replies DEF VarlinkTypes
  <2>4. sent[m].first < at \/ at <= sent[m].first
    BY <2>3
  <2> QED BY Zenon, <2>1, <2>2, <2>4
<1>12. FilesBelong'
  BY Zenon, <1>2, <1>3 DEF FilesBelong
<1> QED BY Zenon, <1>7, <1>8, <1>9, <1>10, <1>11, <1>12 DEF VarlinkInv

\* What receive takes for the next reply are descriptors of that reply, and
\* what it leaves belongs to later ones.
LEMMA TakesOwn ==
  ASSUME VarlinkTypes, Layout, Batches, NEW m \in Sent, sent[m].first = pos
  PROVE /\ FDs(takeFiles(sent[m].last)) \subseteq FilesOf(m)
        /\ \A b \in rights \ takeFiles(sent[m].last) : \E k \in Sent :
             /\ b.fds = FilesOf(k) /\ b.last \in Nat /\ sent[m].last + 1 <= sent[k].first
             /\ sent[k].first <= b.last /\ b.last <= sent[k].last
<1>1. ASSUME NEW b \in rights
      PROVE \E k \in Sent :
              /\ b.fds = FilesOf(k) /\ b.last \in Nat
              /\ sent[k].first <= b.last /\ b.last <= sent[k].last
              /\ k = m \/ sent[m].last + 1 <= sent[k].first
  <2>1. PICK k \in Sent : /\ b.fds = FilesOf(k) /\ b.last \in Nat /\ pos <= sent[k].first
                          /\ sent[k].first <= b.last /\ b.last <= sent[k].last
    BY Zenon, <1>1 DEF Batches
  <2>2. ~(k < m)
    <3>1. k < m => sent[k].last < sent[m].first
      BY Zenon DEF Layout
    <3>2. sent[k].first <= sent[k].last
      BY Zenon DEF Layout
    <3>3. pos <= sent[k].first /\ sent[m].first = pos
      BY Zenon, <2>1
    <3>4. /\ sent[k].first \in Nat /\ sent[k].last \in Nat /\ sent[m].first \in Nat /\ pos \in Nat
          /\ k \in Nat /\ m \in Nat
      BY Zenon, Replies DEF VarlinkTypes
    <3> QED BY <3>1, <3>2, <3>3, <3>4
  <2>3. m < k => sent[m].last < sent[k].first
    BY Zenon DEF Layout
  <2>4. k = m \/ sent[m].last + 1 <= sent[k].first
    BY <2>2, <2>3, Replies
  <2> QED BY Zenon, <2>1, <2>4
<1>2. ASSUME NEW b \in takeFiles(sent[m].last) PROVE b.fds = FilesOf(m)
  <2>1. b \in rights /\ b.last <= sent[m].last
    BY Zenon, <1>2 DEF takeFiles
  <2>2. PICK k \in Sent : /\ b.fds = FilesOf(k) /\ b.last \in Nat /\ sent[k].first <= b.last
                          /\ k = m \/ sent[m].last + 1 <= sent[k].first
    BY Zenon, <1>1, <2>1
  <2>3. k = m
    BY <2>1, <2>2, Replies
  <2> QED BY Zenon, <2>2, <2>3
<1>3. ASSUME NEW b \in rights \ takeFiles(sent[m].last)
      PROVE \E k \in Sent :
              /\ b.fds = FilesOf(k) /\ b.last \in Nat /\ sent[m].last + 1 <= sent[k].first
              /\ sent[k].first <= b.last /\ b.last <= sent[k].last
  <2>1. b \in rights /\ ~(b.last <= sent[m].last)
    BY Zenon, <1>3 DEF takeFiles
  <2> QED BY Zenon, <1>1, <2>1
<1>4. FDs(takeFiles(sent[m].last)) \subseteq FilesOf(m)
  BY Zenon, <1>2 DEF FDs
<1> QED BY Zenon, <1>3, <1>4

\* Receive consumes the next reply, with its own descriptors and no others.
LEMMA ReceiveKept == ASSUME VarlinkInv, Receive PROVE VarlinkInv'
<1>1. PICK m \in 1..Len(sent) :
        LET r == sent[m]
            taken == FDs(takeFiles(r.last))
            kept == rights \ takeFiles(r.last)
            hands == call = "Acquire" /\ ~r.error /\ ~r.continues IN
        /\ call \in {"Acquire", "List"} /\ link = "open"
        /\ r.first = pos /\ r.last < at
        /\ pos' = r.last + 1
        /\ handed' = handed \cup (taken \X {m})
        /\ files' = IF hands THEN taken ELSE {}
        /\ \/ /\ r.continues
              /\ link' = "closed" /\ rights' = {} /\ call' = "idle"
              /\ shut' = shut \cup taken \cup FDs(kept)
           \/ /\ ~r.continues \/ call = "List"
              /\ rights' = kept /\ UNCHANGED link
              /\ call' = IF hands THEN "pick" ELSE IF r.continues THEN call ELSE "idle"
              /\ shut' = IF hands THEN shut ELSE shut \cup taken
  BY Zenon DEF Receive
<1> DEFINE taken == FDs(takeFiles(sent[m].last))
<1> DEFINE kept == rights \ takeFiles(sent[m].last)
<1>2. /\ UNCHANGED <<sent, at, volume>> /\ call \in {"Acquire", "List"} /\ link = "open"
      /\ sent[m].first = pos /\ sent[m].last < at /\ pos' = sent[m].last + 1
      /\ handed' = handed \cup (taken \X {m})
  BY Zenon, <1>1 DEF Receive
<1>3. /\ VarlinkTypes /\ Layout /\ Batches /\ Accounted /\ Kept /\ FilesBelong
      /\ Written \in Nat /\ at \in Nat /\ pos \in Nat
  BY Zenon DEF VarlinkInv, VarlinkTypes
<1>4. m \in Sent /\ sent[m].first \in Nat /\ sent[m].last \in Nat /\ sent[m].first <= sent[m].last
  BY Zenon, <1>3, Replies DEF Sent, Layout
<1>5. Written' = Written /\ Sent' = Sent /\ \A k : FilesOf(k)' = FilesOf(k)
  BY Zenon, <1>2, StreamSame
<1>6. /\ taken \subseteq FilesOf(m)
      /\ \A b \in kept : \E k \in Sent :
             /\ b.fds = FilesOf(k) /\ b.last \in Nat /\ pos' <= sent[k].first
             /\ sent[k].first <= b.last /\ b.last <= sent[k].last
  BY Zenon, <1>2, <1>3, <1>4, TakesOwn
<1>7. FDs(rights) = taken \cup FDs(kept)
  BY Zenon DEF FDs, takeFiles
<1> DEFINE Ends == /\ link' = "closed" /\ rights' = {} /\ call' = "idle" /\ files' = {}
                   /\ shut' = shut \cup taken \cup FDs(kept)
           Hands == link' = "open" /\ rights' = kept /\ call' = "pick" /\ files' = taken /\ shut' = shut
           Drops == /\ link' = "open" /\ rights' = kept /\ call' \in {"idle", "Acquire", "List"}
                    /\ files' = {} /\ shut' = shut \cup taken
<1>8. Ends \/ Hands \/ Drops
  BY Zenon, <1>1, <1>2
<1>9. pos' \in Nat /\ pos <= pos' /\ sent[m].last < pos' /\ pos' <= at
  BY <1>2, <1>3, <1>4
<1> HIDE DEF taken, kept
<1>10. VarlinkTypes'
  BY Zenon, <1>2, <1>3, <1>5, <1>8, <1>9 DEF VarlinkTypes
<1>11. Layout'
  <2>1. ASSUME NEW k \in Sent PROVE sent[k].last < pos' \/ pos' <= sent[k].first
    <3>1. (k < m => sent[k].last < sent[m].first) /\ (m < k => sent[m].last < sent[k].first)
      BY Zenon, <1>3, <1>4, <2>1 DEF Layout
    <3>2. k \in Nat /\ m \in Nat /\ sent[k].last \in Nat /\ sent[k].first \in Nat
      BY Zenon, <1>3, <1>4, <2>1, Replies
    <3> QED BY <1>2, <1>4, <3>1, <3>2
  <2> QED BY Zenon, <1>2, <1>3, <1>5, <1>9, <2>1 DEF Layout
<1>12. Batches'
  BY Zenon, <1>2, <1>5, <1>6, <1>8 DEF Batches
<1>13. \A f : Consumed(f) => Consumed(f)'
  <2> SUFFICES ASSUME NEW f, NEW k \in Sent, f \in FilesOf(k), sent[k].last < pos
               PROVE Consumed(f)'
    BY Zenon DEF Consumed
  <2>1. sent[k].last < pos'
    BY <1>3, <1>9, Replies
  <2> QED BY Zenon, <1>2, <1>5, <2>1 DEF Consumed
<1>14. \A f \in taken : Consumed(f)'
  BY Zenon, <1>2, <1>4, <1>5, <1>6, <1>9 DEF Consumed
<1>15. (volume \cup shut) \cap FDs(rights) = {} /\ \A f \in volume \cup shut : Consumed(f)
  BY Zenon, <1>2, <1>3, Apart DEF Accounted
<1>16. volume \cap shut = {} /\ files = {}
  BY Zenon, <1>2, <1>3 DEF Accounted
<1>17. Accounted'
  <2>1. CASE Ends
    BY Zenon, <1>2, <1>7, <1>13, <1>15, <1>16, <2>1 DEF Accounted
  <2>2. CASE Hands
    BY Zenon, <1>2, <1>7, <1>13, <1>14, <1>15, <1>16, <2>2 DEF Accounted
  <2>3. CASE Drops
    BY Zenon, <1>2, <1>7, <1>13, <1>14, <1>15, <1>16, <2>3 DEF Accounted
  <2> QED BY Zenon, <1>8, <2>1, <2>2, <2>3
<1>18. Kept'
  <2> SUFFICES ASSUME NEW k \in Received, NEW f \in FilesOf(k)
               PROVE f \in FDs(rights') \cup files' \cup volume \cup shut'
    BY Zenon, <1>2, <1>5 DEF Kept, Received, FDs
  <2>1. f \in taken \cup FDs(kept) \cup volume \cup shut
    BY Zenon, <1>3, <1>7, <1>16 DEF Kept
  <2> QED BY Zenon, <1>8, <2>1
<1>19. FilesBelong'
  <2> SUFFICES ASSUME NEW h \in taken \X {m} PROVE h[1][1] = h[2]
    BY Zenon, <1>2, <1>3 DEF FilesBelong
  <2>1. h[1] \in taken /\ h[2] = m
    BY Zenon
  <2> QED BY Zenon, <1>6, <2>1, OneReply
<1> QED BY Zenon, <1>10, <1>11, <1>12, <1>17, <1>18, <1>19 DEF VarlinkInv

\* While neither the stream nor what was consumed of it moves, the layout
\* stays.
LEMMA StreamKept ==
  ASSUME VarlinkInv, UNCHANGED <<sent, at, pos, handed>>,
         call' \in {"idle", "Acquire", "List", "pick"}, link' \in {"open", "closed"}
  PROVE /\ VarlinkTypes' /\ Layout' /\ FilesBelong' /\ \A f : Consumed(f)' = Consumed(f)
        /\ Sent' = Sent /\ Received' = Received /\ \A m : FilesOf(m)' = FilesOf(m)
<1>1. Written' = Written /\ Sent' = Sent /\ \A m : FilesOf(m)' = FilesOf(m)
  BY Zenon, StreamSame
<1>2. VarlinkTypes' /\ Layout' /\ FilesBelong'
  BY Zenon, <1>1 DEF VarlinkInv, VarlinkTypes, Layout, FilesBelong
<1>3. Received' = Received /\ \A f : Consumed(f)' = Consumed(f)
  BY Zenon, <1>1 DEF Received, Consumed
<1> QED BY Zenon, <1>1, <1>2, <1>3

\* A call starts on an open connection.
LEMMA CallKept ==
  ASSUME VarlinkInv, NEW method \in {"Acquire", "List"}, Call(method)
  PROVE VarlinkInv'
<1>1. /\ call = "idle" /\ link = "open" /\ call' = method
      /\ UNCHANGED <<sent, at, pos, rights, link, files, volume, shut, handed>>
  BY Zenon DEF Call
<1>2. /\ VarlinkTypes' /\ Layout' /\ FilesBelong' /\ \A f : Consumed(f)' = Consumed(f)
      /\ Sent' = Sent /\ Received' = Received /\ \A m : FilesOf(m)' = FilesOf(m)
  BY Zenon, <1>1, StreamKept
<1>3. Batches' /\ Kept'
  BY Zenon, <1>1, <1>2 DEF VarlinkInv, Batches, Kept
<1>4. Accounted'
  BY Zenon, <1>1, <1>2 DEF VarlinkInv, Accounted
<1> QED BY Zenon, <1>2, <1>3, <1>4 DEF VarlinkInv

\* Acquire keeps one descriptor for the volume, or none, and closes the others.
LEMMA PickFileKept == ASSUME VarlinkInv, PickFile PROVE VarlinkInv'
<1>1. /\ call = "pick" /\ files' = {} /\ call' = "idle"
      /\ UNCHANGED <<sent, at, pos, rights, link, handed>>
  BY Zenon DEF PickFile
<1>2. /\ volume' \cup shut' = files \cup volume \cup shut
      /\ files \cap (volume \cup shut) = {} => volume' \cap shut' \subseteq volume \cap shut
  BY Zenon DEF PickFile
<1>3. /\ VarlinkTypes' /\ Layout' /\ FilesBelong' /\ \A f : Consumed(f)' = Consumed(f)
      /\ Sent' = Sent /\ Received' = Received /\ \A m : FilesOf(m)' = FilesOf(m)
  BY Zenon, <1>1, StreamKept DEF VarlinkInv, VarlinkTypes
<1>4. /\ link # "closed" /\ link \in {"open", "closed"} /\ volume \cap shut = {}
      /\ files \cap (volume \cup shut) = {}
      /\ \A f \in files \cup volume : Consumed(f)
  BY Zenon, <1>1 DEF VarlinkInv, VarlinkTypes, Accounted
<1>5. \A f \in files \cup volume \cup shut : Consumed(f)
  BY Zenon, <1>4 DEF VarlinkInv, Accounted
<1>6. Accounted'
  BY Zenon, <1>1, <1>2, <1>3, <1>4, <1>5 DEF Accounted
<1>7. Batches' /\ Kept'
  BY Zenon, <1>1, <1>2, <1>3 DEF VarlinkInv, Batches, Kept
<1> QED BY Zenon, <1>3, <1>6, <1>7 DEF VarlinkInv

\* shutdown closes the descriptors that no reply has claimed.
LEMMA ShutdownKept ==
  ASSUME VarlinkInv, shutdown, call # "pick", link = "open", call' = "idle",
         UNCHANGED <<sent, at, pos, files, volume, handed>>
  PROVE VarlinkInv'
<1>1. link' = "closed" /\ rights' = {} /\ shut' = shut \cup FDs(rights)
  BY Zenon DEF shutdown
<1>2. /\ VarlinkTypes' /\ Layout' /\ FilesBelong' /\ \A f : Consumed(f)' = Consumed(f)
      /\ Sent' = Sent /\ Received' = Received /\ \A m : FilesOf(m)' = FilesOf(m)
  BY Zenon, <1>1, StreamKept
<1>3. files = {} /\ volume \cap shut = {} /\ \A f \in volume : Consumed(f)
  BY Zenon DEF VarlinkInv, Accounted
<1>4. volume \cap FDs(rights) = {}
  BY Zenon, <1>3, Apart DEF VarlinkInv
<1>5. Accounted'
  BY Zenon, <1>1, <1>2, <1>3, <1>4 DEF Accounted
<1>6. Batches' /\ Kept'
  BY Zenon, <1>1, <1>2 DEF VarlinkInv, Batches, Kept
<1> QED BY Zenon, <1>2, <1>5, <1>6 DEF VarlinkInv

\* Every step of the connection keeps the invariant.
LEMMA VarlinkStep == ASSUME VarlinkInv, [VarlinkNext]_varlinkVars PROVE VarlinkInv'
<1>1. CASE SendReply BY Zenon, <1>1, SendReplyKept
<1>2. CASE Read BY Zenon, <1>2, ReadKept
<1>3. CASE Receive BY Zenon, <1>3, ReceiveKept
<1>4. CASE PickFile BY Zenon, <1>4, PickFileKept
<1>5. CASE Break
  <2>1. call # "pick"
    BY Zenon, <1>5 DEF Break
  <2> QED BY Zenon, <1>5, <2>1, ShutdownKept DEF Break
<1>6. CASE CloseConn
  <2>1. call # "pick"
    BY Zenon, <1>6 DEF CloseConn
  <2> QED BY Zenon, <1>6, <2>1, ShutdownKept DEF CloseConn
<1>7. CASE \E method \in {"Acquire", "List"} : Call(method) BY Zenon, <1>7, CallKept
<1>8. CASE UNCHANGED varlinkVars
  <2>1. UNCHANGED <<sent, at, pos, rights, link, call, files, volume, shut, handed>>
    BY Zenon, <1>8 DEF varlinkVars
  <2>2. /\ VarlinkTypes' /\ Layout' /\ FilesBelong' /\ \A f : Consumed(f)' = Consumed(f)
        /\ Sent' = Sent /\ Received' = Received /\ \A m : FilesOf(m)' = FilesOf(m)
    BY Zenon, <2>1, StreamKept DEF VarlinkInv, VarlinkTypes
  <2> QED BY Zenon, <2>1, <2>2 DEF VarlinkInv, Batches, Accounted, Kept
<1> QED BY Zenon, <1>1, <1>2, <1>3, <1>4, <1>5, <1>6, <1>7, <1>8 DEF VarlinkNext

\* However recvmsg cuts the stream of replies, takeFiles gives a reply the
\* descriptors it was sent with: for any number of replies, parts and files.
THEOREM FilesStayWithReply == VarlinkSpec => []FilesBelong
<1>1. VarlinkInit => VarlinkInv
  BY Zenon, VarlinkStarts
<1>2. VarlinkInv /\ [VarlinkNext]_varlinkVars => VarlinkInv'
  BY Zenon, VarlinkStep
<1>3. VarlinkInv => FilesBelong
  BY Zenon DEF VarlinkInv
<1> QED BY <1>1, <1>2, <1>3, PTL DEF VarlinkSpec

\* Whatever ends a call, a descriptor that was received waits for its reply, is
\* with a caller or a volume, or has been closed.
THEOREM FilesAccounted == VarlinkSpec => []NoFileLeaks
<1>1. VarlinkInit => VarlinkInv
  BY Zenon, VarlinkStarts
<1>2. VarlinkInv /\ [VarlinkNext]_varlinkVars => VarlinkInv'
  BY Zenon, VarlinkStep
<1>3. ASSUME VarlinkInv PROVE NoFileLeaks
  <2> DEFINE all == UNION {FilesOf(m) : m \in {k \in 1..Len(sent) : sent[k].first < at}}
  <2>1. all \subseteq FDs(rights) \cup files \cup volume \cup shut
    BY Zenon, <1>3 DEF VarlinkInv, Kept, Received, Sent
  <2>2. volume \cap shut = {}
    BY Zenon, <1>3 DEF VarlinkInv, Accounted
  <2>3. link = "closed" /\ call = "idle" => FDs(rights) = {} /\ files = {}
    BY Zenon, <1>3 DEF VarlinkInv, Accounted, FDs
  <2> QED BY Zenon, <2>1, <2>2, <2>3 DEF NoFileLeaks
<1> QED BY <1>1, <1>2, <1>3, PTL DEF VarlinkSpec
=============================================================================
