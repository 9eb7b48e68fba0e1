------------------------------ MODULE Varlink -------------------------------
(***************************************************************************)
(* A Varlink connection to the storage provider and the volume acquired    *)
(* over it: replies are cut into chunks by recvmsg, descriptors travel     *)
(* beside the bytes, and the call may be given up at any point.  Offsets   *)
(* count parts of messages; the last part of a message is its NUL.         *)
(***************************************************************************)
EXTENDS Naturals, Sequences, FiniteSets

CONSTANTS
    MaxReplies,    \* bound: replies on a connection
    MaxParts,      \* bound: parts of a reply
    MaxFiles       \* bound: descriptors with a reply

ASSUME VarlinkAssumption == MaxReplies \in Nat /\ MaxParts \in Nat /\ MaxFiles \in Nat

VARIABLES
    serving,    \* the service has a call to answer
    sent,       \* the replies it has written
    at,         \* offset up to which the bytes have been received
    pos,        \* Conn.pos: offset up to which they have been consumed
    rights,     \* Conn.rights
    link,       \* the connection: "open", "closed"
    call,       \* what runs under Conn.mu: "idle", "Acquire", "List", "pick"
    files,      \* descriptors in the hands of the caller
    volume,     \* descriptors held by acquired volumes
    shut,       \* descriptors that have been closed
    handed      \* history: a descriptor and the reply it was handed out with

varlinkVars == <<serving, sent, at, pos, rights, link, call, files, volume, shut, handed>>

VarlinkInit ==
    /\ serving = FALSE /\ sent = <<>> /\ at = 0 /\ pos = 0 /\ rights = {} /\ link = "open" /\ call = "idle"
    /\ files = {} /\ volume = {} /\ shut = {} /\ handed = {}

Written == IF sent = <<>> THEN 0 ELSE sent[Len(sent)].last + 1

\* The descriptors of reply m.
FilesOf(m) == {m} \X (1..sent[m].files)

-----------------------------------------------------------------------------
(* The service, and the socket between.                                    *)

\* The service sends a reply, with its descriptors on the first byte.
SendReply ==
    \E parts \in 1..MaxParts, n \in 0..MaxFiles, more, error \in BOOLEAN :
        /\ serving /\ link = "open" /\ Len(sent) < MaxReplies /\ (error => ~more)
        /\ sent' = Append(sent, [first |-> Written, last |-> Written + parts - 1, files |-> n,
                                continues |-> more, error |-> error])
        /\ serving' = more
        /\ UNCHANGED <<at, pos, rights, link, call, files, volume, shut, handed>>

\* Conn.read, one recvmsg: any number of bytes, but none past a reply whose
\* descriptors came with them.
Read ==
    \E to \in (at + 1)..Written :
        LET with == {m \in 1..Len(sent) : sent[m].files > 0 /\ sent[m].first \in at..(to - 1)} IN
        /\ call \in {"Acquire", "List"} /\ link = "open"
        /\ ~\E m \in 1..Len(sent) : pos <= sent[m].last /\ sent[m].last < at
        /\ \A m \in with : to - 1 <= sent[m].last
        /\ at' = to
        /\ rights' = rights \cup {[last |-> to - 1, fds |-> FilesOf(m)] : m \in with}
        /\ UNCHANGED <<serving, sent, pos, link, call, files, volume, shut, handed>>

-----------------------------------------------------------------------------
(* The client.                                                             *)

FDs(batches) == UNION {b.fds : b \in batches}

\* Mutant: only the socket is closed.
shutdownSocketOnly ==
    /\ link' = "closed" /\ rights' = {}
    /\ UNCHANGED shut

\* shutdown closes the socket and the descriptors no reply has claimed.
shutdown ==
    /\ link' = "closed" /\ rights' = {}
    /\ shut' = shut \cup FDs(rights)

\* Acquire and List each make one call; the lock lets one run at a time.
Call(method) ==
    /\ call = "idle" /\ link = "open"
    /\ call' = method /\ serving' = TRUE
    /\ UNCHANGED <<sent, at, pos, rights, link, files, volume, shut, handed>>

\* Mutant: a reply gets whatever descriptors have been received.
takeFilesAll(end) == rights

\* takeFiles: the batches that ended inside or before this reply.
takeFiles(end) == {b \in rights : b.last <= end}

\* receive: the next complete reply and its descriptors.  CallWithFiles hands
\* them to its caller or closes them; a single reply that continues, and a
\* callback that fails before the last reply, break the connection.
Receive ==
    \E m \in 1..Len(sent) :
        LET r == sent[m]
            taken == FDs(takeFiles(r.last))
            kept == rights \ takeFiles(r.last)
            hands == call = "Acquire" /\ ~r.error /\ ~r.continues IN
        /\ call \in {"Acquire", "List"} /\ link = "open"
        /\ r.first = pos /\ r.last < at
        /\ pos' = r.last + 1
        /\ handed' = handed \cup (taken \X {m})
        /\ files' = IF hands THEN taken ELSE {}
        /\ \/ /\ r.continues
             /\ link' = "closed" /\ rights' = {} /\ call' = "idle"
             /\ shut' = shut \cup taken \cup FDs(kept)
          \/ /\ ~r.continues \/ call = "List"
             /\ rights' = kept /\ UNCHANGED link
             /\ call' = IF hands THEN "pick" ELSE IF r.continues THEN call ELSE "idle"
             /\ shut' = IF hands THEN shut ELSE shut \cup taken
        /\ UNCHANGED <<serving, sent, at, volume>>

\* Acquire: the descriptor the reply names is kept when it is a file or a
\* device whose path is found; all others are closed.
PickFile ==
    /\ call = "pick"
    /\ \/ \E f \in files : volume' = volume \cup {f} /\ shut' = shut \cup (files \ {f})
       \/ shut' = shut \cup files /\ UNCHANGED volume
    /\ files' = {} /\ call' = "idle"
    /\ UNCHANGED <<serving, sent, at, pos, rights, link, handed>>

\* The context ends, the service goes away or talks nonsense: do shuts down.
Break ==
    /\ call \in {"Acquire", "List"} /\ link = "open"
    /\ shutdown
    /\ call' = "idle"
    /\ UNCHANGED <<serving, sent, at, pos, files, volume, handed>>

\* Conn.Close.
CloseConn ==
    /\ call = "idle" /\ link = "open"
    /\ shutdown
    /\ UNCHANGED <<serving, sent, at, pos, call, files, volume, handed>>

-----------------------------------------------------------------------------
VarlinkNext ==
    \/ SendReply \/ Read \/ Receive \/ PickFile \/ Break \/ CloseConn
    \/ \E method \in {"Acquire", "List"} : Call(method)

VarlinkSpec == VarlinkInit /\ [][VarlinkNext]_varlinkVars

-----------------------------------------------------------------------------
(* Properties.                                                             *)

\* However recvmsg cuts the stream, a descriptor is handed out with the reply
\* it was sent with: no volume gets the file of another.
FilesBelong == \A h \in handed : h[1][1] = h[2]

\* Every descriptor that has been received is waiting for its reply, in the
\* hands of a caller, held by a volume or closed; none is left when the
\* connection is closed and no call runs, whatever ended the call.
NoFileLeaks ==
    LET received == UNION {FilesOf(m) : m \in {k \in 1..Len(sent) : sent[k].first < at}} IN
    /\ received \subseteq FDs(rights) \cup files \cup volume \cup shut
    /\ link = "closed" /\ call = "idle" => received \subseteq volume \cup shut
    /\ volume \cap shut = {}
=============================================================================
