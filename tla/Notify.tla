------------------------------- MODULE Notify -------------------------------
(***************************************************************************)
(* The notify listener (internal/runtime/qemu/notify.go): one connection   *)
(* per message of a guest, read to its end by a goroutine and routed by    *)
(* the CID of the peer to a channel the VM's supervisor reads.  CIDs are   *)
(* used again: a run is one boot of a VM that has the CID.                 *)
(***************************************************************************)
EXTENDS Naturals, Sequences

CONSTANTS
    Runs,           \* bound: boots, in the order in which they begin
    Peer,           \* CIDs
    notifyBuffer,   \* what a channel holds
    MaxMessages     \* bound: messages the guests send

ASSUME NotifyAssumption == Runs \in Nat /\ notifyBuffer \in Nat \ {0} /\ MaxMessages \in Nat

Run == 1..Runs
NoRun == 0

VARIABLES
    run,        \* where each run is, and its CID
    chan,       \* NotifyListener.subs; a channel is named by the run that made it
    open,       \* channels that are not closed
    inbox,      \* what is in each channel: the runs that sent it
    conns,      \* connections being handled: sender, CID, and whether it is read
    heard,      \* senders whose messages the supervisor of a run has read
    between,    \* history: senders with a connection open when the run subscribed
    listener,   \* "open", "closing", "closed"
    panicked,   \* a send on a closed channel
    messages

notifyVars == <<run, chan, open, inbox, conns, heard, between, listener, panicked, messages>>

NotifyInit ==
    /\ run = [r \in Run |-> [at |-> "new", cid |-> NoRun, chan |-> NoRun]]
    /\ chan = [c \in Peer |-> NoRun] /\ open = {} /\ inbox = [r \in Run |-> <<>>]
    /\ conns = {} /\ heard = [r \in Run |-> {}] /\ between = [r \in Run |-> {}]
    /\ listener = "open" /\ panicked = FALSE /\ messages = 0

\* Subscribe: the channel of the CID, or a new one.
SubscribeCID(r, c) ==
    LET ch == IF chan[c] # NoRun THEN chan[c] ELSE r IN
    /\ chan' = [chan EXCEPT ![c] = ch]
    /\ open' = IF chan[c] # NoRun THEN open ELSE open \cup {ch}
    /\ run' = [run EXCEPT ![r] = [at |-> "up", cid |-> c, chan |-> ch]]

\* startProcess: a CID no other VM has; QEMU follows the subscription.
BeginRun(r, c) ==
    /\ listener = "open" /\ run[r].at = "new" /\ \A q \in Run : q < r => run[q].at # "new"
    /\ \A q \in Run : run[q].at \in {"up", "exited"} => run[q].cid # c
    /\ SubscribeCID(r, c)
    /\ between' = [between EXCEPT ![r] = {m.from : m \in conns}]
    /\ UNCHANGED <<inbox, conns, heard, listener, panicked, messages>>

\* The guest connects, writes and closes; accept starts a handler.
ConnectGuest(r) ==
    /\ run[r].at = "up" /\ listener = "open" /\ messages < MaxMessages
    /\ messages' = messages + 1
    /\ conns' = conns \cup {[from |-> r, cid |-> run[r].cid, read |-> FALSE, nr |-> messages]}
    /\ UNCHANGED <<run, chan, open, inbox, heard, between, listener, panicked>>

\* handle: the message is complete, or the read fails or times out.
ReadMessage(m) ==
    /\ ~m.read
    /\ \/ conns' = (conns \ {m}) \cup {[m EXCEPT !.read = TRUE]}
       \/ conns' = conns \ {m}
    /\ UNCHANGED <<run, chan, open, inbox, heard, between, listener, panicked, messages>>

\* deliver, under l.mu: the channel of the CID if there is one and it has
\* room.
Deliver(m) ==
    LET ch == chan[m.cid] IN
    /\ m.read
    /\ conns' = conns \ {m}
    /\ panicked' = (panicked \/ (ch # NoRun /\ ch \notin open))
    /\ inbox' = IF ch = NoRun \/ Len(inbox[ch]) = notifyBuffer THEN inbox
                ELSE [inbox EXCEPT ![ch] = Append(@, m.from)]
    /\ UNCHANGED <<run, chan, open, heard, between, listener, messages>>

\* The supervisor reads its channel.
ReadNotify(r) ==
    LET ch == run[r].chan IN
    /\ run[r].at = "up" /\ inbox[ch] # <<>>
    /\ heard' = [heard EXCEPT ![r] = @ \cup {Head(inbox[ch])}]
    /\ inbox' = [inbox EXCEPT ![ch] = Tail(@)]
    /\ UNCHANGED <<run, chan, open, conns, between, listener, panicked, messages>>

EndRun(r) ==
    /\ run[r].at = "up"
    /\ run' = [run EXCEPT ![r].at = "exited"]
    /\ UNCHANGED <<chan, open, inbox, conns, heard, between, listener, panicked, messages>>

\* Mutant: the channel is closed and left in the table.
UnsubscribeClosing(c) == chan' = chan /\ open' = open \ {chan[c]}

\* Mutant: the channel is kept for the next boot.
UnsubscribeNot(c) == chan' = chan /\ open' = open

\* Unsubscribe: the channel is taken out and closed.
UnsubscribeCID(c) == chan' = [chan EXCEPT ![c] = NoRun] /\ open' = open \ {chan[c]}

\* onExit.
LeaveRun(r) ==
    /\ run[r].at = "exited"
    /\ UnsubscribeCID(run[r].cid)
    /\ run' = [run EXCEPT ![r].at = "over"]
    /\ UNCHANGED <<inbox, conns, heard, between, listener, panicked, messages>>

\* Close: nothing more is accepted ...
CloseListener ==
    /\ listener = "open"
    /\ listener' = "closing"
    /\ UNCHANGED <<run, chan, open, inbox, conns, heard, between, panicked, messages>>

\* ... and once the handlers are done every channel is closed.
CloseChannels ==
    /\ listener = "closing" /\ conns = {}
    /\ listener' = "closed"
    /\ open' = {} /\ chan' = [c \in Peer |-> NoRun]
    /\ UNCHANGED <<run, inbox, conns, heard, between, panicked, messages>>

NotifyNext ==
    \/ \E r \in Run :
         \/ \E c \in Peer : BeginRun(r, c)
         \/ ConnectGuest(r) \/ ReadNotify(r) \/ EndRun(r) \/ LeaveRun(r)
    \/ \E m \in conns : ReadMessage(m) \/ Deliver(m)
    \/ CloseListener \/ CloseChannels

NotifySpec == NotifyInit /\ [][NotifyNext]_notifyVars

-----------------------------------------------------------------------------
(* Properties.                                                             *)

\* What a supervisor takes for a message of its VM (READY=1 makes it ready)
\* was sent by this boot.  The exception is a message of an earlier holder of
\* the CID that was still being read when this boot subscribed: a channel
\* never hands on what was delivered to the boot before.  However Unsubscribe,
\* Close and the handlers interleave, none sends on a closed channel, which
\* would end vm-manager.
ReadyIsOwn == ~panicked /\ \A r \in Run : heard[r] \subseteq {r} \cup between[r]
=============================================================================
