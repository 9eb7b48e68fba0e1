--------------------------- MODULE NetworksProofs ---------------------------
(***************************************************************************)
(* Networks for every set of networks, VMs and callers, and any number of  *)
(* generations, addresses and restarts.  No address is leased twice, over  *)
(* crashes and reloads (NetInv); until vm-manager ends, a running VM has   *)
(* the address it booted with, and every lease has an owner (FirstRun).    *)
(*                                                                         *)
(* Each action has two lemmas: Kept about NetInv and Run about FirstRun.   *)
(* Most follow from what the action does to one call (Goes), to the leases *)
(* (Leasing) and to one VM (Tame).                                         *)
(***************************************************************************)
EXTENDS Networks, TLAPS, WellFoundedInduction

-----------------------------------------------------------------------------
(* The inductive invariant.                                                *)

Label == {"idle", "serve", "get", "listen", "register", "delete", "close", "unserve", "list",
          "states", "allocate", "launch", "provision", "record", "start", "attach", "qemu",
          "detach", "remove", "forget"}
NetOp == {"CreateNetwork", "DeleteNetwork", "undo"}
VMOp == {"Create", "Start", "Delete", "discard"}

Leases == [VM -> Addr \cup {NoAddr}]
Entry == [known : BOOLEAN, leases : Leases]
Named == [state : {"creating", "live", "stopped", "deleting", "failed"}, net : Net,
          ip : Addr \cup {NoAddr}]
Calls == [pc : Label, op : NetOp \cup VMOp \cup {"none"}, net : Net \cup {"none"},
          gen : Gen \cup {NoGen}, vm : VM \cup {"none"}, ip : Addr \cup {NoAddr},
          todo : SUBSET (Net \X Gen), states : [Net -> Entry]]

StoreTypes ==
  /\ nets \in [Net -> Gen \cup {NoGen}] /\ made \in [Net -> 0..MaxGen]
  /\ leases \in [Net -> [Gen -> Leases]] /\ closed \in [Net -> [Gen -> BOOLEAN]]
  /\ netFile \in [Net -> Entry] /\ present \in [VM -> BOOLEAN]
  /\ rec \in [VM -> Named \cup {NoRecord}] /\ vmFile \in [VM -> Named \cup {NoRecord}]
  /\ opMu \in [VM -> Caller \cup {Free}] /\ mMu \in Caller \cup {Free}
  /\ guest \in [VM -> [net : Net, ip : Addr \cup {NoAddr}] \cup {NoGuest}]
  /\ svc \in {"down", "loading", "serving"}
  /\ unloaded \subseteq VM /\ restarts \in Nat

\* Where a call is, the names and the generation it goes on with.
ShapedAt(pc, op, n, g, v) ==
  /\ pc = "idle" <=> op = "none"
  /\ pc \in {"serve", "get", "listen", "register", "delete", "close", "unserve"} =>
       op \in NetOp /\ n \in Net
  /\ pc \in {"close", "listen", "attach", "qemu", "allocate", "launch", "provision", "record"} =>
       n \in Net /\ g \in Gen
  /\ pc \in {"allocate", "launch", "provision", "record"} => op = "Create"
  /\ pc \in {"start", "attach", "qemu"} => op \in {"Create", "Start"}
  /\ pc \in {"detach", "remove", "forget"} => op \in {"Delete", "discard"}
  /\ pc \in {"list", "states"} => op \in NetOp \cup {"Create", "Delete", "discard"}
  /\ op \in VMOp <=> v \in VM

\* What it read for networks.json can be restored.
Shaped(k) ==
  /\ ShapedAt(k.pc, k.op, k.net, k.gen, k.vm)
  /\ \A n \in Net : Restorable(k.states[n].leases)

\* What a call holds: opMu of its VM, past launch, and Manager.mu between the
\* two steps of Manager.Delete.
LockedAt(c, pc, n, g, v) ==
  /\ v \in VM /\ pc \notin {"allocate", "launch"} => opMu[v] = c
  /\ v \in VM /\ pc # "allocate" => rec[v] # NoRecord
  /\ pc = "close" => mMu = c /\ nets[n] = g

Locked(c) == LockedAt(c, call[c].pc, call[c].net, call[c].gen, call[c].vm)

Loading ==
  /\ svc # "serving" => \A c \in Caller : call[c] = Idle
  /\ svc = "serving" => unloaded = {}
  /\ \A v \in unloaded : vmFile[v] # NoRecord
  /\ \A v \in VM : present[v] => rec[v] # NoRecord

NetInv ==
  /\ StoreTypes /\ call \in [Caller -> Calls] /\ LeasesUnique /\ Loading
  /\ \A c \in Caller : Shaped(call[c]) /\ Locked(c)

\* The generations of a name follow each other; the one it stands for is the
\* last, and those before it are closed.
Numbered(n) ==
  /\ nets[n] <= made[n]
  /\ \A g \in Gen : g > made[n] => leases[n][g] = NoLeases
  /\ \A g \in Gen : g <= made[n] /\ g # nets[n] => closed[n][g]

\* The VM has no lease in a network that is up.
NoLease(v) == \A n \in Net : nets[n] # NoGen => leases[n][nets[n]][v] = NoAddr

\* What a call may count on, where it is: an id nobody has used, the network of
\* the record, the lease it will boot with, or that the VM has none left.
FreshAt(c, pc, op, n, g, v, i) ==
  /\ pc = "allocate" =>
       /\ rec[v] = NoRecord /\ vmFile[v] = NoRecord /\ guest[v] = NoGuest /\ ~present[v]
       /\ \A d \in Caller \ {c} : call[d].vm # v
  /\ pc \in {"launch", "provision", "record", "attach", "qemu"} => n = rec[v].net
  /\ pc = "qemu" => i # NoAddr /\ leases[n][g][v] = i
  /\ (pc \in {"remove", "forget"} \/ (pc \in {"list", "states"} /\ op \in {"Delete", "discard"})) =>
       NoLease(v)
  /\ n \in Net => g <= made[n]

Fresh(c) ==
  FreshAt(c, call[c].pc, call[c].op, call[c].net, call[c].gen, call[c].vm, call[c].ip)

\* Leases are in the network of the record, and the address of a guest is one.
Attachment(v) ==
  /\ \A n \in Net, g \in Gen : leases[n][g][v] # NoAddr => rec[v].net = n
  /\ present[v] /\ guest[v] # NoGuest =>
       guest[v].ip # NoAddr /\ \E g \in Gen : leases[guest[v].net][g][v] = guest[v].ip

\* Until vm-manager ends.
FirstRun ==
  restarts = 0 =>
    /\ svc = "serving" /\ LeaseHasOwner
    /\ \A n \in Net : Numbered(n)
    /\ \A c \in Caller : Fresh(c)
    /\ \A v \in VM : Attachment(v)

NetworksInv == NetInv /\ FirstRun

-----------------------------------------------------------------------------
(* Every action keeps NetInv.                                              *)

\* A step that moves call c and leaves the others where they are.
Goes(c, pc, op, n, g, v, i) ==
  /\ call' \in [Caller -> Calls]
  /\ \A d \in Caller \ {c} : call'[d] = call[d]
  /\ call'[c].pc = pc /\ call'[c].op = op /\ call'[c].net = n /\ call'[c].gen = g
  /\ call'[c].vm = v /\ call'[c].ip = i
  /\ \A m \in Net : Restorable(call'[c].states[m].leases)

\* A call that is idle.
LEMMA Idles ==
  /\ Idle \in Calls /\ Idle.pc = "idle" /\ Idle.op = "none" /\ Idle.net = "none"
  /\ Idle.gen = NoGen /\ Idle.vm = "none" /\ Idle.ip = NoAddr /\ Idle.states = [n \in Net |-> NoNet]
  /\ \A n \in Net : Restorable(Idle.states[n].leases)
<1>1. NoLeases \in Leases /\ Restorable(NoLeases)
  BY DEF NoLeases, Leases, Restorable, NoAddr
<1>2. NoNet \in Entry /\ NoNet.leases = NoLeases
  BY Zenon, <1>1 DEF NoNet, Entry
<1>3. [n \in Net |-> NoNet] \in [Net -> Entry]
  BY Zenon, <1>2
<1>4. Idle \in Calls
  BY <1>3 DEF Idle, Calls, Label, NetOp, VMOp
<1>5. /\ Idle.pc = "idle" /\ Idle.op = "none" /\ Idle.net = "none"
      /\ Idle.gen = NoGen /\ Idle.vm = "none" /\ Idle.ip = NoAddr /\ Idle.states = [n \in Net |-> NoNet]
  BY Zenon DEF Idle
<1> QED BY Zenon, <1>1, <1>2, <1>4, <1>5

\* Goto.
LEMMA GotoGoes ==
  ASSUME NetInv, NEW c \in Caller, NEW l \in Label, Goto(c, l)
  PROVE Goes(c, l, call[c].op, call[c].net, call[c].gen, call[c].vm, call[c].ip)
<1>1. call \in [Caller -> Calls] /\ \A m \in Net : Restorable(call[c].states[m].leases)
  BY Zenon DEF NetInv, Shaped
<1>2. call'[c] = [call[c] EXCEPT !.pc = l] /\ \A d \in Caller \ {c} : call'[d] = call[d]
  BY Zenon, <1>1 DEF Goto
<1>3. /\ call'[c] \in Calls /\ call'[c].pc = l
      /\ call'[c].op = call[c].op /\ call'[c].net = call[c].net /\ call'[c].gen = call[c].gen
      /\ call'[c].vm = call[c].vm /\ call'[c].ip = call[c].ip /\ call'[c].states = call[c].states
  <2>1. call[c] \in Calls
    BY Zenon, <1>1
  <2>2. call'[c] \in Calls /\ call'[c].pc = l
    BY Zenon, <1>2, <2>1 DEF Calls
  <2>3. /\ call'[c].op = call[c].op /\ call'[c].net = call[c].net /\ call'[c].gen = call[c].gen
        /\ call'[c].vm = call[c].vm /\ call'[c].ip = call[c].ip /\ call'[c].states = call[c].states
    BY Zenon, <1>2, <2>1 DEF Calls
  <2> QED BY Zenon, <2>2, <2>3
<1>4. call' \in [Caller -> Calls]
  BY Zenon, <1>1, <1>2, <1>3 DEF Goto
<1> QED BY Zenon, <1>1, <1>2, <1>3, <1>4 DEF Goes

\* Return.
LEMMA ReturnGoes ==
  ASSUME NetInv, NEW c \in Caller, Return(c)
  PROVE Goes(c, "idle", "none", "none", NoGen, "none", NoAddr) /\ call'[c] = Idle
<1>1. call \in [Caller -> Calls]
  BY Zenon DEF NetInv
<1>2. /\ call'[c] = Idle /\ \A d \in Caller \ {c} : call'[d] = call[d]
      /\ call' \in [Caller -> Calls]
  BY Zenon, <1>1, Idles DEF Return
<1> QED BY Zenon, <1>2, Idles DEF Goes

\* A call that has changed in two fields is a call.
LEMMA Updated ==
  ASSUME NEW k \in Calls, NEW l \in Label
  PROVE /\ \A o \in NetOp \cup VMOp : [k EXCEPT !.pc = l, !.op = o] \in Calls
        /\ \A g \in Gen : [k EXCEPT !.pc = l, !.gen = g] \in Calls
        /\ \A i \in Addr : [k EXCEPT !.pc = l, !.ip = i] \in Calls
<1>1. ASSUME NEW o \in NetOp \cup VMOp PROVE [k EXCEPT !.pc = l, !.op = o] \in Calls
  BY Zenon DEF Calls
<1>2. ASSUME NEW g \in Gen PROVE [k EXCEPT !.pc = l, !.gen = g] \in Calls
  BY Zenon DEF Calls
<1>3. ASSUME NEW i \in Addr PROVE [k EXCEPT !.pc = l, !.ip = i] \in Calls
  BY Zenon DEF Calls
<1> QED BY Zenon, <1>1, <1>2, <1>3

\* A call goes on with another operation.
LEMMA TurnGoes ==
  ASSUME NetInv, NEW c \in Caller, NEW l \in Label, NEW o \in NetOp \cup VMOp,
         call' = [call EXCEPT ![c].pc = l, ![c].op = o]
  PROVE Goes(c, l, o, call[c].net, call[c].gen, call[c].vm, call[c].ip)
<1>1. call \in [Caller -> Calls] /\ \A m \in Net : Restorable(call[c].states[m].leases)
  BY Zenon DEF NetInv, Shaped
<1>2. call'[c] = [call[c] EXCEPT !.pc = l, !.op = o] /\ \A d \in Caller \ {c} : call'[d] = call[d]
  BY <1>1
<1>3. /\ call'[c].pc = l
      /\ call'[c].op = o /\ call'[c].net = call[c].net /\ call'[c].gen = call[c].gen
      /\ call'[c].vm = call[c].vm /\ call'[c].ip = call[c].ip /\ call'[c].states = call[c].states
  BY <1>1, <1>2 DEF Calls
<1>4. call' \in [Caller -> Calls]
  <2>1. call'[c] \in Calls
    BY Zenon, <1>1, <1>2, Updated
  <2>2. call' = [d \in Caller |-> call'[d]]
    BY <1>1
  <2> QED BY Zenon, <1>1, <1>2, <2>1, <2>2
<1> QED BY Zenon, <1>1, <1>2, <1>3, <1>4 DEF Goes

\* A call goes on with a generation.
LEMMA TakeGoes ==
  ASSUME NetInv, NEW c \in Caller, NEW l \in Label, NEW g \in Gen,
         call' = [call EXCEPT ![c].pc = l, ![c].gen = g]
  PROVE Goes(c, l, call[c].op, call[c].net, g, call[c].vm, call[c].ip)
<1>1. call \in [Caller -> Calls] /\ \A m \in Net : Restorable(call[c].states[m].leases)
  BY Zenon DEF NetInv, Shaped
<1>2. call'[c] = [call[c] EXCEPT !.pc = l, !.gen = g] /\ \A d \in Caller \ {c} : call'[d] = call[d]
  BY <1>1
<1>3. /\ call'[c].pc = l
      /\ call'[c].op = call[c].op /\ call'[c].net = call[c].net /\ call'[c].gen = g
      /\ call'[c].vm = call[c].vm /\ call'[c].ip = call[c].ip /\ call'[c].states = call[c].states
  BY <1>1, <1>2 DEF Calls
<1>4. call' \in [Caller -> Calls]
  <2>1. call'[c] \in Calls
    BY Zenon, <1>1, <1>2, Updated
  <2>2. call' = [d \in Caller |-> call'[d]]
    BY <1>1
  <2> QED BY Zenon, <1>1, <1>2, <2>1, <2>2
<1> QED BY Zenon, <1>1, <1>2, <1>3, <1>4 DEF Goes

\* A call goes on with the address Attach gave it.
LEMMA LeaseGoes ==
  ASSUME NetInv, NEW c \in Caller, NEW l \in Label, NEW i \in Addr,
         call' = [call EXCEPT ![c].pc = l, ![c].ip = i]
  PROVE Goes(c, l, call[c].op, call[c].net, call[c].gen, call[c].vm, i)
<1>1. call \in [Caller -> Calls] /\ \A m \in Net : Restorable(call[c].states[m].leases)
  BY Zenon DEF NetInv, Shaped
<1>2. call'[c] = [call[c] EXCEPT !.pc = l, !.ip = i] /\ \A d \in Caller \ {c} : call'[d] = call[d]
  BY <1>1
<1>3. /\ call'[c].pc = l
      /\ call'[c].op = call[c].op /\ call'[c].net = call[c].net /\ call'[c].gen = call[c].gen
      /\ call'[c].vm = call[c].vm /\ call'[c].ip = i /\ call'[c].states = call[c].states
  BY <1>1, <1>2 DEF Calls
<1>4. call' \in [Caller -> Calls]
  <2>1. call'[c] \in Calls
    BY Zenon, <1>1, <1>2, Updated
  <2>2. call' = [d \in Caller |-> call'[d]]
    BY <1>1
  <2> QED BY Zenon, <1>1, <1>2, <2>1, <2>2
<1> QED BY Zenon, <1>1, <1>2, <1>3, <1>4 DEF Goes

\* A call begins.
LEMMA BeginGoes ==
  ASSUME NetInv, NEW c \in Caller, NEW k \in Calls, k.states = Idle.states,
         call' = [call EXCEPT ![c] = k]
  PROVE Goes(c, k.pc, k.op, k.net, k.gen, k.vm, k.ip)
<1>1. call \in [Caller -> Calls]
  BY Zenon DEF NetInv
<1>2. /\ call'[c] = k /\ \A d \in Caller \ {c} : call'[d] = call[d]
      /\ call' \in [Caller -> Calls]
  BY Zenon, <1>1
<1> QED BY Zenon, <1>2, Idles DEF Goes

\* A call on a network begins.
LEMMA NetCallGoes ==
  ASSUME NetInv, NEW c \in Caller, NEW l \in Label, NEW o \in NetOp, NEW n \in Net,
         call' = [call EXCEPT ![c] = [Idle EXCEPT !.pc = l, !.op = o, !.net = n]]
  PROVE Goes(c, l, o, n, NoGen, "none", NoAddr)
<1> SUFFICES ASSUME NEW k, k = [Idle EXCEPT !.pc = l, !.op = o, !.net = n]
             PROVE Goes(c, l, o, n, NoGen, "none", NoAddr)
  BY Zenon
<1>1. /\ k.states = Idle.states /\ k.pc = l /\ k.op = o /\ k.net = n
      /\ k.gen = NoGen /\ k.vm = "none" /\ k.ip = NoAddr
  BY Idles DEF Calls
<1>2. k \in Calls
  BY Zenon, Idles DEF Calls
<1> QED BY Zenon, <1>1, <1>2, BeginGoes

\* A call on a VM begins.
LEMMA VMCallGoes ==
  ASSUME NetInv, NEW c \in Caller, NEW l \in Label, NEW o \in VMOp, NEW v \in VM,
         call' = [call EXCEPT ![c] = [Idle EXCEPT !.pc = l, !.op = o, !.vm = v]]
  PROVE Goes(c, l, o, "none", NoGen, v, NoAddr)
<1> SUFFICES ASSUME NEW k, k = [Idle EXCEPT !.pc = l, !.op = o, !.vm = v]
             PROVE Goes(c, l, o, "none", NoGen, v, NoAddr)
  BY Zenon
<1>1. /\ k.states = Idle.states /\ k.pc = l /\ k.op = o /\ k.net = "none"
      /\ k.gen = NoGen /\ k.vm = v /\ k.ip = NoAddr
  BY Idles DEF Calls
<1>2. k \in Calls
  BY Zenon, Idles DEF Calls
<1> QED BY Zenon, <1>1, <1>2, BeginGoes

\* Create begins.
LEMMA CreateGoes ==
  ASSUME NetInv, NEW c \in Caller, NEW v \in VM, NEW n \in Net, NEW g \in Gen,
         call' = [call EXCEPT ![c] = [Idle EXCEPT !.pc = "allocate", !.op = "Create",
                                                  !.net = n, !.gen = g, !.vm = v]]
  PROVE Goes(c, "allocate", "Create", n, g, v, NoAddr)
<1> SUFFICES ASSUME NEW k, k = [Idle EXCEPT !.pc = "allocate", !.op = "Create",
                                            !.net = n, !.gen = g, !.vm = v]
             PROVE Goes(c, "allocate", "Create", n, g, v, NoAddr)
  BY Zenon
<1>0. "allocate" \in Label /\ "Create" \in VMOp
  BY Zenon DEF Label, VMOp
<1>1. /\ k.states = Idle.states /\ k.pc = "allocate" /\ k.op = "Create" /\ k.net = n
      /\ k.gen = g /\ k.vm = v /\ k.ip = NoAddr
  BY Idles DEF Calls
<1>2. k \in Calls
  BY Zenon, <1>0, Idles DEF Calls
<1> QED BY Zenon, <1>1, <1>2, BeginGoes

\* What a step of call c leaves alone: the locks of the others, and the
\* networks while another call has Manager.mu.
Respects(c) ==
  /\ \A w \in VM : opMu'[w] = opMu[w] \/ opMu[w] \in {Free, c}
  /\ \A w \in VM : rec[w] # NoRecord => rec'[w] # NoRecord
  /\ (mMu' = mMu /\ nets' = nets) \/ mMu \in {Free, c}
  /\ svc = "serving" /\ UNCHANGED <<svc, unloaded, restarts>>

\* A call that moves, in a step that respects the others, keeps the invariant
\* when it is well-formed and holds its locks after the step.
LEMMA CallStep ==
  ASSUME NetInv, NEW c \in Caller, NEW l, NEW o, NEW n, NEW g, NEW v, NEW i,
         Goes(c, l, o, n, g, v, i), ShapedAt(l, o, n, g, v), LockedAt(c, l, n, g, v)',
         Respects(c), StoreTypes', LeasesUnique', \A w \in VM : present'[w] => rec'[w] # NoRecord
  PROVE NetInv'
<1>1. Shaped(call'[c]) /\ Locked(c)'
  BY Zenon DEF Goes, Shaped, Locked
<1>2. ASSUME NEW d \in Caller \ {c} PROVE Shaped(call'[d]) /\ Locked(d)'
  <2>1. call'[d] = call[d] /\ Shaped(call[d]) /\ Locked(d) /\ d # c /\ d # Free
    BY Zenon, FreeAssumption DEF Goes, NetInv
  <2>2. /\ call[d].vm \in VM /\ call[d].pc \notin {"allocate", "launch"} => opMu'[call[d].vm] = d
        /\ call[d].vm \in VM /\ call[d].pc # "allocate" => rec'[call[d].vm] # NoRecord
    BY Zenon, <2>1 DEF Locked, LockedAt, Respects
  <2>3. call[d].pc = "close" => mMu' = d /\ nets'[call[d].net] = call[d].gen
    BY Zenon, <2>1 DEF Locked, LockedAt, Respects
  <2> QED BY Zenon, <2>1, <2>2, <2>3 DEF Locked, LockedAt
<1>3. Loading'
  BY Zenon DEF NetInv, Loading, Respects
<1>4. call' \in [Caller -> Calls]
  BY Zenon DEF Goes
<1> QED BY Zenon, <1>1, <1>2, <1>3, <1>4 DEF NetInv

\* A set of numbers that is not empty has its least element.
LEMMA LeastOfSome ==
  ASSUME NEW S, S \subseteq Nat, S # {}
  PROVE  Min(S) \in S
<1>1. PICK x \in S : \A y \in S : ~(<<y, x>> \in OpToRel(<, Nat))
  BY WFMin, NatLessThanWellFounded, Zenon
<1>2. ASSUME NEW y \in S, y < x PROVE FALSE
  <2>1. <<y, x>> \in Nat \X Nat /\ <<y, x>>[1] < <<y, x>>[2]
    BY <1>2
  <2>2. <<y, x>> \in OpToRel(<, Nat)
    BY <2>1, Zenon DEF OpToRel
  <2> QED BY Zenon, <2>2, <1>1
<1>3. \A y \in S : x <= y
  BY <1>2
<1> QED BY <1>3 DEF Min

\* A call at work has a service to work in.
LEMMA Working == ASSUME NetInv, NEW c \in Caller, call[c].pc # "idle" PROVE svc = "serving"
<1>1. call[c] # Idle
  BY Zenon, Idles
<1> QED BY Zenon, <1>1 DEF NetInv, Loading

\* A step that only moves a call.
LEMMA PureStep ==
  ASSUME NetInv, NEW c \in Caller, NEW l, NEW o, NEW n, NEW g, NEW v, NEW i,
         Goes(c, l, o, n, g, v, i), ShapedAt(l, o, n, g, v), LockedAt(c, l, n, g, v),
         svc = "serving", UNCHANGED <<nets, made, leases, closed, mMu, netFile, vmVars, svcVars>>
  PROVE NetInv'
<1>1. UNCHANGED <<nets, made, leases, closed, mMu, netFile, present, rec, vmFile, opMu, guest,
                  svc, unloaded, restarts>>
  BY Zenon DEF vmVars, svcVars
<1>2. StoreTypes' /\ LeasesUnique' /\ LockedAt(c, l, n, g, v)'
  BY Zenon, <1>1 DEF NetInv, StoreTypes, LeasesUnique, LockedAt
<1>3. Respects(c) /\ \A w \in VM : present'[w] => rec'[w] # NoRecord
  BY Zenon, <1>1 DEF Respects, NetInv, Loading
<1> QED BY Zenon, <1>2, <1>3, CallStep

\* What a call that is at work has and holds.
LEMMA AtWork ==
  ASSUME NetInv, NEW c \in Caller
  PROVE /\ call[c] \in Calls /\ ShapedAt(call[c].pc, call[c].op, call[c].net, call[c].gen, call[c].vm)
        /\ LockedAt(c, call[c].pc, call[c].net, call[c].gen, call[c].vm)
BY Zenon DEF NetInv, Shaped, Locked

\* ServeIMDS: the first look at s.imds.
LEMMA ServeIMDSKept == ASSUME NetInv, NEW c \in Caller, ServeIMDS(c) PROVE NetInv'
<1>1. PICK l \in {"list", "get"} : Goto(c, l) /\ call[c].pc = "serve"
  BY Zenon DEF ServeIMDS
<1>2. Goes(c, l, call[c].op, call[c].net, call[c].gen, call[c].vm, call[c].ip)
  BY Zenon, <1>1, GotoGoes DEF Label
<1>3. ShapedAt(l, call[c].op, call[c].net, call[c].gen, call[c].vm)
  BY <1>1, AtWork DEF ShapedAt, NetOp, VMOp
<1>4. LockedAt(c, l, call[c].net, call[c].gen, call[c].vm)
  BY <1>1, AtWork DEF LockedAt
<1>5. UNCHANGED <<nets, made, leases, closed, mMu, netFile, vmVars, svcVars>> /\ svc = "serving"
  BY <1>1, Working DEF ServeIMDS, netVars
<1> QED BY Zenon, <1>2, <1>3, <1>4, <1>5, PureStep

\* ServeIMDS: Networks.Get.
LEMMA GetNetworkKept == ASSUME NetInv, NEW c \in Caller, GetNetwork(c) PROVE NetInv'
<1>1. call[c].pc = "get" /\ call[c].net \in Net
  BY AtWork DEF GetNetwork, ShapedAt
<1>2. UNCHANGED <<nets, made, leases, closed, mMu, netFile, vmVars, svcVars>> /\ svc = "serving"
  BY <1>1, Working DEF GetNetwork, netVars
<1>3. CASE nets[call[c].net] = NoGen
  <2>1. Goes(c, "delete", "undo", call[c].net, call[c].gen, call[c].vm, call[c].ip)
    BY Zenon, <1>3, TurnGoes DEF GetNetwork, Undo, Label, NetOp
  <2>2. ShapedAt("delete", "undo", call[c].net, call[c].gen, call[c].vm)
    BY <1>1, AtWork DEF ShapedAt, NetOp, VMOp
  <2>3. LockedAt(c, "delete", call[c].net, call[c].gen, call[c].vm)
    BY <1>1, AtWork DEF LockedAt
  <2> QED BY Zenon, <1>2, <2>1, <2>2, <2>3, PureStep
<1>4. CASE nets[call[c].net] # NoGen
  <2>0. nets[call[c].net] \in Gen
    BY <1>1, <1>4 DEF NetInv, StoreTypes
  <2>1. Goes(c, "listen", call[c].op, call[c].net, nets[call[c].net], call[c].vm, call[c].ip)
    BY Zenon, <1>4, <2>0, TakeGoes DEF GetNetwork, Label
  <2>2. ShapedAt("listen", call[c].op, call[c].net, nets[call[c].net], call[c].vm)
    BY <1>1, <2>0, AtWork DEF ShapedAt, NetOp, VMOp
  <2>3. LockedAt(c, "listen", call[c].net, nets[call[c].net], call[c].vm)
    BY <1>1, AtWork DEF LockedAt
  <2> QED BY Zenon, <1>2, <2>1, <2>2, <2>3, PureStep
<1> QED BY Zenon, <1>3, <1>4

\* ServeIMDS: Network.ListenIMDS.
LEMMA ListenIMDSKept == ASSUME NetInv, NEW c \in Caller, ListenIMDS(c) PROVE NetInv'
<1>1. call[c].pc = "listen"
  BY Zenon DEF ListenIMDS
<1>2. UNCHANGED <<nets, made, leases, closed, mMu, netFile, vmVars, svcVars>> /\ svc = "serving"
  BY <1>1, Working DEF ListenIMDS, netVars
<1>3. CASE Undo(c)
  <2>1. Goes(c, "delete", "undo", call[c].net, call[c].gen, call[c].vm, call[c].ip)
    BY Zenon, <1>3, TurnGoes DEF Undo, Label, NetOp
  <2>2. ShapedAt("delete", "undo", call[c].net, call[c].gen, call[c].vm)
    BY <1>1, AtWork DEF ShapedAt, NetOp, VMOp
  <2>3. LockedAt(c, "delete", call[c].net, call[c].gen, call[c].vm)
    BY <1>1, AtWork DEF LockedAt
  <2> QED BY Zenon, <1>2, <2>1, <2>2, <2>3, PureStep
<1>4. CASE Goto(c, "register")
  <2>1. Goes(c, "register", call[c].op, call[c].net, call[c].gen, call[c].vm, call[c].ip)
    BY Zenon, <1>4, GotoGoes DEF Label
  <2>2. ShapedAt("register", call[c].op, call[c].net, call[c].gen, call[c].vm)
    BY <1>1, AtWork DEF ShapedAt, NetOp, VMOp
  <2>3. LockedAt(c, "register", call[c].net, call[c].gen, call[c].vm)
    BY <1>1, AtWork DEF LockedAt
  <2> QED BY Zenon, <1>2, <2>1, <2>2, <2>3, PureStep
<1> QED BY Zenon, <1>3, <1>4 DEF ListenIMDS

\* The server is entered in s.imds, or taken out of it.
LEMMA RegisterIMDSKept == ASSUME NetInv, NEW c \in Caller, RegisterIMDS(c) \/ Unserve(c) PROVE NetInv'
<1>1. call[c].pc \in {"register", "unserve"} /\ Goto(c, "list")
  BY Zenon DEF RegisterIMDS, Unserve
<1>2. Goes(c, "list", call[c].op, call[c].net, call[c].gen, call[c].vm, call[c].ip)
  BY Zenon, <1>1, GotoGoes DEF Label
<1>3. ShapedAt("list", call[c].op, call[c].net, call[c].gen, call[c].vm)
  BY <1>1, AtWork DEF ShapedAt, NetOp, VMOp
<1>4. LockedAt(c, "list", call[c].net, call[c].gen, call[c].vm)
  BY <1>1, AtWork DEF LockedAt
<1>5. UNCHANGED <<nets, made, leases, closed, mMu, netFile, vmVars, svcVars>> /\ svc = "serving"
  BY <1>1, Working DEF RegisterIMDS, Unserve
<1> QED BY Zenon, <1>2, <1>3, <1>4, <1>5, PureStep

\* DeleteNetwork: no VM of the service names the network.
LEMMA DeleteNetworkKept ==
  ASSUME NetInv, NEW c \in Caller, NEW n \in Net, DeleteNetwork(c, n) PROVE NetInv'
<1>3. Goes(c, "delete", "DeleteNetwork", n, NoGen, "none", NoAddr)
  BY Zenon, NetCallGoes DEF DeleteNetwork, Label, NetOp
<1>4. ShapedAt("delete", "DeleteNetwork", n, NoGen, "none")
  BY NamesAssumption DEF ShapedAt, NetOp, VMOp
<1>5. LockedAt(c, "delete", n, NoGen, "none")
  BY NamesAssumption DEF LockedAt
<1>6. UNCHANGED <<nets, made, leases, closed, mMu, netFile, vmVars, svcVars>> /\ svc = "serving"
  BY Zenon DEF DeleteNetwork, netVars
<1> QED BY Zenon, <1>3, <1>4, <1>5, <1>6, PureStep

\* Manager.Create makes the next generation of the name.
LEMMA CreateNetworkKept ==
  ASSUME NetInv, NEW c \in Caller, NEW n \in Net, CreateNetwork(c, n) PROVE NetInv'
<1>3. Goes(c, "serve", "CreateNetwork", n, NoGen, "none", NoAddr)
  BY Zenon, NetCallGoes DEF CreateNetwork, Label, NetOp
<1>4. ShapedAt("serve", "CreateNetwork", n, NoGen, "none")
  BY NamesAssumption DEF ShapedAt, NetOp, VMOp
<1>5. LockedAt(c, "serve", n, NoGen, "none")'
  BY NamesAssumption DEF LockedAt
<1>6. /\ UNCHANGED <<leases, closed, mMu, netFile, present, rec, vmFile, opMu, guest, svc, unloaded,
                     restarts>>
      /\ svc = "serving" /\ mMu = Free
  BY Zenon DEF CreateNetwork, vmVars, svcVars
<1>7. nets' \in [Net -> Gen \cup {NoGen}] /\ made' \in [Net -> 0..MaxGen]
  BY BoundsAssumption DEF CreateNetwork, NetInv, StoreTypes, Gen
<1>8. StoreTypes' /\ LeasesUnique'
  BY Zenon, <1>6, <1>7 DEF NetInv, StoreTypes, LeasesUnique
<1>9. Respects(c) /\ \A w \in VM : present'[w] => rec'[w] # NoRecord
  BY Zenon, <1>6 DEF Respects, NetInv, Loading
<1> QED BY Zenon, <1>3, <1>4, <1>5, <1>8, <1>9, CallStep

\* Manager.Delete: unknown or in use, or on to Close with the mutex kept.
LEMMA DeleteChecksKept == ASSUME NetInv, NEW c \in Caller, DeleteChecks(c) PROVE NetInv'
<1> SUFFICES ASSUME NEW k, k = call[c] PROVE NetInv'
  BY Zenon
<1>1. /\ k.pc = "delete" /\ k.net \in Net /\ k.op \in NetOp /\ k.vm \notin VM
      /\ k.op \notin VMOp
  BY AtWork DEF DeleteChecks, ShapedAt, NetOp, VMOp
<1>2. /\ UNCHANGED <<nets, made, leases, closed, netFile, present, rec, vmFile, opMu, guest, svc,
                     unloaded, restarts>>
      /\ svc = "serving" /\ mMu = Free
  BY <1>1, Working DEF DeleteChecks, vmVars, svcVars
<1>3. Respects(c) /\ \A w \in VM : present'[w] => rec'[w] # NoRecord
  BY Zenon, <1>2 DEF Respects, NetInv, Loading
<1>4. mMu' \in Caller \cup {Free}
  BY Zenon, <1>2 DEF DeleteChecks
<1>5. StoreTypes' /\ LeasesUnique'
  BY Zenon, <1>2, <1>4 DEF NetInv, StoreTypes, LeasesUnique
<1>6. CASE Deletable(k.net)
  <2>0. PICK g \in Gen : g = nets[k.net]
    BY <1>1, <1>6 DEF Deletable, NetInv, StoreTypes
  <2>1. Goes(c, "close", k.op, k.net, g, k.vm, k.ip)
    BY Zenon, <1>6, <2>0, TakeGoes DEF DeleteChecks, Label
  <2>2. ShapedAt("close", k.op, k.net, g, k.vm)
    BY <1>1, <2>0 DEF ShapedAt, NetOp
  <2>3. LockedAt(c, "close", k.net, g, k.vm)'
    BY Zenon, <1>1, <1>2, <1>6, <2>0 DEF LockedAt, DeleteChecks
  <2> QED BY Zenon, <1>3, <1>5, <2>1, <2>2, <2>3, CallStep
<1>7. CASE ~Deletable(k.net)
  <2>1. Goes(c, "idle", "none", "none", NoGen, "none", NoAddr)
    BY Zenon, <1>7, ReturnGoes DEF DeleteChecks
  <2>2. ShapedAt("idle", "none", "none", NoGen, "none") /\ LockedAt(c, "idle", "none", NoGen, "none")'
    BY NamesAssumption DEF ShapedAt, NetOp, VMOp, LockedAt
  <2> QED BY Zenon, <1>3, <1>5, <2>1, <2>2, CallStep
<1> QED BY Zenon, <1>6, <1>7

\* Manager.Delete: Network.Close and the end of the name.
LEMMA CloseNetworkKept == ASSUME NetInv, NEW c \in Caller, CloseNetwork(c) PROVE NetInv'
<1> SUFFICES ASSUME NEW k, k = call[c] PROVE NetInv'
  BY Zenon
<1>1. /\ k.pc = "close" /\ k.net \in Net /\ k.gen \in Gen /\ k.op \in NetOp
      /\ k.vm \notin VM /\ k.op \notin VMOp /\ mMu = c
  BY AtWork DEF CloseNetwork, ShapedAt, NetOp, VMOp, LockedAt
<1>2. /\ UNCHANGED <<made, leases, netFile, present, rec, vmFile, opMu, guest, svc, unloaded, restarts>>
      /\ svc = "serving" /\ mMu' = Free /\ nets' = [nets EXCEPT ![k.net] = NoGen]
      /\ closed' = [closed EXCEPT ![k.net][k.gen] = TRUE]
  BY <1>1, Working DEF CloseNetwork, vmVars, svcVars
<1>3. Respects(c) /\ \A w \in VM : present'[w] => rec'[w] # NoRecord
  BY Zenon, <1>1, <1>2 DEF Respects, NetInv, Loading
<1>4. nets' \in [Net -> Gen \cup {NoGen}] /\ closed' \in [Net -> [Gen -> BOOLEAN]]
  BY <1>1, <1>2 DEF NetInv, StoreTypes
<1>5. StoreTypes' /\ LeasesUnique'
  BY Zenon, <1>2, <1>4 DEF NetInv, StoreTypes, LeasesUnique
<1>6. CASE Return(c)
  <2>1. Goes(c, "idle", "none", "none", NoGen, "none", NoAddr)
    BY Zenon, <1>6, ReturnGoes
  <2>2. ShapedAt("idle", "none", "none", NoGen, "none") /\ LockedAt(c, "idle", "none", NoGen, "none")'
    BY NamesAssumption DEF ShapedAt, NetOp, VMOp, LockedAt
  <2> QED BY Zenon, <1>3, <1>5, <2>1, <2>2, CallStep
<1>7. CASE Goto(c, "unserve")
  <2>1. Goes(c, "unserve", k.op, k.net, k.gen, k.vm, k.ip)
    BY Zenon, <1>7, GotoGoes DEF Label
  <2>2. ShapedAt("unserve", k.op, k.net, k.gen, k.vm) /\ LockedAt(c, "unserve", k.net, k.gen, k.vm)'
    BY <1>1 DEF ShapedAt, NetOp, VMOp, LockedAt
  <2> QED BY Zenon, <1>3, <1>5, <2>1, <2>2, CallStep
<1> QED BY Zenon, <1>6, <1>7 DEF CloseNetwork

\* Manager.List and Network.State read what the leases are.
LEMMA ListGoes ==
  ASSUME NetInv, NEW c \in Caller, NEW k, k = call[c],
         List(c) \/ \E n \in Net, g \in Gen : State(c, n, g)
  PROVE Goes(c, "states", k.op, k.net, k.gen, k.vm, k.ip)
<1>0. call \in [Caller -> Calls] /\ k \in Calls /\ \A n \in Net : Restorable(k.states[n].leases)
  BY Zenon DEF NetInv, Shaped
<1>3. ASSUME NEW x \in Calls, \A n \in Net : Restorable(x.states[n].leases),
             x.pc = "states", x.op = k.op, x.net = k.net, x.gen = k.gen, x.vm = k.vm, x.ip = k.ip,
             call' = [call EXCEPT ![c] = x]
      PROVE Goes(c, "states", k.op, k.net, k.gen, k.vm, k.ip)
  <2>1. /\ call' \in [Caller -> Calls] /\ call'[c] = x
        /\ \A d \in Caller \ {c} : call'[d] = call[d]
    BY Zenon, <1>0, <1>3
  <2> QED BY Zenon, <1>3, <2>1 DEF Goes
<1>4. CASE List(c)
  <2> DEFINE t == {<<n, nets[n]>> : n \in {m \in Net : nets[m] # NoGen}}
             r == [n \in Net |-> NoNet]
             x == [k EXCEPT !.pc = "states", !.todo = t, !.states = r]
  <2>1. t \in SUBSET (Net \X Gen)
    BY DEF NetInv, StoreTypes
  <2>2. r \in [Net -> Entry] /\ \A n \in Net : Restorable(r[n].leases)
    BY Zenon, Idles DEF Calls
  <2>3. call' = [call EXCEPT ![c] = x]
    BY <1>0, <1>4 DEF List
  <2> HIDE DEF t, r
  <2>4. /\ x.pc = "states" /\ x.op = k.op /\ x.net = k.net /\ x.gen = k.gen /\ x.vm = k.vm
        /\ x.ip = k.ip /\ x.states = r
    BY <1>0 DEF Calls
  <2>5. "states" \in Label
    BY Zenon DEF Label
  <2>6. x \in Calls
    BY Zenon, <1>0, <2>1, <2>2, <2>5 DEF Calls
  <2> HIDE DEF x
  <2> QED BY Zenon, <1>3, <2>2, <2>3, <2>4, <2>6
<1>5. ASSUME NEW n \in Net, NEW g \in Gen, State(c, n, g)
      PROVE Goes(c, "states", k.op, k.net, k.gen, k.vm, k.ip)
  <2> DEFINE t == k.todo \ {<<n, g>>}
             e == [known |-> TRUE, leases |-> leases[n][g]]
             r == [k.states EXCEPT ![n] = e]
             x == [k EXCEPT !.todo = t, !.states = r]
  <2>1. t \in SUBSET (Net \X Gen)
    BY Zenon, <1>0 DEF Calls
  <2>2. leases[n][g] \in Leases /\ Restorable(leases[n][g]) /\ e \in Entry /\ e.leases = leases[n][g]
    BY Zenon DEF NetInv, StoreTypes, LeasesUnique, Entry
  <2> HIDE DEF e
  <2>3. r \in [Net -> Entry] /\ \A m \in Net : Restorable(r[m].leases)
    BY Zenon, <1>0, <2>2 DEF Calls
  <2>4. call' = [call EXCEPT ![c] = x]
    <3>1. call' = [call EXCEPT ![c].todo = @ \ {<<n, g>>}, ![c].states[n] = e]
      BY Zenon, <1>5 DEF State, e
    <3>2. call' = [d \in Caller |-> call'[d]] /\ \A d \in Caller \ {c} : call'[d] = call[d]
      BY <1>0, <3>1
    <3>3. call'[c] = [[k EXCEPT !.todo = @ \ {<<n, g>>}] EXCEPT !.states[n] = e]
      BY <1>0, <3>1
    <3>4. [k EXCEPT !.todo = t].states = k.states
      BY <1>0 DEF Calls
    <3>5. call'[c] = x
      BY <3>3, <3>4
    <3> HIDE DEF x
    <3>6. [call EXCEPT ![c] = x] = [d \in Caller |-> IF d = c THEN x ELSE call[d]]
      BY Zenon, <1>0
    <3>7. \A d \in Caller : call'[d] = IF d = c THEN x ELSE call[d]
      BY Zenon, <3>2, <3>5
    <3> QED BY Zenon, <3>2, <3>6, <3>7
  <2> HIDE DEF t, r
  <2>5. /\ x.pc = k.pc /\ x.op = k.op /\ x.net = k.net /\ x.gen = k.gen /\ x.vm = k.vm
        /\ x.ip = k.ip /\ x.states = r
    BY <1>0 DEF Calls
  <2>6. x \in Calls
    BY Zenon, <1>0, <2>1, <2>3 DEF Calls
  <2>7. k.pc = "states"
    BY Zenon, <1>5 DEF State
  <2> HIDE DEF x
  <2> QED BY Zenon, <1>3, <2>3, <2>4, <2>5, <2>6, <2>7
<1> QED BY Zenon, <1>4, <1>5

\* persistNetworks: the snapshot changes nothing else.
LEMMA ListKept ==
  ASSUME NetInv, NEW c \in Caller, List(c) \/ \E n \in Net, g \in Gen : State(c, n, g) PROVE NetInv'
<1> SUFFICES ASSUME NEW k, k = call[c] PROVE NetInv'
  BY Zenon
<1>1. k.pc \in {"list", "states"}
  BY Zenon DEF List, State
<1>2. UNCHANGED <<nets, made, leases, closed, mMu, netFile, vmVars, svcVars>> /\ svc = "serving"
  BY <1>1, Working DEF List, State, netVars
<1>3. Goes(c, "states", k.op, k.net, k.gen, k.vm, k.ip)
  BY Zenon, ListGoes
<1>4. ShapedAt("states", k.op, k.net, k.gen, k.vm) /\ LockedAt(c, "states", k.net, k.gen, k.vm)
  BY <1>1, AtWork DEF ShapedAt, NetOp, VMOp, LockedAt
<1> QED BY Zenon, <1>2, <1>3, <1>4, PureStep

\* writeJSON, and what the caller does next.
LEMMA PersistKept == ASSUME NetInv, NEW c \in Caller, Persist(c) PROVE NetInv'
<1> SUFFICES ASSUME NEW k, k = call[c] PROVE NetInv'
  BY Zenon
<1>0. k \in Calls /\ \A n \in Net : Restorable(k.states[n].leases)
  BY Zenon DEF NetInv, Shaped
<1>1. k.pc = "states" /\ k.op \in NetOp \cup {"Create", "Delete", "discard"}
  BY Zenon, AtWork DEF Persist, ShapedAt
<1>2. /\ UNCHANGED <<nets, made, leases, closed, mMu, present, rec, vmFile, guest, svc, unloaded,
                     restarts>>
      /\ svc = "serving"
  BY <1>1, Working DEF Persist, netVars, svcVars
<1>3. netFile' \in [Net -> Entry] /\ \A n \in Net : Restorable(netFile'[n].leases)
  <2>1. netFile' = k.states \/ netFile' = netFile
    BY Zenon DEF Persist
  <2> QED BY Zenon, <1>0, <2>1 DEF NetInv, StoreTypes, LeasesUnique, Calls
<1>4. LeasesUnique'
  BY Zenon, <1>2, <1>3 DEF NetInv, LeasesUnique
<1>5. CASE k.op = "Create"
  <2>1. opMu' = opMu
    BY Zenon, <1>5 DEF Persist
  <2>2. StoreTypes' /\ Respects(c) /\ \A w \in VM : present'[w] => rec'[w] # NoRecord
    BY Zenon, <1>2, <1>3, <2>1 DEF NetInv, StoreTypes, Loading, Respects
  <2>3. LockedAt(c, "states", k.net, k.gen, k.vm) /\ k.vm \in VM
    BY Zenon, <1>1, <1>5, AtWork DEF ShapedAt, VMOp
  <2>4. CASE Goto(c, "start")
    <3>1. Goes(c, "start", k.op, k.net, k.gen, k.vm, k.ip)
      BY Zenon, <2>4, GotoGoes DEF Label
    <3>2. ShapedAt("start", k.op, k.net, k.gen, k.vm)
      BY <1>5, <2>3 DEF ShapedAt, NetOp, VMOp
    <3>3. LockedAt(c, "start", k.net, k.gen, k.vm)'
      BY <1>2, <2>1, <2>3 DEF LockedAt
    <3> QED BY Zenon, <1>4, <2>2, <3>1, <3>2, <3>3, CallStep
  <2>5. CASE Discard(c)
    <3>1. Goes(c, "detach", "discard", k.net, k.gen, k.vm, k.ip)
      BY Zenon, <2>5, TurnGoes DEF Discard, Label, VMOp
    <3>2. ShapedAt("detach", "discard", k.net, k.gen, k.vm)
      BY <1>5, <2>3 DEF ShapedAt, NetOp, VMOp
    <3>3. LockedAt(c, "detach", k.net, k.gen, k.vm)'
      BY <1>2, <2>1, <2>3 DEF LockedAt
    <3> QED BY Zenon, <1>4, <2>2, <3>1, <3>2, <3>3, CallStep
  <2> QED BY Zenon, <1>5, <2>4, <2>5 DEF Persist
<1>6. CASE k.op # "Create"
  <2>1. Return(c) /\ opMu' = [w \in VM |-> IF w = k.vm THEN Free ELSE opMu[w]]
    BY Zenon, <1>6 DEF Persist
  <2>2. opMu' \in [VM -> Caller \cup {Free}]
    BY Zenon, <2>1 DEF NetInv, StoreTypes
  <2>3. k.vm \in VM => opMu[k.vm] = c
    BY <1>1, AtWork DEF LockedAt
  <2>4. Respects(c) /\ \A w \in VM : present'[w] => rec'[w] # NoRecord
    BY Zenon, <1>2, <2>1, <2>3 DEF NetInv, Loading, Respects
  <2>5. StoreTypes'
    BY Zenon, <1>2, <1>3, <2>2 DEF NetInv, StoreTypes
  <2>6. Goes(c, "idle", "none", "none", NoGen, "none", NoAddr)
    BY Zenon, <2>1, ReturnGoes
  <2>7. ShapedAt("idle", "none", "none", NoGen, "none") /\ LockedAt(c, "idle", "none", NoGen, "none")'
    BY NamesAssumption DEF ShapedAt, NetOp, VMOp, LockedAt
  <2> QED BY Zenon, <1>4, <2>4, <2>5, <2>6, <2>7, CallStep
<1> QED BY Zenon, <1>5, <1>6

\* Create: Networks.Get, before anything is allocated.
LEMMA CreateKept ==
  ASSUME NetInv, NEW c \in Caller, NEW v \in VM, NEW n \in Net, Create(c, v, n) PROVE NetInv'
<1>1. PICK g \in Gen : g = nets[n]
  BY DEF Create, NetInv, StoreTypes
<1>2. Goes(c, "allocate", "Create", n, g, v, NoAddr)
  BY Zenon, <1>1, CreateGoes DEF Create
<1>3. ShapedAt("allocate", "Create", n, g, v)
  BY <1>1 DEF ShapedAt, NetOp, VMOp
<1>4. LockedAt(c, "allocate", n, g, v)
  BY DEF LockedAt
<1>5. UNCHANGED <<nets, made, leases, closed, mMu, netFile, vmVars, svcVars>> /\ svc = "serving"
  BY Zenon DEF Create, netVars
<1> QED BY Zenon, <1>2, <1>3, <1>4, <1>5, PureStep

\* Save: the record and vm.json become the same.
LEMMA Saves ==
  ASSUME NetInv, NEW v \in VM, NEW r \in Named, Save(v, r)
  PROVE /\ rec' \in [VM -> Named \cup {NoRecord}] /\ vmFile' \in [VM -> Named \cup {NoRecord}]
        /\ rec'[v] = r /\ vmFile'[v] = r /\ r # NoRecord
        /\ \A w \in VM \ {v} : rec'[w] = rec[w] /\ vmFile'[w] = vmFile[w]
        /\ \A w \in VM : rec[w] # NoRecord => rec'[w] # NoRecord
<1>1. rec \in [VM -> Named \cup {NoRecord}] /\ vmFile \in [VM -> Named \cup {NoRecord}]
  BY Zenon DEF NetInv, StoreTypes
<1>2. r # NoRecord
  BY DEF Named, NoRecord
<1> QED BY Zenon, <1>1, <1>2 DEF Save

\* Save in another state keeps the network and the address.
LEMMA NamedState ==
  ASSUME NEW r \in Named, NEW s \in {"creating", "live", "stopped", "deleting", "failed"}
  PROVE /\ [r EXCEPT !.state = s] \in Named /\ [r EXCEPT !.state = s].net = r.net
        /\ [r EXCEPT !.state = s].state = s
BY DEF Named

\* allocate: the entry and its record.
LEMMA AllocateKept == ASSUME NetInv, NEW c \in Caller, Allocate(c) PROVE NetInv'
<1> SUFFICES ASSUME NEW k, k = call[c] PROVE NetInv'
  BY Zenon
<1>1. k.pc = "allocate" /\ k.vm \in VM /\ k.net \in Net /\ k.gen \in Gen /\ k.op = "Create"
  BY AtWork DEF Allocate, ShapedAt, NetOp, VMOp
<1>2. /\ UNCHANGED <<nets, made, leases, closed, mMu, netFile, opMu, guest, svc, unloaded, restarts>>
      /\ svc = "serving"
  BY <1>1, Working DEF Allocate, netVars, svcVars
<1> DEFINE r == [state |-> "creating", net |-> k.net, ip |-> NoAddr]
<1>3. r \in Named
  BY <1>1 DEF Named
<1> HIDE DEF r
<1>4. Save(k.vm, r) /\ present' = [present EXCEPT ![k.vm] = TRUE] /\ Goto(c, "launch")
  BY Zenon DEF Allocate, r
<1>5. /\ rec' \in [VM -> Named \cup {NoRecord}] /\ vmFile' \in [VM -> Named \cup {NoRecord}]
      /\ rec'[k.vm] # NoRecord
      /\ \A w \in VM \ {k.vm} : rec'[w] = rec[w]
      /\ \A w \in VM : rec[w] # NoRecord => rec'[w] # NoRecord
  BY Zenon, <1>1, <1>3, <1>4, Saves
<1>6. /\ present' \in [VM -> BOOLEAN]
      /\ \A w \in VM : present'[w] => rec'[w] # NoRecord
  BY Zenon, <1>1, <1>4, <1>5 DEF NetInv, StoreTypes, Loading
<1>7. StoreTypes' /\ LeasesUnique' /\ Respects(c)
  BY Zenon, <1>2, <1>5, <1>6 DEF NetInv, StoreTypes, LeasesUnique, Respects
<1>8. Goes(c, "launch", k.op, k.net, k.gen, k.vm, k.ip)
  BY Zenon, <1>4, GotoGoes DEF Label
<1>9. ShapedAt("launch", k.op, k.net, k.gen, k.vm) /\ LockedAt(c, "launch", k.net, k.gen, k.vm)'
  BY <1>1, <1>5 DEF ShapedAt, NetOp, VMOp, LockedAt
<1> QED BY Zenon, <1>6, <1>7, <1>8, <1>9, CallStep

\* launch takes opMu.
LEMMA LaunchKept == ASSUME NetInv, NEW c \in Caller, Launch(c) PROVE NetInv'
<1> SUFFICES ASSUME NEW k, k = call[c] PROVE NetInv'
  BY Zenon
<1>1. /\ k.pc = "launch" /\ k.vm \in VM /\ k.net \in Net /\ k.gen \in Gen /\ k.op = "Create"
      /\ rec[k.vm] # NoRecord
  BY AtWork DEF Launch, ShapedAt, NetOp, VMOp, LockedAt
<1>2. /\ UNCHANGED <<nets, made, leases, closed, mMu, netFile, present, rec, vmFile, guest, svc,
                     unloaded, restarts>>
      /\ svc = "serving" /\ opMu[k.vm] = Free /\ opMu' = [opMu EXCEPT ![k.vm] = c]
  BY <1>1, Working DEF Launch, netVars, svcVars
<1>3. opMu' \in [VM -> Caller \cup {Free}] /\ opMu'[k.vm] = c /\ \A w \in VM \ {k.vm} : opMu'[w] = opMu[w]
  BY Zenon, <1>1, <1>2 DEF NetInv, StoreTypes
<1>4. StoreTypes' /\ LeasesUnique'
  BY Zenon, <1>2, <1>3 DEF NetInv, StoreTypes, LeasesUnique
<1>5. Respects(c) /\ \A w \in VM : present'[w] => rec'[w] # NoRecord
  BY Zenon, <1>2, <1>3 DEF Respects, NetInv, Loading
<1>6. Goes(c, "provision", k.op, k.net, k.gen, k.vm, k.ip)
  BY Zenon, GotoGoes DEF Launch, Label
<1>7. ShapedAt("provision", k.op, k.net, k.gen, k.vm) /\ LockedAt(c, "provision", k.net, k.gen, k.vm)'
  BY <1>1, <1>2, <1>3 DEF ShapedAt, NetOp, VMOp, LockedAt
<1> QED BY Zenon, <1>4, <1>5, <1>6, <1>7, CallStep

\* freeAddrLocked returns an address of the pool that nobody holds.
LEMMA FreeAddrFree ==
  ASSUME NEW n, NEW g
  PROVE freeAddr(n, g) # NoAddr => freeAddr(n, g) \in Addr /\ \A v \in VM : leases[n][g][v] # freeAddr(n, g)
<1> DEFINE free == Addr \ Held(n, g)
<1>1. CASE free = {}
  BY Zenon, <1>1 DEF freeAddr
<1>2. CASE free # {}
  <2>1. free \subseteq Nat /\ NoAddr \notin Addr
    BY DEF Addr, NoAddr
  <2>2. Min(free) \in free
    BY Zenon, <1>2, <2>1, LeastOfSome
  <2>3. freeAddr(n, g) = Min(free)
    BY Zenon, <1>2 DEF freeAddr
  <2> QED BY Zenon, <2>1, <2>2, <2>3 DEF Held
<1> QED BY Zenon, <1>1, <1>2

\* Leases with one more that nobody held can be restored.
LEMMA RestorableAdd ==
  ASSUME NEW l \in Leases, Restorable(l), NEW v \in VM, NEW i \in Addr,
         \A w \in VM \ {v} : l[w] # i
  PROVE [l EXCEPT ![v] = i] \in Leases /\ Restorable([l EXCEPT ![v] = i])
<1> DEFINE m == [l EXCEPT ![v] = i]
<1>1. m \in Leases /\ m[v] = i /\ \A w \in VM \ {v} : m[w] = l[w]
  BY Zenon DEF Leases
<1> HIDE DEF m
<1>2. Restorable(m)
  BY Zenon, <1>1 DEF Restorable, Leases
<1> QED BY Zenon, <1>1, <1>2 DEF m

\* The leases of one generation change, and those of no other.
Becomes(n, g, l) ==
  /\ leases' \in [Net -> [Gen -> Leases]] /\ leases'[n][g] = l
  /\ \A m \in Net, h \in Gen : ~(m = n /\ h = g) => leases'[m][h] = leases[m][h]

\* Attach and Detach replace the leases of one network.
LEMMA OneEntry ==
  ASSUME leases \in [Net -> [Gen -> Leases]], NEW n \in Net, NEW g \in Gen, NEW l \in Leases,
         leases' = [leases EXCEPT ![n] = [leases[n] EXCEPT ![g] = l]]
  PROVE  Becomes(n, g, l)
<1>1. leases[n] \in [Gen -> Leases]
  BY Zenon
<1> DEFINE e == [leases[n] EXCEPT ![g] = l]
<1>2. e \in [Gen -> Leases] /\ e[g] = l /\ \A h \in Gen \ {g} : e[h] = leases[n][h]
  BY Zenon, <1>1
<1> HIDE DEF e
<1>3. leases' \in [Net -> [Gen -> Leases]] /\ leases'[n] = e /\ \A m \in Net \ {n} : leases'[m] = leases[m]
  BY Zenon, <1>2 DEF e
<1> QED BY Zenon, <1>2, <1>3 DEF Becomes

\* The VM holds the lease it is given, which it had or nobody did, and no other
\* lease changes.
Takes(n, g, v, i) ==
  /\ leases' \in [Net -> [Gen -> Leases]] /\ \A m \in Net, h \in Gen : Restorable(leases'[m][h])
  /\ i \in Addr /\ leases[n][g][v] \in {NoAddr, i} /\ leases'[n][g][v] = i /\ ~closed[n][g]
  /\ \A m \in Net, h \in Gen, w \in VM :
       ~(m = n /\ h = g /\ w = v) => leases'[m][h][w] = leases[m][h][w]

\* Attach takes a lease.
LEMMA Attaches ==
  ASSUME NetInv, NEW n \in Net, NEW g \in Gen, NEW v \in VM, NEW i, i = Attached(n, g, v),
         i # NoAddr, leases' = [leases EXCEPT ![n][g][v] = i]
  PROVE Takes(n, g, v, i)
<1>0. /\ leases \in [Net -> [Gen -> Leases]] /\ \A m \in Net, h \in Gen : Restorable(leases[m][h])
      /\ leases[n][g] \in Leases /\ leases[n][g][v] \in Addr \cup {NoAddr}
  <2>1. leases \in [Net -> [Gen -> Leases]] /\ \A m \in Net, h \in Gen : Restorable(leases[m][h])
    BY Zenon DEF NetInv, StoreTypes, LeasesUnique
  <2>2. leases[n][g] \in Leases
    BY Zenon, <2>1
  <2>3. leases[n][g][v] \in Addr \cup {NoAddr}
    BY Zenon, <2>2 DEF Leases
  <2> QED BY Zenon, <2>1, <2>2, <2>3
<1>1. /\ i \in Addr /\ leases[n][g][v] \in {NoAddr, i} /\ ~closed[n][g]
      /\ \A w \in VM \ {v} : leases[n][g][w] # i
  <2>1. CASE leases[n][g][v] # NoAddr
    <3>1. i = leases[n][g][v] /\ ~closed[n][g]
      BY Zenon, <2>1 DEF Attached
    <3>2. Restorable(leases[n][g])
      BY Zenon, <1>0
    <3>3. \A w \in VM \ {v} : leases[n][g][w] # i
      BY Zenon, <2>1, <3>1, <3>2 DEF Restorable
    <3> QED BY Zenon, <1>0, <2>1, <3>1, <3>3
  <2>2. CASE leases[n][g][v] = NoAddr
    <3>1. i = freeAddr(n, g) /\ ~closed[n][g]
      BY Zenon, <2>2 DEF Attached
    <3> QED BY Zenon, <2>2, <3>1, FreeAddrFree
  <2> QED BY Zenon, <2>1, <2>2
<1> DEFINE l == [leases[n][g] EXCEPT ![v] = i]
<1>2. /\ l \in Leases /\ Restorable(l) /\ l[v] = i
      /\ \A w \in VM \ {v} : l[w] = leases[n][g][w]
  <2>1. Restorable(leases[n][g])
    BY Zenon, <1>0
  <2>2. l \in Leases /\ Restorable(l)
    BY Zenon, <2>1, <1>0, <1>1, RestorableAdd
  <2>3. l[v] = i /\ \A w \in VM \ {v} : l[w] = leases[n][g][w]
    BY Zenon, <1>0 DEF Leases
  <2> QED BY Zenon, <2>2, <2>3
<1>3. leases' = [leases EXCEPT ![n] = [leases[n] EXCEPT ![g] = l]]
  BY <1>0
<1> HIDE DEF l
<1>4. /\ leases' \in [Net -> [Gen -> Leases]] /\ leases'[n][g] = l
      /\ \A m \in Net, h \in Gen : ~(m = n /\ h = g) => leases'[m][h] = leases[m][h]
  <2>1. Becomes(n, g, l)
    BY Zenon, <1>0, <1>2, <1>3, OneEntry
  <2> QED BY Zenon, <2>1 DEF Becomes
<1>5. \A m \in Net, h \in Gen : Restorable(leases'[m][h])
  BY Zenon, <1>0, <1>2, <1>4
<1>6. \A m \in Net, h \in Gen, w \in VM :
         ~(m = n /\ h = g /\ w = v) => leases'[m][h][w] = leases[m][h][w]
  <2> SUFFICES ASSUME NEW m \in Net, NEW h \in Gen, NEW w \in VM, ~(m = n /\ h = g /\ w = v)
               PROVE leases'[m][h][w] = leases[m][h][w]
    BY Zenon
  <2>1. CASE m = n /\ h = g
    <3>1. leases'[m][h] = l /\ w \in VM \ {v}
      BY Zenon, <1>4, <2>1
    <3> QED BY Zenon, <1>2, <2>1, <3>1
  <2>2. CASE ~(m = n /\ h = g)
    BY Zenon, <1>4, <2>2
  <2> QED BY Zenon, <2>1, <2>2
<1> QED BY Zenon, <1>1, <1>2, <1>4, <1>5, <1>6 DEF Takes

\* provision: a lease on the network Create looked up, or discard.
LEMMA ProvisionKept == ASSUME NetInv, NEW c \in Caller, Provision(c) PROVE NetInv'
<1> SUFFICES ASSUME NEW k, k = call[c] PROVE NetInv'
  BY Zenon
<1>1. /\ k.pc = "provision" /\ k.vm \in VM /\ k.net \in Net /\ k.gen \in Gen /\ k.op = "Create"
      /\ rec[k.vm] # NoRecord /\ opMu[k.vm] = c
  BY AtWork DEF Provision, ShapedAt, NetOp, VMOp, LockedAt
<1>2. /\ UNCHANGED <<nets, made, closed, mMu, netFile, present, rec, vmFile, opMu, guest, svc,
                     unloaded, restarts>>
      /\ svc = "serving"
  BY <1>1, Working DEF Provision, vmVars, svcVars
<1>3. Respects(c) /\ \A w \in VM : present'[w] => rec'[w] # NoRecord
  BY Zenon, <1>2 DEF Respects, NetInv, Loading
<1>4. CASE Discard(c) /\ leases' = leases
  <2>1. Goes(c, "detach", "discard", k.net, k.gen, k.vm, k.ip)
    BY Zenon, <1>4, TurnGoes DEF Discard, Label, VMOp
  <2>2. ShapedAt("detach", "discard", k.net, k.gen, k.vm) /\ LockedAt(c, "detach", k.net, k.gen, k.vm)'
    BY <1>1, <1>2 DEF ShapedAt, NetOp, VMOp, LockedAt
  <2>3. StoreTypes' /\ LeasesUnique'
    BY Zenon, <1>2, <1>4 DEF NetInv, StoreTypes, LeasesUnique
  <2> QED BY Zenon, <1>3, <2>1, <2>2, <2>3, CallStep
<1>5. CASE /\ Attached(k.net, k.gen, k.vm) # NoAddr /\ Attach(k.net, k.gen, k.vm)
           /\ call' = [call EXCEPT ![c].pc = "record", ![c].ip = Attached(k.net, k.gen, k.vm)]
  <2>1. PICK i : i = Attached(k.net, k.gen, k.vm)
    OBVIOUS
  <2>2. /\ leases' \in [Net -> [Gen -> Leases]] /\ \A m \in Net, h \in Gen : Restorable(leases'[m][h])
        /\ i \in Addr
    <3>1. leases' = [leases EXCEPT ![k.net][k.gen][k.vm] = i] /\ i # NoAddr
      BY Zenon, <1>5, <2>1 DEF Attach
    <3>2. Takes(k.net, k.gen, k.vm, i)
      BY Zenon, <1>1, <2>1, <3>1, Attaches
    <3> QED BY Zenon, <3>2 DEF Takes
  <2>3. StoreTypes' /\ LeasesUnique'
    BY Zenon, <1>2, <2>2 DEF NetInv, StoreTypes, LeasesUnique
  <2>4. Goes(c, "record", k.op, k.net, k.gen, k.vm, i)
    <3>1. call' = [call EXCEPT ![c].pc = "record", ![c].ip = i]
      BY Zenon, <1>5, <2>1
    <3>2. "record" \in Label
      BY Zenon DEF Label
    <3> QED BY Zenon, <2>2, <3>1, <3>2, LeaseGoes
  <2>5. ShapedAt("record", k.op, k.net, k.gen, k.vm) /\ LockedAt(c, "record", k.net, k.gen, k.vm)'
    BY <1>1, <1>2 DEF ShapedAt, NetOp, VMOp, LockedAt
  <2> QED BY Zenon, <1>3, <2>3, <2>4, <2>5, CallStep
<1> QED BY Zenon, <1>4, <1>5 DEF Provision

\* provision: the address goes into the record.
LEMMA RecordIPKept == ASSUME NetInv, NEW c \in Caller, RecordIP(c) PROVE NetInv'
<1> SUFFICES ASSUME NEW k, k = call[c] PROVE NetInv'
  BY Zenon
<1>1. /\ k.pc = "record" /\ k.vm \in VM /\ k.op = "Create" /\ k.ip \in Addr \cup {NoAddr}
      /\ rec[k.vm] # NoRecord /\ opMu[k.vm] = c
  BY AtWork DEF RecordIP, ShapedAt, NetOp, VMOp, LockedAt, Calls
<1>2. /\ UNCHANGED <<nets, made, leases, closed, mMu, netFile, present, opMu, guest, svc,
                     unloaded, restarts>>
      /\ svc = "serving"
  BY <1>1, Working DEF RecordIP, netVars, svcVars
<1> DEFINE r == [rec[k.vm] EXCEPT !.ip = k.ip]
<1>3. r \in Named
  <2>1. rec[k.vm] \in Named
    BY Zenon, <1>1 DEF NetInv, StoreTypes
  <2> QED BY <1>1, <2>1 DEF Named
<1>4. Save(k.vm, r)
  BY Zenon DEF RecordIP
<1> HIDE DEF r
<1>5. /\ rec' \in [VM -> Named \cup {NoRecord}] /\ vmFile' \in [VM -> Named \cup {NoRecord}]
      /\ \A w \in VM : rec[w] # NoRecord => rec'[w] # NoRecord
  BY Zenon, <1>1, <1>3, <1>4, Saves
<1>6. Respects(c) /\ \A w \in VM : present'[w] => rec'[w] # NoRecord
  BY Zenon, <1>2, <1>5 DEF Respects, NetInv, Loading
<1>7. StoreTypes' /\ LeasesUnique'
  BY Zenon, <1>2, <1>5 DEF NetInv, StoreTypes, LeasesUnique
<1>8. Goes(c, "list", k.op, k.net, k.gen, k.vm, k.ip)
  BY Zenon, GotoGoes DEF RecordIP, Label
<1>9. ShapedAt("list", k.op, k.net, k.gen, k.vm) /\ LockedAt(c, "list", k.net, k.gen, k.vm)'
  BY <1>1, <1>2, <1>5 DEF ShapedAt, NetOp, VMOp, LockedAt
<1> QED BY Zenon, <1>6, <1>7, <1>8, <1>9, CallStep

\* Start, under opMu.
LEMMA StartKept == ASSUME NetInv, NEW c \in Caller, NEW v \in VM, Start(c, v) PROVE NetInv'
<1>1. /\ UNCHANGED <<nets, made, leases, closed, mMu, netFile, present, rec, vmFile, guest, svc,
                     unloaded, restarts>>
      /\ svc = "serving" /\ opMu[v] = Free /\ opMu' = [opMu EXCEPT ![v] = c] /\ present[v]
  BY Zenon DEF Start, netVars, svcVars
<1>2. opMu' \in [VM -> Caller \cup {Free}] /\ opMu'[v] = c /\ \A w \in VM \ {v} : opMu'[w] = opMu[w]
  BY Zenon, <1>1 DEF NetInv, StoreTypes
<1>3. StoreTypes' /\ LeasesUnique'
  BY Zenon, <1>1, <1>2 DEF NetInv, StoreTypes, LeasesUnique
<1>4. Respects(c) /\ \A w \in VM : present'[w] => rec'[w] # NoRecord
  BY Zenon, <1>1, <1>2 DEF Respects, NetInv, Loading
<1>5. Goes(c, "start", "Start", "none", NoGen, v, NoAddr)
  BY Zenon, VMCallGoes DEF Start, Label, VMOp
<1>6. ShapedAt("start", "Start", "none", NoGen, v)
  BY DEF ShapedAt, NetOp, VMOp
<1>7. LockedAt(c, "start", "none", NoGen, v)'
  BY <1>1, <1>2, <1>4 DEF LockedAt
<1> QED BY Zenon, <1>3, <1>4, <1>5, <1>6, <1>7, CallStep

\* A start that fails: discard or fail.
LEMMA StartFailsKept ==
  ASSUME NetInv, NEW c \in Caller, call[c].pc \in {"start", "attach", "qemu"}, StartFails(c),
         UNCHANGED <<nets, made, leases, closed, mMu, netFile, present, guest, svcVars>>
  PROVE NetInv'
<1> SUFFICES ASSUME NEW k, k = call[c] PROVE NetInv'
  BY Zenon
<1>1. /\ k.pc \in {"start", "attach", "qemu"} /\ k.vm \in VM /\ k.op \in {"Create", "Start"}
      /\ rec[k.vm] # NoRecord /\ opMu[k.vm] = c /\ rec[k.vm] \in Named
  BY AtWork DEF ShapedAt, NetOp, VMOp, LockedAt, NetInv, StoreTypes
<1>2. svc = "serving" /\ UNCHANGED <<svc, unloaded, restarts>>
  BY <1>1, Working DEF svcVars
<1>3. CASE k.op = "Create"
  <2>1. Discard(c) /\ UNCHANGED <<rec, vmFile, opMu>>
    BY Zenon, <1>3 DEF StartFails
  <2>2. Goes(c, "detach", "discard", k.net, k.gen, k.vm, k.ip)
    BY Zenon, <2>1, TurnGoes DEF Discard, Label, VMOp
  <2>3. ShapedAt("detach", "discard", k.net, k.gen, k.vm) /\ LockedAt(c, "detach", k.net, k.gen, k.vm)
    BY <1>1, <2>1 DEF ShapedAt, NetOp, VMOp, LockedAt
  <2> QED BY Zenon, <1>2, <2>1, <2>2, <2>3, PureStep DEF vmVars
<1>4. CASE k.op = "Start"
  <2> DEFINE r == [rec[k.vm] EXCEPT !.state = "failed"]
  <2>1. Save(k.vm, r) /\ opMu' = [opMu EXCEPT ![k.vm] = Free] /\ Return(c)
    BY <1>4 DEF StartFails
  <2>2. r \in Named
    BY Zenon, <1>1, NamedState
  <2> HIDE DEF r
  <2>3. /\ rec' \in [VM -> Named \cup {NoRecord}] /\ vmFile' \in [VM -> Named \cup {NoRecord}]
        /\ \A w \in VM : rec[w] # NoRecord => rec'[w] # NoRecord
    BY Zenon, <1>1, <2>1, <2>2, Saves
  <2>4. opMu' \in [VM -> Caller \cup {Free}] /\ \A w \in VM \ {k.vm} : opMu'[w] = opMu[w]
    BY Zenon, <1>1, <2>1 DEF NetInv, StoreTypes
  <2>5. Respects(c) /\ \A w \in VM : present'[w] => rec'[w] # NoRecord
    BY Zenon, <1>1, <1>2, <2>3, <2>4 DEF Respects, NetInv, Loading
  <2>6. StoreTypes' /\ LeasesUnique'
    BY Zenon, <1>2, <2>3, <2>4 DEF NetInv, StoreTypes, LeasesUnique
  <2>7. Goes(c, "idle", "none", "none", NoGen, "none", NoAddr)
    BY Zenon, <2>1, ReturnGoes
  <2>8. ShapedAt("idle", "none", "none", NoGen, "none") /\ LockedAt(c, "idle", "none", NoGen, "none")'
    BY NamesAssumption DEF ShapedAt, NetOp, VMOp, LockedAt
  <2> QED BY Zenon, <2>5, <2>6, <2>7, <2>8, CallStep
<1> QED BY Zenon, <1>1, <1>3, <1>4

\* A call goes on with a network and its generation.
LEMMA GetGoes ==
  ASSUME NetInv, NEW c \in Caller, NEW k, k = call[c], NEW n \in Net, NEW g \in Gen,
         call' = [call EXCEPT ![c].pc = "attach", ![c].net = n, ![c].gen = g]
  PROVE Goes(c, "attach", k.op, n, g, k.vm, k.ip)
<1>0. call \in [Caller -> Calls] /\ k \in Calls /\ \A m \in Net : Restorable(k.states[m].leases)
  BY Zenon DEF NetInv, Shaped
<1> DEFINE x == [k EXCEPT !.pc = "attach", !.net = n, !.gen = g]
<1>3. /\ x.pc = "attach" /\ x.op = k.op /\ x.net = n /\ x.gen = g /\ x.vm = k.vm
      /\ x.ip = k.ip /\ x.states = k.states
  BY <1>0 DEF Calls
<1>4. "attach" \in Label
  BY Zenon DEF Label
<1>5. x \in Calls
  BY Zenon, <1>0, <1>4 DEF Calls
<1>6. call' = [d \in Caller |-> call'[d]] /\ call'[c] = x /\ \A d \in Caller \ {c} : call'[d] = call[d]
  BY <1>0
<1> HIDE DEF x
<1>7. call' \in [Caller -> Calls]
  BY Zenon, <1>0, <1>5, <1>6
<1> QED BY Zenon, <1>0, <1>3, <1>6, <1>7 DEF Goes

\* startProcess: Networks.Get with the name in the record.
LEMMA StartGetsKept == ASSUME NetInv, NEW c \in Caller, StartGets(c) PROVE NetInv'
<1> SUFFICES ASSUME NEW k, k = call[c] PROVE NetInv'
  BY Zenon
<1>0. call \in [Caller -> Calls] /\ k \in Calls /\ \A n \in Net : Restorable(k.states[n].leases)
  BY Zenon DEF NetInv, Shaped
<1>1. /\ k.pc = "start" /\ k.vm \in VM /\ k.op \in {"Create", "Start"}
      /\ rec[k.vm] # NoRecord /\ opMu[k.vm] = c
  BY AtWork DEF StartGets, ShapedAt, NetOp, VMOp, LockedAt
<1>2. /\ UNCHANGED <<nets, made, leases, closed, mMu, netFile, present, guest, svcVars>>
      /\ svc = "serving"
  BY <1>1, Working DEF StartGets, netVars
<1>3. PICK n \in Net : n = rec[k.vm].net
  BY <1>1 DEF NetInv, StoreTypes, Named
<1>4. CASE nets[n] = NoGen
  BY Zenon, <1>1, <1>2, <1>3, <1>4, StartFailsKept DEF StartGets
<1>5. CASE nets[n] # NoGen
  <2>1. PICK g \in Gen : g = nets[n]
    BY <1>5 DEF NetInv, StoreTypes
  <2>2. call' = [call EXCEPT ![c].pc = "attach", ![c].net = n, ![c].gen = g] /\ UNCHANGED <<rec, vmFile, opMu>>
    BY Zenon, <1>3, <1>5, <2>1 DEF StartGets
  <2>8. Goes(c, "attach", k.op, n, g, k.vm, k.ip)
    BY Zenon, <2>2, GetGoes
  <2>9. ShapedAt("attach", k.op, n, g, k.vm) /\ LockedAt(c, "attach", n, g, k.vm)
    BY <1>1, <2>2 DEF ShapedAt, NetOp, VMOp, LockedAt
  <2> QED BY Zenon, <1>2, <2>2, <2>8, <2>9, PureStep DEF vmVars
<1> QED BY Zenon, <1>4, <1>5

\* startProcess: Attach.
LEMMA StartAttachesKept == ASSUME NetInv, NEW c \in Caller, StartAttaches(c) PROVE NetInv'
<1> SUFFICES ASSUME NEW k, k = call[c] PROVE NetInv'
  BY Zenon
<1>1. /\ k.pc = "attach" /\ k.vm \in VM /\ k.net \in Net /\ k.gen \in Gen /\ k.op \in {"Create", "Start"}
      /\ rec[k.vm] # NoRecord /\ opMu[k.vm] = c
  BY AtWork DEF StartAttaches, ShapedAt, NetOp, VMOp, LockedAt
<1>2. UNCHANGED <<nets, made, closed, mMu, netFile, present, guest, svcVars>> /\ svc = "serving"
  BY <1>1, Working DEF StartAttaches
<1>3. PICK i : i = Attached(k.net, k.gen, k.vm)
  OBVIOUS
<1>4. CASE i = NoAddr
  <2>1. StartFails(c) /\ leases' = leases
    BY Zenon, <1>3, <1>4 DEF StartAttaches
  <2> QED BY Zenon, <1>1, <1>2, <2>1, StartFailsKept
<1>5. CASE i # NoAddr
  <2>1. /\ leases' = [leases EXCEPT ![k.net][k.gen][k.vm] = i]
        /\ call' = [call EXCEPT ![c].pc = "qemu", ![c].ip = i] /\ UNCHANGED <<rec, vmFile, opMu>>
    BY Zenon, <1>3, <1>5 DEF StartAttaches, Attach
  <2>2. /\ leases' \in [Net -> [Gen -> Leases]] /\ \A m \in Net, h \in Gen : Restorable(leases'[m][h])
        /\ i \in Addr
    <3>1. Takes(k.net, k.gen, k.vm, i)
      BY Zenon, <1>1, <1>3, <1>5, <2>1, Attaches
    <3> QED BY Zenon, <3>1 DEF Takes
  <2>3. UNCHANGED <<svc, unloaded, restarts>>
    BY Zenon, <1>2 DEF svcVars
  <2>4. StoreTypes' /\ LeasesUnique'
    BY Zenon, <1>2, <2>1, <2>2, <2>3 DEF NetInv, StoreTypes, LeasesUnique
  <2>5. Respects(c) /\ \A w \in VM : present'[w] => rec'[w] # NoRecord
    BY Zenon, <1>2, <2>1, <2>3 DEF Respects, NetInv, Loading
  <2>6. "qemu" \in Label
    BY Zenon DEF Label
  <2>7. Goes(c, "qemu", k.op, k.net, k.gen, k.vm, i)
    BY Zenon, <2>1, <2>2, <2>6, LeaseGoes
  <2>8. ShapedAt("qemu", k.op, k.net, k.gen, k.vm) /\ LockedAt(c, "qemu", k.net, k.gen, k.vm)'
    BY <1>1, <2>1 DEF ShapedAt, NetOp, VMOp, LockedAt
  <2> QED BY Zenon, <2>4, <2>5, <2>7, <2>8, CallStep
<1> QED BY Zenon, <1>4, <1>5

\* startProcess: QEMU and the commit, or a failed start.
LEMMA StartQEMUKept == ASSUME NetInv, NEW c \in Caller, StartQEMU(c) PROVE NetInv'
<1> SUFFICES ASSUME NEW k, k = call[c] PROVE NetInv'
  BY Zenon
<1>1. /\ k.pc = "qemu" /\ k.vm \in VM /\ k.net \in Net /\ k.ip \in Addr \cup {NoAddr}
      /\ rec[k.vm] # NoRecord /\ opMu[k.vm] = c /\ rec[k.vm] \in Named
  BY AtWork DEF StartQEMU, ShapedAt, NetOp, VMOp, LockedAt, NetInv, StoreTypes, Calls
<1>2. UNCHANGED <<nets, made, leases, closed, mMu, netFile, present, svcVars>> /\ svc = "serving"
  BY <1>1, Working DEF StartQEMU, netVars
<1>3. CASE StartFails(c) /\ UNCHANGED guest
  BY Zenon, <1>1, <1>2, <1>3, StartFailsKept
<1> DEFINE r == [rec[k.vm] EXCEPT !.state = "live"]
           q == [net |-> k.net, ip |-> k.ip]
<1>4. CASE /\ guest' = [guest EXCEPT ![k.vm] = q] /\ Save(k.vm, r)
           /\ opMu' = [opMu EXCEPT ![k.vm] = Free] /\ Return(c)
  <2>1. r \in Named /\ q \in [net : Net, ip : Addr \cup {NoAddr}]
    BY Zenon, <1>1, NamedState
  <2> HIDE DEF r, q
  <2>2. /\ rec' \in [VM -> Named \cup {NoRecord}] /\ vmFile' \in [VM -> Named \cup {NoRecord}]
        /\ \A w \in VM : rec[w] # NoRecord => rec'[w] # NoRecord
    BY Zenon, <1>1, <1>4, <2>1, Saves
  <2>3. opMu' \in [VM -> Caller \cup {Free}] /\ \A w \in VM \ {k.vm} : opMu'[w] = opMu[w]
    BY Zenon, <1>1, <1>4 DEF NetInv, StoreTypes
  <2>4. guest' \in [VM -> [net : Net, ip : Addr \cup {NoAddr}] \cup {NoGuest}]
    BY Zenon, <1>1, <1>4, <2>1 DEF NetInv, StoreTypes
  <2>5. UNCHANGED <<svc, unloaded, restarts>>
    BY Zenon, <1>2 DEF svcVars
  <2>6. Respects(c) /\ \A w \in VM : present'[w] => rec'[w] # NoRecord
    BY Zenon, <1>1, <1>2, <2>2, <2>3, <2>5 DEF Respects, NetInv, Loading
  <2>7. StoreTypes' /\ LeasesUnique'
    BY Zenon, <1>2, <2>2, <2>3, <2>4, <2>5 DEF NetInv, StoreTypes, LeasesUnique
  <2>8. Goes(c, "idle", "none", "none", NoGen, "none", NoAddr)
    BY Zenon, <1>4, ReturnGoes
  <2>9. ShapedAt("idle", "none", "none", NoGen, "none") /\ LockedAt(c, "idle", "none", NoGen, "none")'
    BY NamesAssumption DEF ShapedAt, NetOp, VMOp, LockedAt
  <2> QED BY Zenon, <2>6, <2>7, <2>8, <2>9, CallStep
<1> QED BY Zenon, <1>3, <1>4 DEF StartQEMU

\* onExit.
LEMMA ProcessExitsKept == ASSUME NetInv, NEW v \in VM, ProcessExits(v) PROVE NetInv'
<1>1. /\ UNCHANGED <<nets, made, leases, closed, mMu, netFile, present, opMu, call, svc, unloaded, restarts>>
      /\ svc = "serving"
  BY Zenon DEF ProcessExits, netVars, svcVars
<1>2. rec[v] \in Named
  BY DEF ProcessExits, NetInv, StoreTypes, NoRecord
<1>3. PICK s \in {"stopped", "deleting"} : Save(v, [rec[v] EXCEPT !.state = s])
  BY DEF ProcessExits
<1>4. [rec[v] EXCEPT !.state = s] \in Named
  BY Zenon, <1>2, NamedState
<1>5. /\ rec' \in [VM -> Named \cup {NoRecord}] /\ vmFile' \in [VM -> Named \cup {NoRecord}]
      /\ \A w \in VM : rec[w] # NoRecord => rec'[w] # NoRecord
  BY Zenon, <1>3, <1>4, Saves
<1>6. guest' \in [VM -> [net : Net, ip : Addr \cup {NoAddr}] \cup {NoGuest}]
  BY Zenon DEF ProcessExits, NetInv, StoreTypes
<1>7. StoreTypes' /\ LeasesUnique' /\ Loading'
  BY Zenon, <1>1, <1>5, <1>6 DEF NetInv, StoreTypes, LeasesUnique, Loading
<1>8. ASSUME NEW c \in Caller PROVE Shaped(call'[c]) /\ Locked(c)'
  BY Zenon, <1>1, <1>5 DEF NetInv, Locked, LockedAt
<1> QED BY Zenon, <1>1, <1>7, <1>8 DEF NetInv

\* Delete, under opMu.
LEMMA DeleteKept == ASSUME NetInv, NEW c \in Caller, NEW v \in VM, Delete(c, v) PROVE NetInv'
<1>1. /\ UNCHANGED <<nets, made, leases, closed, mMu, netFile, present, guest, svc, unloaded, restarts>>
      /\ svc = "serving" /\ opMu[v] = Free /\ opMu' = [opMu EXCEPT ![v] = c] /\ present[v]
      /\ Save(v, [rec[v] EXCEPT !.state = "deleting"])
  BY Zenon DEF Delete, netVars, svcVars
<1>2. rec[v] \in Named /\ rec[v] # NoRecord
  BY Zenon, <1>1 DEF NetInv, StoreTypes, Loading
<1>3. opMu' \in [VM -> Caller \cup {Free}] /\ opMu'[v] = c /\ \A w \in VM \ {v} : opMu'[w] = opMu[w]
  BY Zenon, <1>1 DEF NetInv, StoreTypes
<1>4. [rec[v] EXCEPT !.state = "deleting"] \in Named
  BY Zenon, <1>2, NamedState
<1>5. /\ rec' \in [VM -> Named \cup {NoRecord}] /\ vmFile' \in [VM -> Named \cup {NoRecord}]
      /\ \A w \in VM : rec[w] # NoRecord => rec'[w] # NoRecord
  BY Zenon, <1>1, <1>4, Saves
<1>6. StoreTypes' /\ LeasesUnique'
  BY Zenon, <1>1, <1>3, <1>5 DEF NetInv, StoreTypes, LeasesUnique
<1>7. Respects(c) /\ \A w \in VM : present'[w] => rec'[w] # NoRecord
  BY Zenon, <1>1, <1>3, <1>5 DEF Respects, NetInv, Loading
<1>8. Goes(c, "detach", "Delete", "none", NoGen, v, NoAddr)
  BY Zenon, VMCallGoes DEF Delete, Label, VMOp
<1>9. ShapedAt("detach", "Delete", "none", NoGen, v) /\ LockedAt(c, "detach", "none", NoGen, v)'
  BY <1>2, <1>3, <1>5 DEF ShapedAt, NetOp, VMOp, LockedAt
<1> QED BY Zenon, <1>6, <1>7, <1>8, <1>9, CallStep

\* teardown: the directory, and the entry.
LEMMA RemoveKept == ASSUME NetInv, NEW c \in Caller, RemoveDir(c) \/ Forget(c) PROVE NetInv'
<1> SUFFICES ASSUME NEW k, k = call[c] PROVE NetInv'
  BY Zenon
<1>1. /\ k.pc \in {"remove", "forget"} /\ k.vm \in VM /\ k.op \in {"Delete", "discard"}
      /\ rec[k.vm] # NoRecord /\ opMu[k.vm] = c
  BY AtWork DEF RemoveDir, Forget, ShapedAt, NetOp, VMOp, LockedAt
<1>2. /\ UNCHANGED <<nets, made, leases, closed, mMu, netFile, rec, opMu, guest, svc, unloaded, restarts>>
      /\ svc = "serving"
  BY <1>1, Working DEF RemoveDir, Forget, netVars, svcVars
<1>3. /\ vmFile' \in [VM -> Named \cup {NoRecord}] /\ present' \in [VM -> BOOLEAN]
      /\ \A w \in VM : present'[w] => present[w]
  BY Zenon, <1>1 DEF RemoveDir, Forget, NetInv, StoreTypes
<1>4. StoreTypes' /\ LeasesUnique'
  BY Zenon, <1>2, <1>3 DEF NetInv, StoreTypes, LeasesUnique
<1>5. Respects(c) /\ \A w \in VM : present'[w] => rec'[w] # NoRecord
  BY Zenon, <1>2, <1>3 DEF Respects, NetInv, Loading
<1>6. PICK l \in {"forget", "list"} : Goto(c, l)
  BY Zenon DEF RemoveDir, Forget
<1>7. Goes(c, l, k.op, k.net, k.gen, k.vm, k.ip)
  BY Zenon, <1>6, GotoGoes DEF Label
<1>8. ShapedAt(l, k.op, k.net, k.gen, k.vm) /\ LockedAt(c, l, k.net, k.gen, k.vm)'
  BY <1>1, <1>2 DEF ShapedAt, NetOp, VMOp, LockedAt
<1> QED BY Zenon, <1>4, <1>5, <1>7, <1>8, CallStep

\* Leases with one less can be restored.
LEMMA RestorableDrop ==
  ASSUME NEW l \in Leases, Restorable(l), NEW v \in VM
  PROVE [l EXCEPT ![v] = NoAddr] \in Leases /\ Restorable([l EXCEPT ![v] = NoAddr])
<1> DEFINE m == [l EXCEPT ![v] = NoAddr]
<1>1. m \in Leases /\ m[v] = NoAddr /\ \A w \in VM \ {v} : m[w] = l[w]
  BY Zenon DEF Leases
<1> HIDE DEF m
<1>2. Restorable(m)
  BY Zenon, <1>1 DEF Restorable, Leases
<1> QED BY Zenon, <1>1, <1>2 DEF m

\* The VM gives back the lease it holds, and no other lease changes.
Drops(n, g, v) ==
  /\ leases' \in [Net -> [Gen -> Leases]] /\ \A m \in Net, h \in Gen : Restorable(leases'[m][h])
  /\ leases'[n][g][v] = NoAddr
  /\ \A m \in Net, h \in Gen, w \in VM :
       ~(m = n /\ h = g /\ w = v) => leases'[m][h][w] = leases[m][h][w]

\* Detach drops a lease.
LEMMA Detaches ==
  ASSUME NetInv, NEW n \in Net, NEW g \in Gen, NEW v \in VM,
         leases' = [leases EXCEPT ![n][g][v] = NoAddr]
  PROVE Drops(n, g, v)
<1>0. /\ leases \in [Net -> [Gen -> Leases]] /\ \A m \in Net, h \in Gen : Restorable(leases[m][h])
      /\ leases[n][g] \in Leases
  <2>1. leases \in [Net -> [Gen -> Leases]] /\ \A m \in Net, h \in Gen : Restorable(leases[m][h])
    BY Zenon DEF NetInv, StoreTypes, LeasesUnique
  <2> QED BY Zenon, <2>1
<1> DEFINE l == [leases[n][g] EXCEPT ![v] = NoAddr]
<1>2. /\ l \in Leases /\ Restorable(l) /\ l[v] = NoAddr
      /\ \A w \in VM \ {v} : l[w] = leases[n][g][w]
  <2>1. Restorable(leases[n][g])
    BY Zenon, <1>0
  <2>2. l \in Leases /\ Restorable(l)
    BY Zenon, <2>1, <1>0, RestorableDrop
  <2>3. l[v] = NoAddr /\ \A w \in VM \ {v} : l[w] = leases[n][g][w]
    BY Zenon, <1>0 DEF Leases
  <2> QED BY Zenon, <2>2, <2>3
<1>3. leases' = [leases EXCEPT ![n] = [leases[n] EXCEPT ![g] = l]]
  BY <1>0
<1> HIDE DEF l
<1>4. /\ leases' \in [Net -> [Gen -> Leases]] /\ leases'[n][g] = l
      /\ \A m \in Net, h \in Gen : ~(m = n /\ h = g) => leases'[m][h] = leases[m][h]
  <2>1. Becomes(n, g, l)
    BY Zenon, <1>0, <1>2, <1>3, OneEntry
  <2> QED BY Zenon, <2>1 DEF Becomes
<1>5. \A m \in Net, h \in Gen : Restorable(leases'[m][h])
  BY Zenon, <1>0, <1>2, <1>4
<1>6. \A m \in Net, h \in Gen, w \in VM :
         ~(m = n /\ h = g /\ w = v) => leases'[m][h][w] = leases[m][h][w]
  <2> SUFFICES ASSUME NEW m \in Net, NEW h \in Gen, NEW w \in VM, ~(m = n /\ h = g /\ w = v)
               PROVE leases'[m][h][w] = leases[m][h][w]
    BY Zenon
  <2>1. CASE m = n /\ h = g
    <3>1. leases'[m][h] = l /\ w \in VM \ {v}
      BY Zenon, <1>4, <2>1
    <3> QED BY Zenon, <1>2, <2>1, <3>1
  <2>2. CASE ~(m = n /\ h = g)
    BY Zenon, <1>4, <2>2
  <2> QED BY Zenon, <2>1, <2>2
<1> QED BY Zenon, <1>2, <1>4, <1>5, <1>6 DEF Drops

\* teardown: Networks.Get and Network.Detach.
LEMMA DetachKept == ASSUME NetInv, NEW c \in Caller, Detach(c) PROVE NetInv'
<1> SUFFICES ASSUME NEW k, k = call[c] PROVE NetInv'
  BY Zenon
<1>1. /\ k.pc = "detach" /\ k.vm \in VM /\ k.op \in {"Delete", "discard"}
      /\ rec[k.vm] # NoRecord /\ opMu[k.vm] = c /\ rec[k.vm] \in Named
  BY AtWork DEF Detach, ShapedAt, NetOp, VMOp, LockedAt, NetInv, StoreTypes
<1>2. /\ UNCHANGED <<nets, made, closed, mMu, netFile, present, rec, vmFile, opMu, guest, svc,
                     unloaded, restarts>>
      /\ svc = "serving"
  BY <1>1, Working DEF Detach, vmVars, svcVars
<1>3. PICK n \in Net : n = rec[k.vm].net
  BY Zenon, <1>1 DEF Named
<1>4. leases' \in [Net -> [Gen -> Leases]] /\ \A m \in Net, h \in Gen : Restorable(leases'[m][h])
  <2>1. CASE nets[n] = NoGen
    <3>1. leases' = leases
      BY Zenon, <1>3, <2>1 DEF Detach, Detached
    <3> QED BY Zenon, <3>1 DEF NetInv, StoreTypes, LeasesUnique
  <2>2. CASE nets[n] # NoGen
    <3>1. PICK g \in Gen : g = nets[n]
      BY <2>2 DEF NetInv, StoreTypes
    <3>2. leases' = [leases EXCEPT ![n][g][k.vm] = NoAddr]
      BY Zenon, <1>3, <2>2, <3>1 DEF Detach, Detached
    <3>3. Drops(n, g, k.vm)
      BY Zenon, <1>1, <3>2, Detaches
    <3> QED BY Zenon, <3>3 DEF Drops
  <2> QED BY Zenon, <2>1, <2>2
<1>5. StoreTypes' /\ LeasesUnique'
  BY Zenon, <1>2, <1>4 DEF NetInv, StoreTypes, LeasesUnique
<1>6. Respects(c) /\ \A w \in VM : present'[w] => rec'[w] # NoRecord
  BY Zenon, <1>2 DEF Respects, NetInv, Loading
<1>7. Goes(c, "remove", k.op, k.net, k.gen, k.vm, k.ip)
  BY Zenon, GotoGoes DEF Detach, Label
<1>8. ShapedAt("remove", k.op, k.net, k.gen, k.vm) /\ LockedAt(c, "remove", k.net, k.gen, k.vm)'
  BY <1>1, <1>2 DEF ShapedAt, NetOp, VMOp, LockedAt
<1> QED BY Zenon, <1>5, <1>6, <1>7, <1>8, CallStep

\* A service with no call at work.
LEMMA Quiet ==
  ASSUME StoreTypes', LeasesUnique', Loading', call' = [c \in Caller |-> Idle]
  PROVE NetInv'
<1>1. call' \in [Caller -> Calls] /\ \A c \in Caller : call'[c] = Idle
  BY Zenon, Idles
<1>2. ShapedAt("idle", "none", "none", NoGen, "none")
  BY NamesAssumption DEF ShapedAt, NetOp, VMOp
<1>3. \A c \in Caller : LockedAt(c, "idle", "none", NoGen, "none")'
  BY NamesAssumption DEF LockedAt
<1>4. Shaped(Idle)
  BY Zenon, <1>2, Idles DEF Shaped
<1>5. \A c \in Caller : Locked(c)'
  BY Zenon, <1>1, <1>3, Idles DEF Locked
<1> QED BY Zenon, <1>1, <1>4, <1>5 DEF NetInv

\* vm-manager ends.
LEMMA RestartKept == ASSUME NetInv, Restart PROVE NetInv'
<1>1. /\ UNCHANGED <<made, leases, closed, netFile, vmFile>> /\ svc' = "down" /\ unloaded' = {}
      /\ mMu' = Free /\ call' = [c \in Caller |-> Idle]
  BY Zenon DEF Restart
<1>2. /\ nets' \in [Net -> Gen \cup {NoGen}] /\ present' \in [VM -> BOOLEAN]
      /\ rec' \in [VM -> Named \cup {NoRecord}] /\ opMu' \in [VM -> Caller \cup {Free}]
      /\ \A v \in VM : ~present'[v]
      /\ guest' \in [VM -> [net : Net, ip : Addr \cup {NoAddr}] \cup {NoGuest}]
  BY Zenon DEF Restart, NetInv, StoreTypes
<1>3. restarts' \in Nat
  BY DEF Restart, NetInv, StoreTypes
<1>4. StoreTypes' /\ LeasesUnique'
  BY Zenon, <1>1, <1>2, <1>3 DEF NetInv, StoreTypes, LeasesUnique
<1>5. \A c \in Caller : call'[c] = Idle
  BY Zenon, <1>1
<1>6. Loading'
  BY Zenon, <1>1, <1>2, <1>5 DEF Loading
<1> QED BY Zenon, <1>1, <1>4, <1>6, Quiet

\* Before the service is up no call is at work.
LEMMA Silent == ASSUME NetInv, svc # "serving" PROVE call = [c \in Caller |-> Idle]
<1>1. call \in [Caller -> Calls] /\ \A c \in Caller : call[c] = Idle
  BY Zenon DEF NetInv, Loading
<1> QED BY Zenon, <1>1

\* Load: Restore makes a generation of every network in networks.json.
LEMMA LoadKept == ASSUME NetInv, Load PROVE NetInv'
<1>0. PICK known : /\ known = {n \in Net : netFile[n].known} /\ known \subseteq Net
                   /\ \A n \in known : made[n] < MaxGen /\ Restorable(netFile[n].leases)
  BY Zenon DEF Load
<1>1. /\ UNCHANGED <<closed, mMu, netFile, present, rec, vmFile, opMu, guest, call, restarts>>
      /\ svc = "down" /\ svc' = "loading" /\ unloaded' = {v \in VM : vmFile[v] # NoRecord}
  BY Zenon DEF Load, vmVars
<1>2. /\ made' = [n \in Net |-> IF n \in known THEN made[n] + 1 ELSE made[n]]
      /\ nets' = [n \in Net |-> IF n \in known THEN made[n] + 1 ELSE NoGen]
      /\ leases' = [n \in Net |->
                     IF n \in known THEN [leases[n] EXCEPT ![made[n] + 1] = netFile[n].leases]
                     ELSE leases[n]]
  BY Zenon, <1>0 DEF Load
<1>3. /\ made \in [Net -> 0..MaxGen] /\ leases \in [Net -> [Gen -> Leases]]
      /\ netFile \in [Net -> Entry] /\ \A n \in Net, g \in Gen : Restorable(leases[n][g])
  BY Zenon DEF NetInv, StoreTypes, LeasesUnique
<1>4. \A n \in known : made[n] + 1 \in Gen
  BY <1>0, <1>3, BoundsAssumption DEF Gen
<1>5. nets' \in [Net -> Gen \cup {NoGen}] /\ made' \in [Net -> 0..MaxGen]
  <2>1. nets' \in [Net -> Gen \cup {NoGen}]
    BY Zenon, <1>2, <1>4
  <2>2. \A n \in Net : (IF n \in known THEN made[n] + 1 ELSE made[n]) \in 0..MaxGen
    BY <1>0, <1>3, BoundsAssumption
  <2> QED BY Zenon, <1>2, <2>1, <2>2
<1>6. ASSUME NEW n \in Net
      PROVE leases'[n] \in [Gen -> Leases] /\ \A g \in Gen : Restorable(leases'[n][g])
  <2>1. netFile[n].leases \in Leases /\ leases[n] \in [Gen -> Leases]
    BY <1>3 DEF Entry
  <2>2. CASE n \in known
    <3>1. leases'[n] = [leases[n] EXCEPT ![made[n] + 1] = netFile[n].leases]
      BY Zenon, <1>2, <2>2
    <3>2. PICK h \in Gen : h = made[n] + 1
      BY Zenon, <1>4, <2>2
    <3>3. leases'[n] = [leases[n] EXCEPT ![h] = netFile[n].leases]
      BY Zenon, <3>1, <3>2
    <3>4. /\ leases'[n] \in [Gen -> Leases] /\ leases'[n][h] = netFile[n].leases
          /\ \A g \in Gen \ {h} : leases'[n][g] = leases[n][g]
      BY Zenon, <2>1, <3>3
    <3> QED BY Zenon, <1>0, <1>3, <2>2, <3>4
  <2>3. CASE n \notin known
    <3>1. leases'[n] = leases[n]
      BY Zenon, <1>2, <2>3
    <3> QED BY Zenon, <1>3, <2>1, <3>1
  <2> QED BY Zenon, <2>2, <2>3
<1>7. leases' \in [Net -> [Gen -> Leases]]
  <2>1. leases' = [n \in Net |-> leases'[n]]
    BY <1>2
  <2> QED BY Zenon, <1>6, <2>1
<1>8. StoreTypes' /\ LeasesUnique'
  BY Zenon, <1>1, <1>5, <1>6, <1>7 DEF NetInv, StoreTypes, LeasesUnique
<1>9. Loading'
  BY Zenon, <1>1 DEF NetInv, Loading
<1> QED BY Zenon, <1>1, <1>8, <1>9, Silent, Quiet

\* loadEntry and reattachOrStop.
LEMMA LoadVMKept == ASSUME NetInv, NEW v \in VM, LoadVM(v) PROVE NetInv'
<1>1. /\ UNCHANGED <<nets, made, closed, mMu, netFile, opMu, guest, call, svc, restarts>>
      /\ svc = "loading" /\ v \in unloaded /\ unloaded' = unloaded \ {v}
      /\ present' = [present EXCEPT ![v] = TRUE]
  BY Zenon DEF LoadVM
<1>2. PICK r \in Named : r = vmFile[v]
  BY Zenon, <1>1 DEF NetInv, StoreTypes, Loading
<1>3. r.net \in Net
  BY Zenon, <1>2 DEF Named
<1>4. leases' \in [Net -> [Gen -> Leases]] /\ \A m \in Net, h \in Gen : Restorable(leases'[m][h])
  <2>1. CASE leases' = leases
    BY Zenon, <2>1 DEF NetInv, StoreTypes, LeasesUnique
  <2>2. CASE leases' # leases
    <3>1. /\ nets[r.net] # NoGen /\ Attached(r.net, nets[r.net], v) # NoAddr
          /\ leases' = [leases EXCEPT ![r.net][nets[r.net]][v] = Attached(r.net, nets[r.net], v)]
      BY Zenon, <1>2, <2>2 DEF LoadVM
    <3>2. PICK g \in Gen : g = nets[r.net]
      BY <1>3, <3>1 DEF NetInv, StoreTypes
    <3>3. PICK i : i = Attached(r.net, g, v)
      OBVIOUS
    <3>4. leases' = [leases EXCEPT ![r.net][g][v] = i] /\ i # NoAddr
      BY Zenon, <3>1, <3>2, <3>3
    <3>5. Takes(r.net, g, v, i)
      BY Zenon, <1>3, <3>3, <3>4, Attaches
    <3> QED BY Zenon, <3>5 DEF Takes
  <2> QED BY Zenon, <2>1, <2>2
<1>5. PICK s \in {"creating", "live", "stopped", "deleting", "failed"} : Save(v, [r EXCEPT !.state = s])
  BY <1>2 DEF LoadVM, Named
<1>6. [r EXCEPT !.state = s] \in Named
  BY Zenon, <1>2, NamedState
<1>7. /\ rec' \in [VM -> Named \cup {NoRecord}] /\ vmFile' \in [VM -> Named \cup {NoRecord}]
      /\ rec'[v] # NoRecord
      /\ \A w \in VM \ {v} : vmFile'[w] = vmFile[w] /\ rec'[w] = rec[w]
  BY Zenon, <1>5, <1>6, Saves
<1>8. present' \in [VM -> BOOLEAN] /\ \A w \in VM \ {v} : present'[w] = present[w]
  BY Zenon, <1>1 DEF NetInv, StoreTypes
<1>9. unloaded' \subseteq VM
  BY Zenon, <1>1 DEF NetInv, StoreTypes
<1>10. StoreTypes' /\ LeasesUnique'
  BY Zenon, <1>1, <1>4, <1>7, <1>8, <1>9 DEF NetInv, StoreTypes, LeasesUnique
<1>11. Loading'
  <2>1. \A w \in unloaded' : vmFile'[w] # NoRecord
    BY Zenon, <1>1, <1>7, <1>9 DEF NetInv, Loading
  <2>2. \A w \in VM : present'[w] => rec'[w] # NoRecord
    BY Zenon, <1>7, <1>8 DEF NetInv, Loading
  <2> QED BY Zenon, <1>1, <2>1, <2>2 DEF NetInv, Loading
<1> QED BY Zenon, <1>1, <1>10, <1>11, Silent, Quiet

\* The service is up.
LEMMA ServeKept == ASSUME NetInv, Serve PROVE NetInv'
<1>1. /\ UNCHANGED <<nets, made, leases, closed, mMu, netFile, present, rec, vmFile, opMu, guest,
                     call, unloaded, restarts>>
      /\ svc = "loading" /\ svc' = "serving" /\ unloaded = {}
  BY Zenon DEF Serve, netVars, vmVars
<1>2. StoreTypes' /\ LeasesUnique' /\ Loading'
  BY Zenon, <1>1 DEF NetInv, StoreTypes, LeasesUnique, Loading
<1> QED BY Zenon, <1>1, <1>2, Silent, Quiet

\* A first start, with nothing on disk.
LEMMA NetInit == ASSUME Init PROVE NetInv
<1>1. NoLeases \in Leases /\ Restorable(NoLeases)
  BY DEF NoLeases, Leases, Restorable, NoAddr
<1>2. NoNet \in Entry /\ NoNet.leases = NoLeases
  BY Zenon, <1>1 DEF NoNet, Entry
<1>3. made \in [Net -> 0..MaxGen] /\ restarts \in Nat
  BY BoundsAssumption DEF Init
<1>4. StoreTypes
  BY Zenon, <1>1, <1>2, <1>3 DEF Init, StoreTypes
<1>5. LeasesUnique
  <2>1. \A n \in Net, g \in Gen : leases[n][g] = NoLeases
    BY Zenon DEF Init
  <2>2. \A n \in Net : netFile[n].leases = NoLeases
    BY Zenon, <1>2 DEF Init
  <2> QED BY Zenon, <1>1, <2>1, <2>2 DEF LeasesUnique
<1>6. call \in [Caller -> Calls] /\ \A c \in Caller : call[c] = Idle
  BY Zenon, Idles DEF Init
<1>7. Loading
  BY Zenon, <1>6 DEF Init, Loading
<1>8. ShapedAt("idle", "none", "none", NoGen, "none")
  BY NamesAssumption DEF ShapedAt, NetOp, VMOp
<1>9. \A c \in Caller : LockedAt(c, "idle", "none", NoGen, "none")
  BY NamesAssumption DEF LockedAt
<1>10. Shaped(Idle)
  BY Zenon, <1>8, Idles DEF Shaped
<1>11. \A c \in Caller : Locked(c)
  BY Zenon, <1>6, <1>9, Idles DEF Locked
<1> QED BY Zenon, <1>4, <1>5, <1>6, <1>7, <1>10, <1>11 DEF NetInv

\* Every step keeps the invariant.
LEMMA NetStep == ASSUME NetInv, [Next]_vars PROVE NetInv'
<1>1. CASE UNCHANGED vars
  <2>1. UNCHANGED <<nets, made, leases, closed, mMu, netFile, present, rec, vmFile, opMu, guest, call,
                    svc, unloaded, restarts>>
    BY Zenon, <1>1 DEF vars, netVars, vmVars, svcVars
  <2> QED BY Zenon, <2>1 DEF NetInv, StoreTypes, LeasesUnique, Loading, Locked, LockedAt
<1>2. ASSUME NEW c \in Caller, NetworkStep(c) PROVE NetInv'
  BY Zenon, <1>2, CreateNetworkKept, DeleteNetworkKept, ServeIMDSKept, GetNetworkKept, ListenIMDSKept,
     RegisterIMDSKept, DeleteChecksKept, CloseNetworkKept, ListKept, PersistKept DEF NetworkStep
<1>3. ASSUME NEW c \in Caller, VMStep(c) PROVE NetInv'
  BY Zenon, <1>3, StartKept, DeleteKept, CreateKept, AllocateKept, LaunchKept, ProvisionKept, RecordIPKept,
     StartGetsKept, StartAttachesKept, StartQEMUKept, DetachKept, RemoveKept DEF VMStep
<1> QED BY Zenon, <1>1, <1>2, <1>3, ProcessExitsKept, LoadVMKept, RestartKept, LoadKept, ServeKept
        DEF Next

\* No address is leased twice in a network, whatever calls, restarts and
\* deletions of networks overlap, and every networks.json that is written can be
\* restored: the pool of Attach and the check of parseLeases.
THEOREM NoAddressTwice == Spec => []LeasesUnique
<1>1. NetInv => LeasesUnique
  BY Zenon DEF NetInv
<1> QED BY <1>1, NetInit, NetStep, PTL DEF Spec

-----------------------------------------------------------------------------
(* Until vm-manager ends.                                                  *)

\* What a step of call c that goes on for VM v does to leases: it changes them
\* under opMu, adds one to its VM only, and takes none from a guest.
Leasing(c, v) ==
  /\ \A m \in Net : made[m] <= made'[m]
  /\ \A m \in Net : nets'[m] # NoGen => nets'[m] = nets[m] \/ leases'[m][nets'[m]] = NoLeases
  /\ \A w \in VM : opMu[w] = c \/ \A m \in Net, h \in Gen : leases'[m][h][w] = leases[m][h][w]
  /\ \A m \in Net, h \in Gen, w \in VM :
       leases'[m][h][w] # NoAddr => leases[m][h][w] # NoAddr \/ (w = v /\ rec'[w].net = m)
  /\ \A w \in VM : guest[w] # NoGuest =>
       \A m \in Net, h \in Gen : leases[m][h][w] \in {NoAddr, leases'[m][h][w]}

\* What a step of a call that was at VM u and goes on for VM v does to VM w: an
\* id in use keeps its network, an id that is only reserved is left alone, and
\* who could be found keeps an owner unless it has no lease.
Tame(u, v, w) ==
  /\ rec[w] # NoRecord => rec'[w].net = rec[w].net
  /\ \/ w = u \/ present[w] \/ guest[w] # NoGuest
     \/ present'[w] = present[w] /\ rec'[w] = rec[w] /\ vmFile'[w] = vmFile[w] /\ guest'[w] = guest[w]
  /\ w = v => w = u \/ present[w] \/ \A d \in Caller : call[d].vm # w
  /\ present[w] => present'[w] \/ w = v
  /\ guest[w] # NoGuest => guest'[w] # NoGuest \/ vmFile'[w] # NoRecord
  /\ vmFile[w] # NoRecord => vmFile'[w] # NoRecord \/ w = v
  /\ w = u => w = v \/ vmFile'[w] # NoRecord \/ NoLease(w)
  /\ present'[w] /\ guest'[w] # NoGuest =>
       \/ present[w] /\ guest'[w] = guest[w]
       \/ guest'[w].ip # NoAddr /\ \E h \in Gen : leases'[guest'[w].net][h][w] = guest'[w].ip

\* The call that moves, if the step is one of a call.
Moves(c, u, v) ==
  /\ \A d \in Caller \ {c} : call'[d] = call[d]
  /\ \/ c \in Caller /\ call[c].vm = u /\ call'[c].vm = v /\ Fresh(c)'
     \/ c \notin Caller /\ u \notin VM /\ v \notin VM

\* Such a step keeps what holds until vm-manager ends.
LEMMA AnyStep ==
  ASSUME NetInv, NetInv', FirstRun, restarts = 0, svc' = "serving",
         NEW c, NEW u, NEW v, Moves(c, u, v), Leasing(c, v), \A w \in VM : Tame(u, v, w),
         \A m \in Net : Numbered(m)'
  PROVE FirstRun'
<1>0. /\ LeaseHasOwner /\ \A d \in Caller : Fresh(d)
      /\ \A w \in VM : Attachment(w) /\ Tame(u, v, w)
  BY Zenon DEF FirstRun
<1>1. /\ leases \in [Net -> [Gen -> Leases]] /\ nets' \in [Net -> Gen \cup {NoGen}]
      /\ \A w \in VM : NoLeases[w] = NoAddr
      /\ guest' \in [VM -> [net : Net, ip : Addr \cup {NoAddr}] \cup {NoGuest}]
  BY Zenon DEF NetInv, StoreTypes, NoLeases
<1>2. /\ v \in VM => c \in Caller /\ call'[c].vm = v
      /\ \A d \in Caller \ {c} : call'[d] = call[d]
  BY Zenon DEF Moves
<1>3. LeaseHasOwner'
  <2> SUFFICES ASSUME NEW m \in Net, NEW w \in VM, nets'[m] # NoGen, leases'[m][nets'[m]][w] # NoAddr
               PROVE \/ present'[w] \/ guest'[w] # NoGuest \/ vmFile'[w] # NoRecord
                     \/ \E d \in Caller : call'[d].vm = w
    BY Zenon DEF LeaseHasOwner
  <2>1. PICK h \in Gen : h = nets'[m]
    BY Zenon, <1>1
  <2>2. nets[m] = h /\ nets[m] # NoGen
    BY Zenon, <1>1, <2>1 DEF Leasing
  <2>3. CASE leases[m][h][w] = NoAddr
    <3>1. w = v
      BY Zenon, <2>1, <2>3 DEF Leasing
    <3> QED BY Zenon, <1>2, <3>1
  <2>4. CASE leases[m][h][w] # NoAddr
    <3>1. \/ present[w] \/ guest[w] # NoGuest \/ vmFile[w] # NoRecord
          \/ \E d \in Caller : call[d].vm = w
      BY Zenon, <1>0, <2>2, <2>4 DEF LeaseHasOwner
    <3>2. ~NoLease(w)
      BY Zenon, <2>2, <2>4 DEF NoLease
    <3>3. Tame(u, v, w)
      BY Zenon, <1>0
    <3>4. CASE w = u
      <4>1. w = v \/ vmFile'[w] # NoRecord
        BY Zenon, <3>2, <3>3, <3>4 DEF Tame
      <4> QED BY Zenon, <1>2, <4>1
    <3>5. CASE w # u /\ \E d \in Caller : call[d].vm = w
      <4>1. PICK d \in Caller : call[d].vm = w
        BY Zenon, <3>5
      <4>2. d # c
        BY Zenon, <3>5, <4>1 DEF Moves
      <4> QED BY Zenon, <1>2, <4>1, <4>2
    <3>6. CASE present[w] \/ guest[w] # NoGuest \/ vmFile[w] # NoRecord
      <4>1. w = v \/ present'[w] \/ guest'[w] # NoGuest \/ vmFile'[w] # NoRecord
        BY Zenon, <3>3, <3>6 DEF Tame
      <4> QED BY Zenon, <1>2, <4>1
    <3> QED BY Zenon, <3>1, <3>4, <3>5, <3>6
  <2> QED BY Zenon, <2>3, <2>4
<1>4. ASSUME NEW d \in Caller \ {c} PROVE Fresh(d)'
  <2> SUFFICES ASSUME NEW x, x = call[d]
               PROVE FreshAt(d, x.pc, x.op, x.net, x.gen, x.vm, x.ip)'
    BY Zenon, <1>2 DEF Fresh
  <2>1. /\ FreshAt(d, x.pc, x.op, x.net, x.gen, x.vm, x.ip)
        /\ ShapedAt(x.pc, x.op, x.net, x.gen, x.vm) /\ LockedAt(d, x.pc, x.net, x.gen, x.vm)
        /\ x \in Calls
    BY Zenon, <1>0, AtWork DEF Fresh
  <2>2. x.pc = "allocate" =>
           /\ rec'[x.vm] = NoRecord /\ vmFile'[x.vm] = NoRecord /\ guest'[x.vm] = NoGuest /\ ~present'[x.vm]
           /\ \A e \in Caller \ {d} : call'[e].vm # x.vm
    <3> SUFFICES ASSUME x.pc = "allocate"
                 PROVE /\ rec'[x.vm] = NoRecord /\ vmFile'[x.vm] = NoRecord
                       /\ guest'[x.vm] = NoGuest /\ ~present'[x.vm]
                       /\ \A e \in Caller \ {d} : call'[e].vm # x.vm
      BY Zenon
    <3>1. x.vm \in VM
      BY <2>1 DEF ShapedAt, VMOp
    <3>2. /\ rec[x.vm] = NoRecord /\ vmFile[x.vm] = NoRecord /\ guest[x.vm] = NoGuest /\ ~present[x.vm]
          /\ \A e \in Caller \ {d} : call[e].vm # x.vm
      BY Zenon, <2>1 DEF FreshAt
    <3>3. x.vm # u
      BY Zenon, <3>1, <3>2 DEF Moves
    <3>4. x.vm # v
      BY Zenon, <1>0, <3>1, <3>2, <3>3 DEF Tame
    <3>5. \A e \in Caller \ {d} : call'[e].vm # x.vm
      BY Zenon, <3>2, <3>4 DEF Moves
    <3>6. Tame(u, v, x.vm)
      BY Zenon, <1>0, <3>1
    <3>7. /\ rec'[x.vm] = NoRecord /\ vmFile'[x.vm] = NoRecord
          /\ guest'[x.vm] = NoGuest /\ ~present'[x.vm]
      BY Zenon, <3>2, <3>3, <3>6 DEF Tame
    <3> QED BY Zenon, <3>5, <3>7
  <2>3. x.pc \in {"launch", "provision", "record", "attach", "qemu"} => x.net = rec'[x.vm].net
    <3> SUFFICES ASSUME x.pc \in {"launch", "provision", "record", "attach", "qemu"}
                 PROVE x.net = rec'[x.vm].net
      BY Zenon
    <3>1. x.vm \in VM /\ rec[x.vm] # NoRecord
      BY <2>1 DEF ShapedAt, VMOp, LockedAt
    <3> QED BY Zenon, <1>0, <2>1, <3>1 DEF Tame, FreshAt
  <2>4. x.pc = "qemu" => x.ip # NoAddr /\ leases'[x.net][x.gen][x.vm] = x.ip
    <3> SUFFICES ASSUME x.pc = "qemu" PROVE x.ip # NoAddr /\ leases'[x.net][x.gen][x.vm] = x.ip
      BY Zenon
    <3>1. x.vm \in VM /\ opMu[x.vm] = d /\ x.net \in Net /\ x.gen \in Gen
      BY <2>1 DEF ShapedAt, VMOp, LockedAt
    <3>2. \A m \in Net, h \in Gen : leases'[m][h][x.vm] = leases[m][h][x.vm]
      BY Zenon, <3>1 DEF Leasing
    <3>3. leases'[x.net][x.gen][x.vm] = leases[x.net][x.gen][x.vm]
      BY Zenon, <3>1, <3>2
    <3> QED BY Zenon, <2>1, <3>3 DEF FreshAt
  <2>5. (x.pc \in {"remove", "forget"} \/ (x.pc \in {"list", "states"} /\ x.op \in {"Delete", "discard"})) =>
          \A m \in Net : nets'[m] # NoGen => leases'[m][nets'[m]][x.vm] = NoAddr
    <3> SUFFICES ASSUME x.pc \in {"remove", "forget"} \/ (x.pc \in {"list", "states"} /\ x.op \in {"Delete", "discard"}),
                        NEW m \in Net, nets'[m] # NoGen
                 PROVE leases'[m][nets'[m]][x.vm] = NoAddr
      BY Zenon
    <3>1. x.vm \in VM /\ opMu[x.vm] = d
      BY <2>1 DEF ShapedAt, VMOp, LockedAt
    <3>2. PICK h \in Gen : h = nets'[m]
      BY Zenon, <1>1
    <3>3. leases'[m][h][x.vm] = leases[m][h][x.vm]
      BY Zenon, <3>1 DEF Leasing
    <3>4. nets[m] = h => leases[m][h][x.vm] = NoAddr
      BY Zenon, <2>1, <3>2 DEF FreshAt, NoLease
    <3>5. nets[m] = h \/ leases'[m][h] = NoLeases
      BY Zenon, <3>2 DEF Leasing
    <3> QED BY Zenon, <1>1, <3>1, <3>2, <3>3, <3>4, <3>5
  <2>6. x.net \in Net => x.gen <= made'[x.net]
    <3>1. x.net \in Net => made[x.net] \in Nat /\ made'[x.net] \in Nat /\ x.gen \in Nat /\ made[x.net] <= made'[x.net]
      <4>1. /\ x.net \in Net => made[x.net] \in 0..MaxGen /\ made'[x.net] \in 0..MaxGen
                              /\ made[x.net] <= made'[x.net]
            /\ x.gen \in Gen \cup {NoGen}
        BY Zenon, <2>1 DEF NetInv, StoreTypes, Leasing, Calls
      <4>2. x.gen \in Nat
        BY <4>1 DEF Gen, NoGen
      <4> QED BY <4>1, <4>2, BoundsAssumption
    <3>2. x.net \in Net => x.gen <= made[x.net]
      BY Zenon, <2>1 DEF FreshAt
    <3> QED BY <3>1, <3>2
  <2> QED BY Zenon, <2>2, <2>3, <2>4, <2>5, <2>6 DEF FreshAt, NoLease
<1>5. c \in Caller => Fresh(c)'
  BY Zenon DEF Moves
<1>6. ASSUME NEW w \in VM PROVE Attachment(w)'
  <2>1. Attachment(w) /\ Tame(u, v, w)
    BY Zenon, <1>0
  <2>2. ASSUME NEW m \in Net, NEW h \in Gen, leases'[m][h][w] # NoAddr PROVE rec'[w].net = m
    <3>1. CASE leases[m][h][w] = NoAddr
      BY Zenon, <2>2, <3>1 DEF Leasing
    <3>2. CASE leases[m][h][w] # NoAddr
      <4>1. rec[w].net = m
        BY Zenon, <2>1, <3>2 DEF Attachment
      <4>2. rec[w] # NoRecord
        <5>1. NoRecord.net = "none" /\ m # "none"
          BY Zenon, NamesAssumption DEF NoRecord
        <5> QED BY Zenon, <4>1, <5>1
      <4> QED BY Zenon, <2>1, <4>1, <4>2 DEF Tame
    <3> QED BY Zenon, <3>1, <3>2
  <2>3. ASSUME present'[w], guest'[w] # NoGuest
        PROVE guest'[w].ip # NoAddr /\ \E h \in Gen : leases'[guest'[w].net][h][w] = guest'[w].ip
    <3>1. CASE present[w] /\ guest'[w] = guest[w]
      <4>1. PICK q : q = guest[w]
        OBVIOUS
      <4>2. PICK h \in Gen : leases[q.net][h][w] = q.ip
        BY Zenon, <2>1, <2>3, <3>1, <4>1 DEF Attachment
      <4>3. q.ip # NoAddr /\ q # NoGuest
        BY Zenon, <2>1, <2>3, <3>1, <4>1 DEF Attachment
      <4>4. q.net \in Net
        BY <1>1, <2>3, <3>1, <4>1
      <4>5. leases'[q.net][h][w] = q.ip
        BY Zenon, <4>1, <4>2, <4>3, <4>4 DEF Leasing
      <4> QED BY Zenon, <3>1, <4>1, <4>3, <4>5
    <3>2. CASE ~(present[w] /\ guest'[w] = guest[w])
      BY Zenon, <2>1, <2>3, <3>2 DEF Tame
    <3> QED BY Zenon, <3>1, <3>2
  <2> QED BY Zenon, <2>2, <2>3 DEF Attachment
<1> QED BY Zenon, <1>3, <1>4, <1>5, <1>6 DEF FirstRun

\* Such a step of a call.
LEMMA RunStep ==
  ASSUME NetInv, NetInv', FirstRun, restarts = 0, svc' = "serving",
         NEW c \in Caller, NEW l, NEW o, NEW n, NEW g, NEW v, NEW i,
         Goes(c, l, o, n, g, v, i), FreshAt(c, l, o, n, g, v, i)', Leasing(c, v),
         \A w \in VM : Tame(call[c].vm, v, w), \A m \in Net : Numbered(m)'
  PROVE FirstRun'
<1> SUFFICES ASSUME NEW u, u = call[c].vm PROVE FirstRun'
  BY Zenon
<1>1. Fresh(c)' /\ call'[c].vm = v /\ \A d \in Caller \ {c} : call'[d] = call[d]
  BY Zenon DEF Fresh, Goes
<1>2. Moves(c, u, v)
  BY Zenon, <1>1 DEF Moves
<1> QED BY Zenon, <1>2, AnyStep

\* A step that changes no network and no lease.
LEMMA RunMoves ==
  ASSUME NetInv, NetInv', FirstRun, restarts = 0, svc' = svc,
         NEW c \in Caller, NEW l, NEW o, NEW n, NEW g, NEW v, NEW i,
         Goes(c, l, o, n, g, v, i), FreshAt(c, l, o, n, g, v, i)',
         UNCHANGED <<nets, made, leases, closed>>, \A w \in VM : Tame(call[c].vm, v, w)
  PROVE FirstRun'
<1>1. \A m \in Net : made[m] <= made'[m]
  BY BoundsAssumption DEF NetInv, StoreTypes
<1>2. Leasing(c, v)
  BY Zenon, <1>1 DEF Leasing
<1>3. \A m \in Net : Numbered(m)'
  BY Zenon DEF FirstRun, Numbered
<1>4. svc' = "serving"
  BY Zenon DEF FirstRun
<1> QED BY Zenon, <1>2, <1>3, <1>4, RunStep

\* A step that only moves a call: it keeps its VM, it finds one that is in use
\* or that nobody has used, or it leaves one without a lease.
LEMMA RunPure ==
  ASSUME NetInv, NetInv', FirstRun, restarts = 0, svc' = svc,
         NEW c \in Caller, NEW l, NEW o, NEW n, NEW g, NEW v, NEW i,
         Goes(c, l, o, n, g, v, i), FreshAt(c, l, o, n, g, v, i),
         UNCHANGED <<nets, made, leases, closed, present, rec, vmFile, guest>>,
         \/ v = call[c].vm
         \/ call[c].vm \notin VM /\ (v \in VM => present[v] \/ \A d \in Caller : call[d].vm # v)
         \/ v \notin VM /\ NoLease(call[c].vm)
  PROVE FirstRun'
<1> SUFFICES ASSUME NEW u, u = call[c].vm PROVE FirstRun'
  BY Zenon
<1>1. \A d \in Caller \ {c} : call'[d] = call[d]
  BY Zenon DEF Goes
<1>2. FreshAt(c, l, o, n, g, v, i)'
  BY Zenon, <1>1 DEF FreshAt, NoLease
<1>3. ASSUME NEW w \in VM PROVE Tame(u, v, w)
  <2>1. w = v => w = u \/ present[w] \/ \A d \in Caller : call[d].vm # w
    BY Zenon
  <2>2. w = u => w = v \/ vmFile'[w] # NoRecord \/ NoLease(w)
    BY Zenon
  <2> QED BY Zenon, <2>1, <2>2 DEF Tame
<1> QED BY Zenon, <1>2, <1>3, RunMoves

\* What a call at work on a network counts on.
LEMMA FreshNet ==
  ASSUME NEW c, NEW o, NEW n, NEW g, NEW v, NEW i, n \in Net => g <= made[n],
         NEW l \in Label,
         l \notin {"allocate", "launch", "provision", "record", "attach", "qemu", "remove", "forget"},
         l \in {"list", "states"} => o \notin {"Delete", "discard"}
  PROVE FreshAt(c, l, o, n, g, v, i)
BY Zenon DEF FreshAt

\* A call has a generation that was made.
LEMMA MadeGen ==
  ASSUME NetInv, FirstRun, restarts = 0
  PROVE /\ \A c \in Caller : Fresh(c) /\ (call[c].net \in Net => call[c].gen <= made[call[c].net])
        /\ \A n \in Net : nets[n] <= made[n] /\ NoGen <= made[n]
<1>1. \A n \in Net : NoGen <= made[n]
  BY BoundsAssumption DEF NetInv, StoreTypes, NoGen
<1> QED BY Zenon, <1>1 DEF FirstRun, Fresh, FreshAt, Numbered

\* ServeIMDS and its steps, DeleteNetwork and its second step.
LEMMA ServeIMDSRun ==
  ASSUME NetInv, NetInv', FirstRun, restarts = 0, NEW c \in Caller,
         ServeIMDS(c) \/ RegisterIMDS(c) \/ Unserve(c)
  PROVE FirstRun'
<1> SUFFICES ASSUME NEW k, k = call[c] PROVE FirstRun'
  BY Zenon
<1>1. PICK l \in {"list", "get"} : Goto(c, l) /\ k.pc \in {"serve", "register", "unserve"}
  BY Zenon DEF ServeIMDS, RegisterIMDS, Unserve
<1>2. Goes(c, l, k.op, k.net, k.gen, k.vm, k.ip) /\ l \in Label
  BY Zenon, <1>1, GotoGoes DEF Label
<1>3. k.op \notin {"Delete", "discard"}
  BY <1>1, AtWork DEF ShapedAt, NetOp
<1>4. FreshAt(c, l, k.op, k.net, k.gen, k.vm, k.ip)
  BY Zenon, <1>1, <1>2, <1>3, MadeGen, FreshNet
<1>5. UNCHANGED <<nets, made, leases, closed, present, rec, vmFile, guest>> /\ svc' = svc
  BY Zenon DEF ServeIMDS, RegisterIMDS, Unserve, netVars, vmVars, svcVars
<1> QED BY Zenon, <1>2, <1>4, <1>5, RunPure

\* ServeIMDS: Networks.Get and ListenIMDS.
LEMMA GetNetworkRun ==
  ASSUME NetInv, NetInv', FirstRun, restarts = 0, NEW c \in Caller,
         GetNetwork(c) \/ ListenIMDS(c)
  PROVE FirstRun'
<1> SUFFICES ASSUME NEW k, k = call[c] PROVE FirstRun'
  BY Zenon
<1>0. k.net \in Net /\ nets[k.net] \in Gen \cup {NoGen} /\ k.gen <= made[k.net]
  BY AtWork, MadeGen DEF GetNetwork, ListenIMDS, ShapedAt, NetInv, StoreTypes
<1>1. UNCHANGED <<nets, made, leases, closed, present, rec, vmFile, guest>> /\ svc' = svc
  BY Zenon DEF GetNetwork, ListenIMDS, netVars, vmVars, svcVars
<1>2. CASE Undo(c)
  <2>1. Goes(c, "delete", "undo", k.net, k.gen, k.vm, k.ip) /\ "delete" \in Label
    BY Zenon, <1>2, TurnGoes DEF Undo, Label, NetOp
  <2>2. FreshAt(c, "delete", "undo", k.net, k.gen, k.vm, k.ip)
    BY Zenon, <1>0, <2>1, FreshNet
  <2> QED BY Zenon, <1>1, <2>1, <2>2, RunPure
<1>3. CASE Goto(c, "register")
  <2>1. Goes(c, "register", k.op, k.net, k.gen, k.vm, k.ip) /\ "register" \in Label
    BY Zenon, <1>3, GotoGoes DEF Label
  <2>2. FreshAt(c, "register", k.op, k.net, k.gen, k.vm, k.ip)
    BY Zenon, <1>0, <2>1, FreshNet
  <2> QED BY Zenon, <1>1, <2>1, <2>2, RunPure
<1>4. CASE nets[k.net] # NoGen /\ call' = [call EXCEPT ![c].pc = "listen", ![c].gen = nets[k.net]]
  <2>1. PICK g \in Gen : g = nets[k.net]
    BY Zenon, <1>0, <1>4
  <2>2. Goes(c, "listen", k.op, k.net, g, k.vm, k.ip) /\ "listen" \in Label
    BY Zenon, <1>4, <2>1, TakeGoes DEF Label
  <2>3. FreshAt(c, "listen", k.op, k.net, g, k.vm, k.ip)
    BY Zenon, <1>0, <2>1, <2>2, MadeGen, FreshNet
  <2> QED BY Zenon, <1>1, <2>2, <2>3, RunPure
<1> QED BY Zenon, <1>2, <1>3, <1>4 DEF GetNetwork, ListenIMDS

\* DeleteNetwork: no VM of the service names the network.
LEMMA DeleteNetworkRun ==
  ASSUME NetInv, NetInv', FirstRun, restarts = 0, NEW c \in Caller, NEW n \in Net, DeleteNetwork(c, n)
  PROVE FirstRun'
<1>1. Goes(c, "delete", "DeleteNetwork", n, NoGen, "none", NoAddr) /\ "delete" \in Label
  BY Zenon, NetCallGoes DEF DeleteNetwork, Label, NetOp
<1>2. FreshAt(c, "delete", "DeleteNetwork", n, NoGen, "none", NoAddr)
  BY Zenon, <1>1, MadeGen, FreshNet
<1>3. UNCHANGED <<nets, made, leases, closed, present, rec, vmFile, guest>> /\ svc' = svc
  BY Zenon DEF DeleteNetwork, netVars, vmVars, svcVars
<1>4. call[c].vm \notin VM
  BY AtWork DEF DeleteNetwork, ShapedAt, VMOp
<1> QED BY Zenon, <1>1, <1>2, <1>3, <1>4, NamesAssumption, RunPure

\* Manager.Delete: unknown or in use, or on to Close.
LEMMA DeleteChecksRun ==
  ASSUME NetInv, NetInv', FirstRun, restarts = 0, NEW c \in Caller, DeleteChecks(c)
  PROVE FirstRun'
<1> SUFFICES ASSUME NEW k, k = call[c] PROVE FirstRun'
  BY Zenon
<1>0. k.net \in Net /\ nets[k.net] \in Gen \cup {NoGen} /\ k.vm \notin VM
  BY AtWork DEF DeleteChecks, ShapedAt, NetInv, StoreTypes, NetOp, VMOp
<1>1. UNCHANGED <<nets, made, leases, closed, present, rec, vmFile, guest>> /\ svc' = svc
  BY Zenon DEF DeleteChecks, vmVars, svcVars
<1>2. CASE Return(c)
  <2>1. Goes(c, "idle", "none", "none", NoGen, "none", NoAddr) /\ "idle" \in Label
    BY Zenon, <1>2, ReturnGoes DEF Label
  <2>2. FreshAt(c, "idle", "none", "none", NoGen, "none", NoAddr)
    BY Zenon, <2>1, NamesAssumption, FreshNet
  <2> QED BY Zenon, <1>0, <1>1, <2>1, <2>2, NamesAssumption, RunPure
<1>3. CASE nets[k.net] # NoGen /\ call' = [call EXCEPT ![c].pc = "close", ![c].gen = nets[k.net]]
  <2>1. PICK g \in Gen : g = nets[k.net]
    BY Zenon, <1>0, <1>3
  <2>2. Goes(c, "close", k.op, k.net, g, k.vm, k.ip) /\ "close" \in Label
    BY Zenon, <1>3, <2>1, TakeGoes DEF Label
  <2>3. FreshAt(c, "close", k.op, k.net, g, k.vm, k.ip)
    BY Zenon, <1>0, <2>1, <2>2, MadeGen, FreshNet
  <2> QED BY Zenon, <1>1, <2>2, <2>3, RunPure
<1> QED BY Zenon, <1>2, <1>3 DEF DeleteChecks, Deletable

\* persistNetworks: the snapshot.
LEMMA ListRun ==
  ASSUME NetInv, NetInv', FirstRun, restarts = 0, NEW c \in Caller,
         List(c) \/ \E n \in Net, g \in Gen : State(c, n, g)
  PROVE FirstRun'
<1> SUFFICES ASSUME NEW k, k = call[c] PROVE FirstRun'
  BY Zenon
<1>1. k.pc \in {"list", "states"} /\ FreshAt(c, k.pc, k.op, k.net, k.gen, k.vm, k.ip)
  BY Zenon, MadeGen DEF List, State, Fresh
<1>2. Goes(c, "states", k.op, k.net, k.gen, k.vm, k.ip)
  BY Zenon, ListGoes
<1>3. FreshAt(c, "states", k.op, k.net, k.gen, k.vm, k.ip)
  BY Zenon, <1>1 DEF FreshAt
<1>4. UNCHANGED <<nets, made, leases, closed, present, rec, vmFile, guest>> /\ svc' = svc
  BY Zenon DEF List, State, netVars, vmVars, svcVars
<1> QED BY Zenon, <1>2, <1>3, <1>4, RunPure

\* A call is discarded.
LEMMA DiscardRun ==
  ASSUME NetInv, NetInv', FirstRun, restarts = 0, NEW c \in Caller, Discard(c),
         UNCHANGED <<nets, made, leases, closed, present, rec, vmFile, guest>>, svc' = svc
  PROVE FirstRun'
<1> SUFFICES ASSUME NEW k, k = call[c] PROVE FirstRun'
  BY Zenon
<1>1. Goes(c, "detach", "discard", k.net, k.gen, k.vm, k.ip) /\ "detach" \in Label
  BY Zenon, TurnGoes DEF Discard, Label, VMOp
<1>2. FreshAt(c, "detach", "discard", k.net, k.gen, k.vm, k.ip)
  BY Zenon, <1>1, MadeGen, FreshNet
<1> QED BY Zenon, <1>1, <1>2, RunPure

\* writeJSON, and what the caller does next.
LEMMA PersistRun ==
  ASSUME NetInv, NetInv', FirstRun, restarts = 0, NEW c \in Caller, Persist(c)
  PROVE FirstRun'
<1> SUFFICES ASSUME NEW k, k = call[c] PROVE FirstRun'
  BY Zenon
<1>1. /\ k.pc = "states" /\ FreshAt(c, k.pc, k.op, k.net, k.gen, k.vm, k.ip)
      /\ ShapedAt(k.pc, k.op, k.net, k.gen, k.vm)
  BY Zenon, MadeGen, AtWork DEF Persist, Fresh
<1>2. UNCHANGED <<nets, made, leases, closed, present, rec, vmFile, guest>> /\ svc' = svc
  BY Zenon DEF Persist, netVars, svcVars
<1>3. CASE Goto(c, "start")
  <2>1. Goes(c, "start", k.op, k.net, k.gen, k.vm, k.ip) /\ "start" \in Label
    BY Zenon, <1>3, GotoGoes DEF Label
  <2>2. FreshAt(c, "start", k.op, k.net, k.gen, k.vm, k.ip)
    BY Zenon, <2>1, MadeGen, FreshNet
  <2> QED BY Zenon, <1>2, <2>1, <2>2, RunPure
<1>4. CASE k.op # "Create" /\ Return(c)
  <2>1. Goes(c, "idle", "none", "none", NoGen, "none", NoAddr) /\ "idle" \in Label
    BY Zenon, <1>4, ReturnGoes DEF Label
  <2>2. FreshAt(c, "idle", "none", "none", NoGen, "none", NoAddr)
    BY Zenon, <2>1, NamesAssumption, FreshNet
  <2>3. k.op \in {"Delete", "discard"} \/ k.vm \notin VM
    BY <1>1, <1>4 DEF ShapedAt, NetOp, VMOp
  <2>4. k.op \in {"Delete", "discard"} => NoLease(k.vm)
    BY Zenon, <1>1 DEF FreshAt
  <2> QED BY Zenon, <1>2, <2>1, <2>2, <2>3, <2>4, NamesAssumption, RunPure
<1> QED BY Zenon, <1>2, <1>3, <1>4, DiscardRun DEF Persist

\* Create: Networks.Get, before anything is allocated.
LEMMA CreateRun ==
  ASSUME NetInv, NetInv', FirstRun, restarts = 0, NEW c \in Caller, NEW v \in VM, NEW n \in Net,
         Create(c, v, n)
  PROVE FirstRun'
<1>1. PICK g \in Gen : g = nets[n]
  BY DEF Create, NetInv, StoreTypes
<1>2. Goes(c, "allocate", "Create", n, g, v, NoAddr)
  BY Zenon, <1>1, CreateGoes DEF Create
<1>3. UNCHANGED <<nets, made, leases, closed, present, rec, vmFile, guest>> /\ svc' = svc
  BY Zenon DEF Create, netVars, vmVars, svcVars
<1>4. /\ rec[v] = NoRecord /\ vmFile[v] = NoRecord /\ guest[v] = NoGuest
      /\ \A d \in Caller : call[d].vm # v
  BY Zenon DEF Create
<1>5. ~present[v] /\ g <= made[n]
  BY Zenon, <1>1, <1>4, MadeGen DEF NetInv, Loading
<1>6. FreshAt(c, "allocate", "Create", n, g, v, NoAddr)
  BY <1>4, <1>5 DEF FreshAt
<1>7. call[c].vm \notin VM
  BY AtWork DEF Create, ShapedAt, VMOp
<1> QED BY Zenon, <1>2, <1>3, <1>4, <1>6, <1>7, RunPure

\* launch takes opMu.
LEMMA LaunchRun ==
  ASSUME NetInv, NetInv', FirstRun, restarts = 0, NEW c \in Caller, Launch(c)
  PROVE FirstRun'
<1> SUFFICES ASSUME NEW k, k = call[c] PROVE FirstRun'
  BY Zenon
<1>1. k.pc = "launch" /\ FreshAt(c, k.pc, k.op, k.net, k.gen, k.vm, k.ip)
  BY Zenon, MadeGen DEF Launch, Fresh
<1>2. Goes(c, "provision", k.op, k.net, k.gen, k.vm, k.ip)
  BY Zenon, GotoGoes DEF Launch, Label
<1>3. FreshAt(c, "provision", k.op, k.net, k.gen, k.vm, k.ip)
  BY <1>1 DEF FreshAt
<1>4. UNCHANGED <<nets, made, leases, closed, present, rec, vmFile, guest>> /\ svc' = svc
  BY Zenon DEF Launch, netVars, svcVars
<1> QED BY Zenon, <1>2, <1>3, <1>4, RunPure

\* Start, under opMu.
LEMMA StartRun ==
  ASSUME NetInv, NetInv', FirstRun, restarts = 0, NEW c \in Caller, NEW v \in VM, Start(c, v)
  PROVE FirstRun'
<1>1. Goes(c, "start", "Start", "none", NoGen, v, NoAddr) /\ "start" \in Label
  BY Zenon, VMCallGoes DEF Start, Label, VMOp
<1>2. FreshAt(c, "start", "Start", "none", NoGen, v, NoAddr)
  BY Zenon, <1>1, NamesAssumption, FreshNet
<1>3. UNCHANGED <<nets, made, leases, closed, present, rec, vmFile, guest>> /\ svc' = svc /\ present[v]
  BY Zenon DEF Start, netVars, svcVars
<1>4. call[c].vm \notin VM
  BY AtWork DEF Start, ShapedAt, VMOp
<1> QED BY Zenon, <1>1, <1>2, <1>3, <1>4, RunPure

\* The same after a step.
LEMMA FreshNetNext ==
  ASSUME NEW c, NEW o, NEW n, NEW g, NEW v, NEW i, n \in Net => g <= made'[n],
         NEW l \in Label,
         l \notin {"allocate", "launch", "provision", "record", "attach", "qemu", "remove", "forget"},
         l \in {"list", "states"} => o \notin {"Delete", "discard"}
  PROVE FreshAt(c, l, o, n, g, v, i)'
BY Zenon DEF FreshAt

\* A record that is saved with its network, by the call that has the VM, by one
\* that leaves it, or by one that takes it.
LEMMA SavedTame ==
  ASSUME NetInv, NEW x \in VM, rec[x] \in Named, NEW r \in Named, r.net = rec[x].net, Save(x, r),
         UNCHANGED <<present, guest>>, NEW u, NEW v,
         (u = x /\ v \in {x, "none"}) \/ (u \notin VM /\ v = x /\ present[x]), NEW w \in VM
  PROVE Tame(u, v, w)
<1>1. /\ rec'[x] = r /\ vmFile'[x] = r /\ r # NoRecord
      /\ w # x => rec'[w] = rec[w] /\ vmFile'[w] = vmFile[w]
  BY Zenon, Saves
<1>2. v \in VM => v = x
  BY Zenon, NamesAssumption
<1>3. u \in VM => u = x
  BY Zenon
<1>4. CASE w = x
  <2>1. w = u \/ (present[w] /\ w # u /\ w = v)
    BY Zenon, <1>4
  <2>2. rec'[w].net = rec[w].net /\ vmFile'[w] # NoRecord
    BY Zenon, <1>1, <1>4
  <2> QED BY Zenon, <2>1, <2>2 DEF Tame
<1>5. CASE w # x
  <2>1. w # u /\ w # v
    BY <1>2, <1>3, <1>5
  <2> QED BY Zenon, <1>1, <1>5, <2>1 DEF Tame
<1> QED BY Zenon, <1>4, <1>5

\* allocate: the entry and its record.
LEMMA AllocateRun ==
  ASSUME NetInv, NetInv', FirstRun, restarts = 0, NEW c \in Caller, Allocate(c)
  PROVE FirstRun'
<1> SUFFICES ASSUME NEW k, k = call[c] PROVE FirstRun'
  BY Zenon
<1>1. k.pc = "allocate" /\ k.vm \in VM /\ k.net \in Net
  BY AtWork DEF Allocate, ShapedAt, VMOp
<1>2. /\ rec[k.vm] = NoRecord /\ vmFile[k.vm] = NoRecord /\ guest[k.vm] = NoGuest /\ ~present[k.vm]
      /\ \A d \in Caller \ {c} : call[d].vm # k.vm
      /\ k.gen <= made[k.net]
  BY Zenon, <1>1, MadeGen DEF Fresh, FreshAt
<1>3. UNCHANGED <<nets, made, leases, closed, guest>> /\ svc' = svc
  BY Zenon DEF Allocate, netVars, svcVars
<1> DEFINE r == [state |-> "creating", net |-> k.net, ip |-> NoAddr]
<1>4. r \in Named /\ r.net = k.net
  BY <1>1 DEF Named
<1> HIDE DEF r
<1>5. Save(k.vm, r) /\ present' = [present EXCEPT ![k.vm] = TRUE] /\ Goto(c, "launch")
  BY Zenon DEF Allocate, r
<1>6. /\ rec'[k.vm] = r /\ vmFile'[k.vm] = r /\ r # NoRecord
      /\ \A w \in VM \ {k.vm} : rec'[w] = rec[w] /\ vmFile'[w] = vmFile[w] /\ present'[w] = present[w]
      /\ present'[k.vm]
  <2>1. /\ rec'[k.vm] = r /\ vmFile'[k.vm] = r /\ r # NoRecord
        /\ \A w \in VM \ {k.vm} : rec'[w] = rec[w] /\ vmFile'[w] = vmFile[w]
    BY Zenon, <1>1, <1>4, <1>5, Saves
  <2>2. present'[k.vm] /\ \A w \in VM \ {k.vm} : present'[w] = present[w]
    BY Zenon, <1>1, <1>5 DEF NetInv, StoreTypes
  <2> QED BY Zenon, <2>1, <2>2
<1>7. Goes(c, "launch", k.op, k.net, k.gen, k.vm, k.ip)
  BY Zenon, <1>5, GotoGoes DEF Label
<1>8. FreshAt(c, "launch", k.op, k.net, k.gen, k.vm, k.ip)'
  BY <1>2, <1>3, <1>4, <1>6 DEF FreshAt
<1>9. ASSUME NEW w \in VM PROVE Tame(k.vm, k.vm, w)
  <2>1. CASE w = k.vm
    BY Zenon, <1>2, <1>3, <1>6, <2>1 DEF Tame
  <2>2. CASE w # k.vm
    BY Zenon, <1>3, <1>6, <2>2 DEF Tame
  <2> QED BY Zenon, <2>1, <2>2
<1> QED BY Zenon, <1>3, <1>7, <1>8, <1>9, RunMoves

\* provision: the address goes into the record.
LEMMA RecordIPRun ==
  ASSUME NetInv, NetInv', FirstRun, restarts = 0, NEW c \in Caller, RecordIP(c)
  PROVE FirstRun'
<1> SUFFICES ASSUME NEW k, k = call[c] PROVE FirstRun'
  BY Zenon
<1>1. /\ k.pc = "record" /\ k.vm \in VM /\ k.op = "Create" /\ k.ip \in Addr \cup {NoAddr}
      /\ rec[k.vm] \in Named
  BY AtWork DEF RecordIP, ShapedAt, NetOp, VMOp, LockedAt, Calls, NetInv, StoreTypes
<1>2. UNCHANGED <<nets, made, leases, closed, present, guest>> /\ svc' = svc
  BY Zenon DEF RecordIP, netVars, svcVars
<1> DEFINE r == [rec[k.vm] EXCEPT !.ip = k.ip]
<1>3. r \in Named /\ r.net = rec[k.vm].net
  BY <1>1 DEF Named
<1>4. Save(k.vm, r)
  BY Zenon DEF RecordIP
<1> HIDE DEF r
<1>5. Goes(c, "list", k.op, k.net, k.gen, k.vm, k.ip) /\ "list" \in Label
  BY Zenon, GotoGoes DEF RecordIP, Label
<1>6. FreshAt(c, "list", k.op, k.net, k.gen, k.vm, k.ip)'
  <2>1. k.net \in Net => k.gen <= made'[k.net]
    BY Zenon, <1>2, MadeGen
  <2>2. k.op \notin {"Delete", "discard"}
    BY <1>1
  <2> QED BY Zenon, <1>5, <2>1, <2>2, FreshNetNext
<1>7. \A w \in VM : Tame(k.vm, k.vm, w)
  BY Zenon, <1>1, <1>2, <1>3, <1>4, SavedTame
<1> QED BY Zenon, <1>2, <1>5, <1>6, <1>7, RunMoves

\* A start that fails: discard or fail.
LEMMA StartFailsRun ==
  ASSUME NetInv, NetInv', FirstRun, restarts = 0, NEW c \in Caller,
         call[c].pc \in {"start", "attach", "qemu"}, StartFails(c),
         UNCHANGED <<nets, made, leases, closed, present, guest>>, svc' = svc
  PROVE FirstRun'
<1> SUFFICES ASSUME NEW k, k = call[c] PROVE FirstRun'
  BY Zenon
<1>1. k.vm \in VM /\ k.op \in {"Create", "Start"} /\ rec[k.vm] \in Named
  BY AtWork DEF ShapedAt, NetOp, VMOp, LockedAt, NetInv, StoreTypes
<1>2. CASE k.op = "Create"
  <2>1. Discard(c) /\ UNCHANGED <<rec, vmFile>>
    BY Zenon, <1>2 DEF StartFails
  <2> QED BY Zenon, <2>1, DiscardRun
<1>3. CASE k.op = "Start"
  <2> DEFINE r == [rec[k.vm] EXCEPT !.state = "failed"]
  <2>1. Save(k.vm, r) /\ Return(c)
    BY <1>3 DEF StartFails
  <2>2. r \in Named /\ r.net = rec[k.vm].net
    BY Zenon, <1>1, NamedState
  <2> HIDE DEF r
  <2>3. Goes(c, "idle", "none", "none", NoGen, "none", NoAddr) /\ "idle" \in Label
    BY Zenon, <2>1, ReturnGoes DEF Label
  <2>4. FreshAt(c, "idle", "none", "none", NoGen, "none", NoAddr)'
    BY Zenon, <2>3, NamesAssumption, FreshNetNext
  <2>5. \A w \in VM : Tame(k.vm, "none", w)
    BY Zenon, <1>1, <2>1, <2>2, SavedTame
  <2> QED BY Zenon, <2>3, <2>4, <2>5, RunMoves
<1> QED BY Zenon, <1>1, <1>2, <1>3

\* startProcess: Networks.Get with the name in the record.
LEMMA StartGetsRun ==
  ASSUME NetInv, NetInv', FirstRun, restarts = 0, NEW c \in Caller, StartGets(c)
  PROVE FirstRun'
<1> SUFFICES ASSUME NEW k, k = call[c] PROVE FirstRun'
  BY Zenon
<1>1. k.pc = "start" /\ k.vm \in VM /\ rec[k.vm] # NoRecord
  BY AtWork DEF StartGets, ShapedAt, NetOp, VMOp, LockedAt
<1>2. UNCHANGED <<nets, made, leases, closed, present, guest>> /\ svc' = svc
  BY Zenon DEF StartGets, netVars, svcVars
<1>3. PICK n \in Net : n = rec[k.vm].net
  BY <1>1 DEF NetInv, StoreTypes, Named
<1>4. CASE nets[n] = NoGen
  BY Zenon, <1>1, <1>2, <1>3, <1>4, StartFailsRun DEF StartGets
<1>5. CASE nets[n] # NoGen
  <2>1. PICK g \in Gen : g = nets[n]
    BY <1>5 DEF NetInv, StoreTypes
  <2>2. call' = [call EXCEPT ![c].pc = "attach", ![c].net = n, ![c].gen = g] /\ UNCHANGED <<rec, vmFile>>
    BY Zenon, <1>3, <1>5, <2>1 DEF StartGets
  <2>3. Goes(c, "attach", k.op, n, g, k.vm, k.ip)
    BY Zenon, <2>2, GetGoes
  <2>4. g <= made[n]
    BY Zenon, <2>1, MadeGen
  <2>5. FreshAt(c, "attach", k.op, n, g, k.vm, k.ip)
    BY <1>3, <2>4 DEF FreshAt
  <2> QED BY Zenon, <1>2, <2>2, <2>3, <2>5, RunPure
<1> QED BY Zenon, <1>4, <1>5

\* A lease that is taken under opMu, in the network of the record.
LEMMA TakenLeasing ==
  ASSUME NetInv, FirstRun, restarts = 0, NEW c \in Caller, NEW n \in Net, NEW g \in Gen,
         NEW v \in VM, NEW i, Takes(n, g, v, i), opMu[v] = c, rec'[v].net = n, g <= made[n],
         UNCHANGED <<nets, made, closed>>
  PROVE Leasing(c, v) /\ \A m \in Net : Numbered(m)'
<1>1. \A m \in Net : made[m] <= made'[m]
  BY BoundsAssumption DEF NetInv, StoreTypes
<1>2. \A w \in VM : opMu[w] = c \/ \A m \in Net, h \in Gen : leases'[m][h][w] = leases[m][h][w]
  BY Zenon DEF Takes
<1>3. ASSUME NEW m \in Net, NEW h \in Gen, NEW w \in VM, leases'[m][h][w] # NoAddr
      PROVE leases[m][h][w] # NoAddr \/ (w = v /\ rec'[w].net = m)
  <2>1. ~(m = n /\ h = g /\ w = v) => leases'[m][h][w] = leases[m][h][w]
    BY Zenon DEF Takes
  <2> QED BY Zenon, <1>3, <2>1
<1>4. ASSUME NEW m \in Net, NEW h \in Gen, NEW w \in VM
      PROVE leases[m][h][w] \in {NoAddr, leases'[m][h][w]}
  <2>1. CASE m = n /\ h = g /\ w = v
    <3>1. leases[n][g][v] \in {NoAddr, i} /\ leases'[n][g][v] = i
      BY Zenon DEF Takes
    <3> QED BY Zenon, <2>1, <3>1
  <2>2. CASE ~(m = n /\ h = g /\ w = v)
    BY Zenon, <2>2 DEF Takes
  <2> QED BY Zenon, <2>1, <2>2
<1>5. Leasing(c, v)
  BY Zenon, <1>1, <1>2, <1>3, <1>4 DEF Leasing
<1>6. ASSUME NEW m \in Net PROVE Numbered(m)'
  <2>1. Numbered(m)
    BY Zenon DEF FirstRun
  <2>2. ASSUME NEW h \in Gen, h > made[m] PROVE leases'[m][h] = NoLeases
    <3>1. ~(m = n /\ h = g)
      <4>1. made[n] \in Nat /\ g \in Nat /\ h \in Nat
        BY BoundsAssumption DEF NetInv, StoreTypes, Gen
      <4> QED BY <2>2, <4>1
    <3>2. leases[m][h] = NoLeases /\ leases'[m][h] \in Leases
      <4>1. leases' \in [Net -> [Gen -> Leases]]
        BY Zenon DEF Takes
      <4> QED BY Zenon, <2>1, <2>2, <4>1 DEF Numbered
    <3>3. \A w \in VM : leases'[m][h][w] = leases[m][h][w]
      BY Zenon, <3>1 DEF Takes
    <3>4. leases'[m][h] = [w \in VM |-> leases'[m][h][w]]
      BY Zenon, <3>2 DEF Leases
    <3> QED BY Zenon, <3>2, <3>3, <3>4 DEF NoLeases
  <2> QED BY Zenon, <2>1, <2>2 DEF Numbered
<1> QED BY Zenon, <1>5, <1>6

\* A VM that nothing has happened to.
LEMMA SameTame ==
  ASSUME UNCHANGED <<present, rec, vmFile, guest>>, NEW u, NEW w \in VM
  PROVE Tame(u, u, w)
BY Zenon DEF Tame

\* provision: a lease on the network Create looked up, or discard.
LEMMA ProvisionRun ==
  ASSUME NetInv, NetInv', FirstRun, restarts = 0, NEW c \in Caller, Provision(c)
  PROVE FirstRun'
<1> SUFFICES ASSUME NEW k, k = call[c] PROVE FirstRun'
  BY Zenon
<1>1. /\ k.pc = "provision" /\ k.vm \in VM /\ k.net \in Net /\ k.gen \in Gen /\ k.op = "Create"
      /\ opMu[k.vm] = c
  BY AtWork DEF Provision, ShapedAt, NetOp, VMOp, LockedAt
<1>2. UNCHANGED <<nets, made, closed, present, rec, vmFile, guest>> /\ svc' = svc
  BY Zenon DEF Provision, vmVars, svcVars
<1>3. k.gen <= made[k.net] /\ k.net = rec[k.vm].net /\ svc = "serving"
  BY Zenon, <1>1, MadeGen DEF Fresh, FreshAt, FirstRun
<1>4. CASE Discard(c) /\ leases' = leases
  BY Zenon, <1>2, <1>4, DiscardRun
<1>5. CASE /\ Attached(k.net, k.gen, k.vm) # NoAddr /\ Attach(k.net, k.gen, k.vm)
           /\ call' = [call EXCEPT ![c].pc = "record", ![c].ip = Attached(k.net, k.gen, k.vm)]
  <2>1. PICK i : i = Attached(k.net, k.gen, k.vm)
    OBVIOUS
  <2>2. leases' = [leases EXCEPT ![k.net][k.gen][k.vm] = i] /\ i # NoAddr
    BY Zenon, <1>5, <2>1 DEF Attach
  <2>3. Takes(k.net, k.gen, k.vm, i)
    BY Zenon, <1>1, <2>1, <2>2, Attaches
  <2>4. i \in Addr /\ "record" \in Label
    BY Zenon, <2>3 DEF Takes, Label
  <2>5. Goes(c, "record", k.op, k.net, k.gen, k.vm, i)
    BY Zenon, <1>5, <2>1, <2>4, LeaseGoes
  <2>6. FreshAt(c, "record", k.op, k.net, k.gen, k.vm, i)'
    BY <1>2, <1>3 DEF FreshAt
  <2>7. Leasing(c, k.vm) /\ \A m \in Net : Numbered(m)'
    BY Zenon, <1>1, <1>2, <1>3, <2>3, TakenLeasing
  <2>8. \A w \in VM : Tame(k.vm, k.vm, w)
    BY Zenon, <1>2, SameTame
  <2> QED BY Zenon, <1>2, <1>3, <2>5, <2>6, <2>7, <2>8, RunStep
<1> QED BY Zenon, <1>4, <1>5 DEF Provision

\* startProcess: Attach.
LEMMA StartAttachesRun ==
  ASSUME NetInv, NetInv', FirstRun, restarts = 0, NEW c \in Caller, StartAttaches(c)
  PROVE FirstRun'
<1> SUFFICES ASSUME NEW k, k = call[c] PROVE FirstRun'
  BY Zenon
<1>1. k.pc = "attach" /\ k.vm \in VM /\ k.net \in Net /\ k.gen \in Gen /\ opMu[k.vm] = c
  BY AtWork DEF StartAttaches, ShapedAt, NetOp, VMOp, LockedAt
<1>2. UNCHANGED <<nets, made, closed, present, guest>> /\ svc' = svc
  BY Zenon DEF StartAttaches, svcVars
<1>3. k.gen <= made[k.net] /\ k.net = rec[k.vm].net /\ svc = "serving"
  BY Zenon, <1>1, MadeGen DEF Fresh, FreshAt, FirstRun
<1>4. PICK i : i = Attached(k.net, k.gen, k.vm)
  OBVIOUS
<1>5. CASE i = NoAddr
  <2>1. StartFails(c) /\ leases' = leases
    BY Zenon, <1>4, <1>5 DEF StartAttaches
  <2> QED BY Zenon, <1>1, <1>2, <2>1, StartFailsRun
<1>6. CASE i # NoAddr
  <2>1. /\ leases' = [leases EXCEPT ![k.net][k.gen][k.vm] = i]
        /\ call' = [call EXCEPT ![c].pc = "qemu", ![c].ip = i] /\ UNCHANGED <<rec, vmFile>>
    BY Zenon, <1>4, <1>6 DEF StartAttaches, Attach
  <2>2. Takes(k.net, k.gen, k.vm, i)
    BY Zenon, <1>1, <1>4, <1>6, <2>1, Attaches
  <2>3. i \in Addr /\ "qemu" \in Label /\ leases'[k.net][k.gen][k.vm] = i
    BY Zenon, <2>2 DEF Takes, Label
  <2>4. Goes(c, "qemu", k.op, k.net, k.gen, k.vm, i)
    BY Zenon, <2>1, <2>3, LeaseGoes
  <2>5. FreshAt(c, "qemu", k.op, k.net, k.gen, k.vm, i)'
    BY <1>2, <1>3, <1>6, <2>1, <2>3 DEF FreshAt
  <2>6. Leasing(c, k.vm) /\ \A m \in Net : Numbered(m)'
    BY Zenon, <1>1, <1>2, <1>3, <2>1, <2>2, TakenLeasing
  <2>7. \A w \in VM : Tame(k.vm, k.vm, w)
    BY Zenon, <1>2, <2>1, SameTame
  <2> QED BY Zenon, <1>2, <1>3, <2>4, <2>5, <2>6, <2>7, RunStep
<1> QED BY Zenon, <1>5, <1>6

\* startProcess: QEMU and the commit, or a failed start.
LEMMA StartQEMURun ==
  ASSUME NetInv, NetInv', FirstRun, restarts = 0, NEW c \in Caller, StartQEMU(c)
  PROVE FirstRun'
<1> SUFFICES ASSUME NEW k, k = call[c] PROVE FirstRun'
  BY Zenon
<1>1. /\ k.pc = "qemu" /\ k.vm \in VM /\ k.net \in Net /\ k.gen \in Gen /\ rec[k.vm] \in Named
  BY AtWork DEF StartQEMU, ShapedAt, NetOp, VMOp, LockedAt, NetInv, StoreTypes
<1>2. UNCHANGED <<nets, made, leases, closed, present>> /\ svc' = svc
  BY Zenon DEF StartQEMU, netVars, svcVars
<1>3. k.ip # NoAddr /\ leases[k.net][k.gen][k.vm] = k.ip
  BY Zenon, <1>1, MadeGen DEF Fresh, FreshAt
<1>4. CASE StartFails(c) /\ UNCHANGED guest
  BY Zenon, <1>1, <1>2, <1>4, StartFailsRun
<1> DEFINE r == [rec[k.vm] EXCEPT !.state = "live"]
           q == [net |-> k.net, ip |-> k.ip]
<1>5. CASE guest' = [guest EXCEPT ![k.vm] = q] /\ Save(k.vm, r) /\ Return(c)
  <2>1. r \in Named /\ r.net = rec[k.vm].net /\ q.net = k.net /\ q.ip = k.ip
    BY Zenon, <1>1, NamedState
  <2> HIDE DEF r, q
  <2>2. /\ rec'[k.vm] = r /\ vmFile'[k.vm] = r /\ r # NoRecord
        /\ \A w \in VM \ {k.vm} : rec'[w] = rec[w] /\ vmFile'[w] = vmFile[w]
    BY Zenon, <1>1, <1>5, <2>1, Saves
  <2>3. guest'[k.vm] = q /\ \A w \in VM \ {k.vm} : guest'[w] = guest[w]
    BY Zenon, <1>1, <1>5 DEF NetInv, StoreTypes
  <2>4. Goes(c, "idle", "none", "none", NoGen, "none", NoAddr) /\ "idle" \in Label
    BY Zenon, <1>5, ReturnGoes DEF Label
  <2>5. FreshAt(c, "idle", "none", "none", NoGen, "none", NoAddr)'
    BY Zenon, <2>4, NamesAssumption, FreshNetNext
  <2>6. ASSUME NEW w \in VM PROVE Tame(k.vm, "none", w)
    <3>1. CASE w = k.vm
      <4>1. rec'[w].net = rec[w].net /\ vmFile'[w] # NoRecord /\ w # "none"
        BY Zenon, <2>1, <2>2, <3>1, NamesAssumption
      <4>2. guest'[w].ip # NoAddr /\ \E h \in Gen : leases'[guest'[w].net][h][w] = guest'[w].ip
        <5>1. guest'[w].ip = k.ip /\ guest'[w].net = k.net
          BY Zenon, <2>1, <2>3, <3>1
        <5>2. leases'[k.net][k.gen][w] = k.ip
          BY Zenon, <1>2, <1>3, <3>1
        <5> QED BY Zenon, <1>1, <1>3, <5>1, <5>2
      <4> QED BY Zenon, <1>2, <3>1, <4>1, <4>2 DEF Tame
    <3>2. CASE w # k.vm
      <4>1. w # "none" /\ guest'[w] = guest[w] /\ rec'[w] = rec[w] /\ vmFile'[w] = vmFile[w]
        BY Zenon, <2>2, <2>3, <3>2, NamesAssumption
      <4> QED BY Zenon, <1>2, <3>2, <4>1 DEF Tame
    <3> QED BY Zenon, <3>1, <3>2
  <2> QED BY Zenon, <1>2, <2>4, <2>5, <2>6, RunMoves
<1> QED BY Zenon, <1>4, <1>5 DEF StartQEMU

\* onExit.
LEMMA ProcessExitsRun ==
  ASSUME NetInv, NetInv', FirstRun, restarts = 0, NEW v \in VM, ProcessExits(v)
  PROVE FirstRun'
<1>1. UNCHANGED <<nets, made, leases, closed, present, call>> /\ svc' = svc /\ svc = "serving"
  BY Zenon DEF ProcessExits, netVars, svcVars
<1>2. rec[v] \in Named
  BY DEF ProcessExits, NetInv, StoreTypes, NoRecord
<1>3. PICK s \in {"stopped", "deleting"} : Save(v, [rec[v] EXCEPT !.state = s])
  BY DEF ProcessExits
<1>4. PICK r \in Named : r = [rec[v] EXCEPT !.state = s] /\ r.net = rec[v].net
  BY Zenon, <1>2, NamedState
<1>5. /\ rec'[v] = r /\ vmFile'[v] = r /\ r # NoRecord
      /\ \A w \in VM \ {v} : rec'[w] = rec[w] /\ vmFile'[w] = vmFile[w]
  BY Zenon, <1>3, <1>4, Saves
<1>6. /\ guest'[v] = NoGuest /\ guest[v] # NoGuest
      /\ \A w \in VM \ {v} : guest'[w] = guest[w]
  BY Zenon DEF ProcessExits, NetInv, StoreTypes
<1>7. ASSUME NEW w \in VM PROVE Tame("none", "none", w)
  <2>1. w # "none"
    BY Zenon, NamesAssumption
  <2>2. CASE w = v
    BY Zenon, <1>1, <1>4, <1>5, <1>6, <2>1, <2>2 DEF Tame
  <2>3. CASE w # v
    BY Zenon, <1>1, <1>5, <1>6, <2>1, <2>3 DEF Tame
  <2> QED BY Zenon, <2>2, <2>3
<1>8. \A m \in Net : made[m] <= made'[m]
  BY <1>1, BoundsAssumption DEF NetInv, StoreTypes
<1>9. Leasing(Free, "none") /\ \A m \in Net : Numbered(m)'
  BY Zenon, <1>1, <1>8 DEF Leasing, FirstRun, Numbered
<1>10. Moves(Free, "none", "none")
  BY Zenon, <1>1, FreeAssumption, NamesAssumption DEF Moves
<1> QED BY Zenon, <1>1, <1>7, <1>9, <1>10, AnyStep

\* Delete, under opMu.
LEMMA DeleteRun ==
  ASSUME NetInv, NetInv', FirstRun, restarts = 0, NEW c \in Caller, NEW v \in VM, Delete(c, v)
  PROVE FirstRun'
<1>1. /\ UNCHANGED <<nets, made, leases, closed, present, guest>> /\ svc' = svc /\ present[v]
      /\ Save(v, [rec[v] EXCEPT !.state = "deleting"])
  BY Zenon DEF Delete, netVars, svcVars
<1>2. rec[v] \in Named
  BY Zenon, <1>1 DEF NetInv, StoreTypes, Loading
<1>3. PICK r \in Named : r = [rec[v] EXCEPT !.state = "deleting"] /\ r.net = rec[v].net
  BY Zenon, <1>2, NamedState
<1>4. call[c].vm \notin VM
  BY AtWork DEF Delete, ShapedAt, VMOp
<1>5. Save(v, r)
  BY Zenon, <1>1, <1>3
<1>6. \A w \in VM : Tame(call[c].vm, v, w)
  BY Zenon, <1>1, <1>2, <1>3, <1>4, <1>5, SavedTame
<1>7. Goes(c, "detach", "Delete", "none", NoGen, v, NoAddr) /\ "detach" \in Label
  BY Zenon, VMCallGoes DEF Delete, Label, VMOp
<1>8. FreshAt(c, "detach", "Delete", "none", NoGen, v, NoAddr)'
  BY Zenon, <1>7, NamesAssumption, FreshNetNext
<1> QED BY Zenon, <1>1, <1>6, <1>7, <1>8, RunMoves

\* teardown: the directory, and the entry.
LEMMA RemoveRun ==
  ASSUME NetInv, NetInv', FirstRun, restarts = 0, NEW c \in Caller, RemoveDir(c) \/ Forget(c)
  PROVE FirstRun'
<1> SUFFICES ASSUME NEW k, k = call[c] PROVE FirstRun'
  BY Zenon
<1>1. k.pc \in {"remove", "forget"} /\ k.vm \in VM
  BY AtWork DEF RemoveDir, Forget, ShapedAt, VMOp
<1>2. UNCHANGED <<nets, made, leases, closed, rec, guest>> /\ svc' = svc
  BY Zenon DEF RemoveDir, Forget, netVars, svcVars
<1>3. NoLease(k.vm) /\ (k.net \in Net => k.gen <= made[k.net])
  BY Zenon, <1>1, MadeGen DEF Fresh, FreshAt
<1>4. PICK l \in {"forget", "list"} : Goto(c, l)
  BY Zenon DEF RemoveDir, Forget
<1>5. Goes(c, l, k.op, k.net, k.gen, k.vm, k.ip)
  BY Zenon, <1>4, GotoGoes DEF Label
<1>6. FreshAt(c, l, k.op, k.net, k.gen, k.vm, k.ip)'
  <2>1. NoLease(k.vm)'
    BY Zenon, <1>2, <1>3 DEF NoLease
  <2> QED BY <1>2, <1>3, <2>1 DEF FreshAt
<1>7. /\ \A w \in VM \ {k.vm} : present'[w] = present[w] /\ vmFile'[w] = vmFile[w]
      /\ present'[k.vm] => present[k.vm]
  BY Zenon, <1>1 DEF RemoveDir, Forget, NetInv, StoreTypes
<1>8. ASSUME NEW w \in VM PROVE Tame(k.vm, k.vm, w)
  <2>1. CASE w = k.vm
    BY Zenon, <1>2, <1>7, <2>1 DEF Tame
  <2>2. CASE w # k.vm
    BY Zenon, <1>2, <1>7, <2>2 DEF Tame
  <2> QED BY Zenon, <2>1, <2>2
<1> QED BY Zenon, <1>2, <1>5, <1>6, <1>8, RunMoves

\* teardown: Networks.Get and Network.Detach.
LEMMA DetachRun ==
  ASSUME NetInv, NetInv', FirstRun, restarts = 0, NEW c \in Caller, Detach(c)
  PROVE FirstRun'
<1> SUFFICES ASSUME NEW k, k = call[c] PROVE FirstRun'
  BY Zenon
<1>1. /\ k.pc = "detach" /\ k.vm \in VM /\ opMu[k.vm] = c /\ rec[k.vm] \in Named
  BY AtWork DEF Detach, ShapedAt, NetOp, VMOp, LockedAt, NetInv, StoreTypes
<1>2. /\ UNCHANGED <<nets, made, closed, present, rec, vmFile, guest>> /\ svc' = svc
      /\ guest[k.vm] = NoGuest
  BY Zenon DEF Detach, vmVars, svcVars, ExitAwaited
<1>3. PICK n \in Net : n = rec[k.vm].net
  BY Zenon, <1>1 DEF Named
<1>4. /\ leases' \in [Net -> [Gen -> Leases]] /\ leases \in [Net -> [Gen -> Leases]]
      /\ nets[n] # NoGen => leases'[n][nets[n]][k.vm] = NoAddr
      /\ \A m \in Net, h \in Gen, w \in VM :
           leases'[m][h][w] = leases[m][h][w] \/ (w = k.vm /\ leases'[m][h][w] = NoAddr)
  <2>1. CASE nets[n] = NoGen
    <3>1. leases' = leases
      BY Zenon, <1>3, <2>1 DEF Detach, Detached
    <3> QED BY Zenon, <2>1, <3>1 DEF NetInv, StoreTypes
  <2>2. CASE nets[n] # NoGen
    <3>1. PICK g \in Gen : g = nets[n]
      BY <2>2 DEF NetInv, StoreTypes
    <3>2. leases' = [leases EXCEPT ![n][g][k.vm] = NoAddr]
      BY Zenon, <1>3, <2>2, <3>1 DEF Detach, Detached
    <3>3. Drops(n, g, k.vm)
      BY Zenon, <1>1, <3>2, Detaches
    <3>4. \A m \in Net, h \in Gen, w \in VM :
            leases'[m][h][w] = leases[m][h][w] \/ (w = k.vm /\ leases'[m][h][w] = NoAddr)
      <4> SUFFICES ASSUME NEW m \in Net, NEW h \in Gen, NEW w \in VM, leases'[m][h][w] # leases[m][h][w]
                   PROVE w = k.vm /\ leases'[m][h][w] = NoAddr
        BY Zenon
      <4>1. m = n /\ h = g /\ w = k.vm
        BY Zenon, <3>3 DEF Drops
      <4>2. leases'[n][g][k.vm] = NoAddr
        BY Zenon, <3>3 DEF Drops
      <4> QED BY Zenon, <4>1, <4>2
    <3>5. leases' \in [Net -> [Gen -> Leases]] /\ leases'[n][g][k.vm] = NoAddr
      BY Zenon, <3>3 DEF Drops
    <3> QED BY Zenon, <3>1, <3>4, <3>5 DEF NetInv, StoreTypes
  <2> QED BY Zenon, <2>1, <2>2
<1>5. Leasing(c, k.vm)
  <2>1. \A m \in Net : made[m] <= made'[m]
    BY <1>2, BoundsAssumption DEF NetInv, StoreTypes
  <2>2. \A w \in VM : opMu[w] = c \/ \A m \in Net, h \in Gen : leases'[m][h][w] = leases[m][h][w]
    BY Zenon, <1>1, <1>4
  <2>3. \A w \in VM : guest[w] # NoGuest =>
          \A m \in Net, h \in Gen : leases[m][h][w] \in {NoAddr, leases'[m][h][w]}
    BY Zenon, <1>2, <1>4
  <2>4. \A m \in Net, h \in Gen, w \in VM : leases'[m][h][w] # NoAddr => leases[m][h][w] # NoAddr
    BY Zenon, <1>4
  <2>5. \A m \in Net : nets'[m] # NoGen => nets'[m] = nets[m] \/ leases'[m][nets'[m]] = NoLeases
    BY Zenon, <1>2
  <2>6. \A m \in Net, h \in Gen, w \in VM :
          leases'[m][h][w] # NoAddr => leases[m][h][w] # NoAddr \/ (w = k.vm /\ rec'[w].net = m)
    BY Zenon, <2>4
  <2> QED BY Zenon, <2>1, <2>2, <2>3, <2>5, <2>6 DEF Leasing
<1>6. ASSUME NEW m \in Net PROVE Numbered(m)'
  <2>1. Numbered(m)
    BY Zenon DEF FirstRun
  <2>2. ASSUME NEW h \in Gen, h > made[m] PROVE leases'[m][h] = NoLeases
    <3>1. leases[m][h] = NoLeases /\ leases'[m][h] \in Leases
      <4>1. leases' \in [Net -> [Gen -> Leases]]
        BY Zenon, <1>4
      <4> QED BY Zenon, <2>1, <2>2, <4>1 DEF Numbered
    <3>2. ASSUME NEW w \in VM PROVE leases'[m][h][w] = NoAddr
      <4>1. leases[m][h][w] = NoAddr
        BY Zenon, <3>1 DEF NoLeases
      <4> QED BY Zenon, <1>4, <4>1
    <3>3. leases'[m][h] = [w \in VM |-> leases'[m][h][w]]
      BY Zenon, <3>1 DEF Leases
    <3> QED BY Zenon, <3>2, <3>3 DEF NoLeases
  <2> QED BY Zenon, <1>2, <2>1, <2>2 DEF Numbered
<1>7. ASSUME NEW m \in Net, nets[m] # NoGen PROVE leases'[m][nets[m]][k.vm] = NoAddr
  <2>1. PICK h \in Gen : h = nets[m]
    BY <1>7 DEF NetInv, StoreTypes
  <2>2. CASE m = n
    BY Zenon, <1>4, <1>7, <2>2
  <2>3. CASE m # n
    <3>1. Attachment(k.vm)
      BY Zenon, <1>1 DEF FirstRun
    <3>2. leases[m][h][k.vm] = NoAddr
      BY Zenon, <1>3, <2>3, <3>1 DEF Attachment
    <3> QED BY Zenon, <1>1, <1>4, <2>1, <3>2
  <2> QED BY Zenon, <2>2, <2>3
<1>8. Goes(c, "remove", k.op, k.net, k.gen, k.vm, k.ip)
  BY Zenon, GotoGoes DEF Detach, Label
<1>9. FreshAt(c, "remove", k.op, k.net, k.gen, k.vm, k.ip)'
  <2>1. NoLease(k.vm)'
    BY Zenon, <1>2, <1>7 DEF NoLease
  <2>2. k.net \in Net => k.gen <= made'[k.net]
    BY Zenon, <1>2, MadeGen
  <2> QED BY <2>1, <2>2 DEF FreshAt
<1>10. (\A w \in VM : Tame(k.vm, k.vm, w)) /\ svc' = "serving"
  BY Zenon, <1>2, SameTame DEF FirstRun
<1> QED BY Zenon, <1>5, <1>6, <1>8, <1>9, <1>10, RunStep

\* Manager.Create makes the next generation of the name.
LEMMA CreateNetworkRun ==
  ASSUME NetInv, NetInv', FirstRun, restarts = 0, NEW c \in Caller, NEW n \in Net, CreateNetwork(c, n)
  PROVE FirstRun'
<1>1. /\ UNCHANGED <<leases, closed, present, rec, vmFile, guest>> /\ svc' = svc /\ svc = "serving"
      /\ nets[n] = NoGen /\ made[n] < MaxGen
      /\ made' = [made EXCEPT ![n] = made[n] + 1] /\ nets' = [nets EXCEPT ![n] = made[n] + 1]
  BY DEF CreateNetwork, vmVars, svcVars
<1>2. /\ nets \in [Net -> Gen \cup {NoGen}] /\ made \in [Net -> 0..MaxGen]
      /\ made[n] \in Nat /\ made[n] + 1 \in Gen
  <2>1. nets \in [Net -> Gen \cup {NoGen}] /\ made \in [Net -> 0..MaxGen]
    BY Zenon DEF NetInv, StoreTypes
  <2>2. made[n] \in 0..MaxGen /\ made[n] < MaxGen
    BY Zenon, <1>1, <2>1
  <2>3. made[n] \in Nat /\ made[n] + 1 \in Gen
    BY <2>2, BoundsAssumption DEF Gen
  <2> QED BY Zenon, <2>1, <2>3
<1>3. PICK g \in Gen : g = made[n] + 1
  BY Zenon, <1>2
<1>4. /\ made'[n] = g /\ nets'[n] = g
      /\ \A m \in Net \ {n} : made'[m] = made[m] /\ nets'[m] = nets[m]
  BY Zenon, <1>1, <1>2, <1>3
<1>5. \A m \in Net : Numbered(m)
  BY Zenon DEF FirstRun
<1>6. leases'[n][g] = NoLeases
  <2>1. g > made[n]
    BY <1>2, <1>3
  <2> QED BY Zenon, <1>1, <1>5, <2>1 DEF Numbered
<1>7. ASSUME NEW m \in Net PROVE Numbered(m)'
  <2>1. CASE m = n
    <3>1. nets'[n] <= made'[n]
      BY <1>2, <1>3, <1>4
    <3>2. ASSUME NEW h \in Gen, h > made'[n] PROVE leases'[n][h] = NoLeases
      <4>1. h > made[n]
        BY <1>2, <1>3, <1>4, <3>2, BoundsAssumption DEF Gen
      <4> QED BY Zenon, <1>1, <1>5, <4>1 DEF Numbered
    <3>3. ASSUME NEW h \in Gen, h <= made'[n], h # nets'[n] PROVE closed'[n][h]
      <4>1. h <= made[n] /\ h # nets[n]
        BY <1>1, <1>2, <1>3, <1>4, <3>3, BoundsAssumption DEF Gen, NoGen
      <4> QED BY Zenon, <1>1, <1>5, <4>1 DEF Numbered
    <3> QED BY Zenon, <2>1, <3>1, <3>2, <3>3 DEF Numbered
  <2>2. CASE m # n
    BY Zenon, <1>1, <1>4, <1>5, <2>2 DEF Numbered
  <2> QED BY Zenon, <2>1, <2>2
<1>8. Goes(c, "serve", "CreateNetwork", n, NoGen, "none", NoAddr) /\ "serve" \in Label
  BY Zenon, NetCallGoes DEF CreateNetwork, Label, NetOp
<1>9. FreshAt(c, "serve", "CreateNetwork", n, NoGen, "none", NoAddr)'
  <2>1. NoGen <= made'[n]
    BY <1>2, <1>3, <1>4 DEF NoGen
  <2> QED BY Zenon, <1>8, <2>1, FreshNetNext
<1>10. Leasing(c, "none")
  <2>1. \A m \in Net : made[m] <= made'[m]
    BY <1>2, <1>3, <1>4, BoundsAssumption
  <2>2. \A m \in Net : nets'[m] # NoGen => nets'[m] = nets[m] \/ leases'[m][nets'[m]] = NoLeases
    BY Zenon, <1>4, <1>6
  <2> QED BY Zenon, <1>1, <2>1, <2>2 DEF Leasing
<1>11. call[c].vm \notin VM
  BY AtWork DEF CreateNetwork, ShapedAt, VMOp
<1>12. ASSUME NEW w \in VM PROVE Tame(call[c].vm, "none", w)
  BY Zenon, <1>1, <1>11, NamesAssumption DEF Tame
<1> QED BY Zenon, <1>1, <1>7, <1>8, <1>9, <1>10, <1>12, RunStep

\* Manager.Delete: Network.Close and the end of the name.
LEMMA CloseNetworkRun ==
  ASSUME NetInv, NetInv', FirstRun, restarts = 0, NEW c \in Caller, CloseNetwork(c)
  PROVE FirstRun'
<1> SUFFICES ASSUME NEW k, k = call[c] PROVE FirstRun'
  BY Zenon
<1>1. /\ k.pc = "close" /\ k.net \in Net /\ k.gen \in Gen /\ k.vm \notin VM /\ nets[k.net] = k.gen
  BY AtWork DEF CloseNetwork, ShapedAt, NetOp, VMOp, LockedAt
<1>2. /\ UNCHANGED <<made, leases, present, rec, vmFile, guest>> /\ svc' = svc /\ svc = "serving"
      /\ closed' = [closed EXCEPT ![k.net][k.gen] = TRUE] /\ nets' = [nets EXCEPT ![k.net] = NoGen]
  BY Zenon DEF CloseNetwork, vmVars, svcVars, FirstRun
<1>3. /\ nets'[k.net] = NoGen /\ \A m \in Net \ {k.net} : nets'[m] = nets[m]
      /\ closed'[k.net][k.gen]
      /\ \A m \in Net, h \in Gen : closed[m][h] => closed'[m][h]
  <2>1. /\ nets \in [Net -> Gen \cup {NoGen}] /\ closed \in [Net -> [Gen -> BOOLEAN]]
        /\ closed[k.net] \in [Gen -> BOOLEAN]
    BY Zenon, <1>1 DEF NetInv, StoreTypes
  <2>2. closed'[k.net] = [closed[k.net] EXCEPT ![k.gen] = TRUE] /\ \A m \in Net \ {k.net} : closed'[m] = closed[m]
    BY Zenon, <1>1, <1>2, <2>1
  <2>3. closed'[k.net][k.gen] /\ \A h \in Gen \ {k.gen} : closed'[k.net][h] = closed[k.net][h]
    BY Zenon, <1>1, <2>1, <2>2
  <2>4. nets'[k.net] = NoGen /\ \A m \in Net \ {k.net} : nets'[m] = nets[m]
    BY Zenon, <1>1, <1>2, <2>1
  <2>5. ASSUME NEW m \in Net, NEW h \in Gen, closed[m][h] PROVE closed'[m][h]
    <3>1. CASE m = k.net /\ h = k.gen
      BY Zenon, <2>3, <3>1
    <3>2. CASE m = k.net /\ h # k.gen
      BY Zenon, <2>3, <2>5, <3>2
    <3>3. CASE m # k.net
      BY Zenon, <2>2, <2>5, <3>3
    <3> QED BY Zenon, <3>1, <3>2, <3>3
  <2> QED BY Zenon, <2>3, <2>4, <2>5
<1>4. \A m \in Net : made[m] \in Nat
  BY BoundsAssumption DEF NetInv, StoreTypes
<1>5. ASSUME NEW m \in Net PROVE Numbered(m)'
  <2>1. Numbered(m)
    BY Zenon DEF FirstRun
  <2>2. CASE m = k.net
    <3>1. nets'[m] <= made'[m]
      BY <1>2, <1>3, <1>4, <2>2 DEF NoGen
    <3>2. \A h \in Gen : h > made'[m] => leases'[m][h] = NoLeases
      BY Zenon, <1>2, <2>1 DEF Numbered
    <3>3. ASSUME NEW h \in Gen, h <= made'[m] PROVE closed'[m][h]
      <4>1. CASE h = nets[m]
        BY Zenon, <1>1, <1>3, <2>2, <4>1
      <4>2. CASE h # nets[m]
        BY Zenon, <1>2, <1>3, <2>1, <3>3, <4>2 DEF Numbered
      <4> QED BY Zenon, <4>1, <4>2
    <3> QED BY Zenon, <3>1, <3>2, <3>3 DEF Numbered
  <2>3. CASE m # k.net
    BY Zenon, <1>2, <1>3, <2>1, <2>3 DEF Numbered
  <2> QED BY Zenon, <2>2, <2>3
<1>6. ASSUME NEW v PROVE Leasing(c, v)
  <2>1. \A m \in Net : made[m] <= made'[m]
    BY <1>2, <1>4
  <2>2. \A m \in Net : nets'[m] # NoGen => nets'[m] = nets[m]
    BY Zenon, <1>3
  <2> QED BY Zenon, <1>2, <2>1, <2>2 DEF Leasing
<1>7. ASSUME NEW v, v \notin VM, NEW w \in VM PROVE Tame(k.vm, v, w)
  BY Zenon, <1>1, <1>2, <1>7 DEF Tame
<1>8. CASE Return(c)
  <2>1. Goes(c, "idle", "none", "none", NoGen, "none", NoAddr) /\ "idle" \in Label
    BY Zenon, <1>8, ReturnGoes DEF Label
  <2>2. FreshAt(c, "idle", "none", "none", NoGen, "none", NoAddr)'
    BY Zenon, <2>1, NamesAssumption, FreshNetNext
  <2> QED BY Zenon, <1>2, <1>5, <1>6, <1>7, <2>1, <2>2, NamesAssumption, RunStep
<1>9. CASE Goto(c, "unserve")
  <2>1. Goes(c, "unserve", k.op, k.net, k.gen, k.vm, k.ip) /\ "unserve" \in Label
    BY Zenon, <1>9, GotoGoes DEF Label
  <2>2. k.net \in Net => k.gen <= made'[k.net]
    BY Zenon, <1>2, MadeGen
  <2>3. FreshAt(c, "unserve", k.op, k.net, k.gen, k.vm, k.ip)'
    BY Zenon, <2>1, <2>2, FreshNetNext
  <2> QED BY Zenon, <1>1, <1>2, <1>5, <1>6, <1>7, <2>1, <2>3, RunStep
<1> QED BY Zenon, <1>8, <1>9 DEF CloseNetwork

\* The first start.
LEMMA RunInit == ASSUME Init PROVE FirstRun
<1>1. /\ svc = "serving" /\ \A n \in Net : nets[n] = NoGen /\ made[n] = 0
      /\ \A n \in Net, g \in Gen : leases[n][g] = NoLeases
      /\ \A v \in VM : guest[v] = NoGuest
      /\ \A c \in Caller : call[c] = Idle
  BY Zenon DEF Init
<1>2. \A n \in Net : Numbered(n)
  <2>1. \A g \in Gen : ~(g <= 0)
    BY DEF Gen
  <2>2. NoGen <= 0
    BY DEF NoGen
  <2> QED BY Zenon, <1>1, <2>1, <2>2 DEF Numbered
<1>3. LeaseHasOwner
  BY Zenon, <1>1 DEF LeaseHasOwner
<1>4. ASSUME NEW c \in Caller PROVE Fresh(c)
  <2>1. FreshAt(c, "idle", "none", "none", NoGen, "none", NoAddr)
    BY Zenon, NamesAssumption, FreshNet DEF Label
  <2> QED BY Zenon, <1>1, <2>1, Idles DEF Fresh
<1>5. \A v \in VM : Attachment(v)
  BY Zenon, <1>1 DEF Attachment, NoLeases
<1> QED BY Zenon, <1>1, <1>2, <1>3, <1>4, <1>5 DEF FirstRun

\* Every step of the first run keeps it; the steps of Load are not among them.
LEMMA RunKept == ASSUME NetInv, NetInv', FirstRun, [Next]_vars PROVE FirstRun'
<1> SUFFICES ASSUME restarts' = 0 PROVE FirstRun'
  BY Zenon DEF FirstRun
<1>1. CASE UNCHANGED vars
  <2>1. UNCHANGED <<nets, made, leases, closed, present, rec, vmFile, guest, call, svc, restarts>>
    BY Zenon, <1>1 DEF vars, netVars, vmVars, svcVars
  <2>2. FirstRun => (LeaseHasOwner' /\ \A n \in Net : Numbered(n)') \/ restarts # 0
    BY Zenon, <2>1 DEF FirstRun, LeaseHasOwner, Numbered
  <2>3. FirstRun => (\A c \in Caller : Fresh(c)') \/ restarts # 0
    BY Zenon, <2>1 DEF FirstRun, Fresh, FreshAt, NoLease
  <2>4. FirstRun => (\A v \in VM : Attachment(v)') \/ restarts # 0
    BY Zenon, <2>1 DEF FirstRun, Attachment
  <2> QED BY Zenon, <2>1, <2>2, <2>3, <2>4 DEF FirstRun
<1>2. CASE Next
  <2>1. ~Restart
    BY DEF Restart, NetInv, StoreTypes
  <2>2. ASSUME NEW c \in Caller, NetworkStep(c) PROVE restarts' = restarts
    BY Zenon, <2>2 DEF NetworkStep, svcVars, CreateNetwork, DeleteNetwork, ServeIMDS, GetNetwork, ListenIMDS,
       RegisterIMDS, DeleteChecks, CloseNetwork, Unserve, List, Persist, State
  <2>3. ASSUME NEW c \in Caller, VMStep(c) PROVE restarts' = restarts
    BY Zenon, <2>3 DEF VMStep, svcVars, Start, Delete, Create, Allocate, Launch, Provision, RecordIP,
       StartGets, StartAttaches, StartQEMU, Detach, RemoveDir, Forget
  <2>4. restarts = 0
    BY Zenon, <1>2, <2>1, <2>2, <2>3 DEF Next, svcVars, ProcessExits, LoadVM, Load, Serve
  <2>5. svc = "serving"
    BY Zenon, <2>4 DEF FirstRun
  <2>6. ~Load /\ ~Serve /\ \A v \in VM : ~LoadVM(v)
    BY <2>5 DEF Load, Serve, LoadVM
  <2>7. ASSUME NEW c \in Caller, NetworkStep(c) PROVE FirstRun'
    BY Zenon, <2>4, <2>7, CreateNetworkRun, DeleteNetworkRun, ServeIMDSRun, GetNetworkRun, DeleteChecksRun,
       CloseNetworkRun, ListRun, PersistRun DEF NetworkStep
  <2>8. ASSUME NEW c \in Caller, VMStep(c) PROVE FirstRun'
    BY Zenon, <2>4, <2>8, StartRun, DeleteRun, CreateRun, AllocateRun, LaunchRun, ProvisionRun, RecordIPRun,
       StartGetsRun, StartAttachesRun, StartQEMURun, DetachRun, RemoveRun DEF VMStep
  <2> QED BY Zenon, <1>2, <2>1, <2>4, <2>6, <2>7, <2>8, ProcessExitsRun DEF Next
<1> QED BY Zenon, <1>1, <1>2

\* What holds between any two steps.
LEMMA Kept == Spec => []NetworksInv
<1>1. Init => NetworksInv
  BY Zenon, NetInit, RunInit DEF NetworksInv
<1>2. NetworksInv /\ [Next]_vars => NetworksInv'
  BY Zenon, NetStep, RunKept DEF NetworksInv
<1> QED BY <1>1, <1>2, PTL DEF Spec

\* The guest's lease is in the generation that is up, unless a network was
\* closed with a lease in it.
LEMMA UpAndLeased == NetworksInv => GuestHasLease
<1> SUFFICES ASSUME NetworksInv, NEW v \in VM, restarts = 0, DeletedEmpty, present[v], guest[v] # NoGuest
             PROVE nets[guest[v].net] # NoGen /\ leases[guest[v].net][nets[guest[v].net]][v] = guest[v].ip
  BY Zenon DEF GuestHasLease
<1>1. PICK n \in Net : n = guest[v].net
  BY DEF NetworksInv, NetInv, StoreTypes
<1>2. Attachment(v) /\ Numbered(n)
  BY Zenon DEF NetworksInv, FirstRun
<1>3. PICK g \in Gen : leases[n][g][v] = guest[v].ip /\ guest[v].ip # NoAddr
  BY Zenon, <1>1, <1>2 DEF Attachment
<1>4. g <= made[n]
  <2>1. leases[n][g] # NoLeases
    BY Zenon, <1>3 DEF NoLeases
  <2>2. ~(g > made[n]) /\ g \in Nat /\ made[n] \in Nat
    BY <1>2, <2>1, BoundsAssumption DEF Numbered, NetworksInv, NetInv, StoreTypes, Gen
  <2> QED BY <2>2
<1>5. ~closed[n][g]
  <2>1. leases[n][g][v] \in Held(n, g)
    BY Zenon, <1>3 DEF Held
  <2> QED BY Zenon, <2>1 DEF DeletedEmpty
<1>6. g = nets[n]
  BY Zenon, <1>2, <1>4, <1>5 DEF Numbered
<1>7. nets[n] # NoGen
  BY <1>6 DEF Gen, NoGen
<1> QED BY Zenon, <1>1, <1>3, <1>6, <1>7

\* Until vm-manager ends, a running VM keeps its network and its lease there,
\* unless Manager.Delete closed a network between its look at the leases and
\* Close: the generations, the locks of the VM and Detach after the exit.
THEOREM AddressStaysLeased == Spec => []GuestHasLease
BY Kept, UpAndLeased, PTL

\* Until vm-manager ends, whoever holds a lease can still be found: teardown
\* detaches the VM before the record and the entry go.
THEOREM NoLeaseIsLost == Spec => []LeaseHasOwner
<1>1. NetworksInv => LeaseHasOwner
  BY Zenon DEF NetworksInv, FirstRun, LeaseHasOwner
<1> QED BY <1>1, Kept, PTL
=============================================================================
