------------------------ MODULE SubscriptionsProofs -------------------------
(***************************************************************************)
(* The subscriptions of the guests' notify messages for every number of    *)
(* VMs, CIDs and channels: who has a CID, and who reads its channel.       *)
(***************************************************************************)
EXTENDS Subscriptions, FiniteSetTheorems, WellFoundedInduction, TLAPS

-----------------------------------------------------------------------------
(* Subscriptions.                                                          *)

\* What a boot records: the CID it was tried with and the number of tries.
Booted == [cid : CID \cup {NoCID}, tries : Nat]

CIDTypes ==
  /\ step \in [Guest -> {"none", "stopped", "starting", "moving", "moved", "up", "exited", "detached"}]
  /\ cid \in [Guest -> CID \cup {NoCID}]
  /\ booted \in [Guest -> Booted] /\ phase \in [Guest -> {"install", "boot", "failed"}]
  /\ channels \in Nat /\ subs \in [CID -> 0..channels] /\ reads \in [Guest -> 0..channels]
  /\ closed \subseteq 1..channels /\ shared \subseteq Guest

\* The record of a VM has a CID; a QEMU has the one of the record.
CIDRecorded(v) ==
  /\ step[v] = "none" <=> cid[v] = NoCID
  /\ step[v] \in {"starting", "up", "exited", "detached"} => booted[v].cid = cid[v]
  /\ step[v] \in {"moving", "moved"} => booted[v].cid # NoCID

\* The inductive invariant of the CIDs.
CIDInv == CIDTypes /\ (\A v \in Guest : CIDRecorded(v)) /\ CIDsUnique

\* More CIDs than VMs.
Room == IsFiniteSet(Guest) /\ Cardinality(Guest) < MaxCID - MinCID

\* Every CID has an open channel of its own.
ChannelsOpen ==
  /\ \A c \in CID : subs[c] \notin closed
  /\ \A c, d \in CID : subs[c] = subs[d] /\ subs[c] # NoChan => c = d

\* A VM that subscribed alone keeps its channel, and no VM on the move has yet
\* to leave its CID.
HoldsChannel(v) ==
  step[v] \in {"starting", "up"} /\ phase[v] = "boot" /\ v \notin shared =>
    /\ subs[cid[v]] = reads[v] /\ reads[v] # NoChan
    /\ \A o \in Guest \ {v} : step[o] = "moving" => booted[o].cid # cid[v]

\* The inductive invariant of the channels.
SubscriptionInv ==
  /\ CIDInv /\ ChannelsOpen
  /\ \A v \in Guest : cid[v] # MaxCID /\ HoldsChannel(v)

\* A set of numbers that is not empty has its least element.
LEMMA LeastOfSome ==
  ASSUME NEW S, S \subseteq Nat, S # {}
  PROVE  Min(S) \in S
<1>1. PICK x \in S : \A y \in S : ~(<<y, x>> \in OpToRel(<, Nat))
  BY WFMin, NatLessThanWellFounded, Zenon
<1>2. ASSUME NEW y \in S, y < x PROVE FALSE
  <2>1. <<y, x>> \in Nat \X Nat /\ <<y, x>>[1] < <<y, x>>[2]
    BY Zenon, <1>2
  <2>2. <<y, x>> \in OpToRel(<, Nat)
    BY <2>1, Zenon DEF OpToRel
  <2> QED BY Zenon, <2>2, <1>1
<1>3. \A y \in S : x <= y
  BY <1>2
<1> QED BY Zenon, <1>3 DEF Min

\* A remainder is below its divisor.
LEMMA Remainder ==
  ASSUME NEW x \in Nat, NEW n \in Nat \ {0}
  PROVE  x % n \in 0..(n - 1)
OBVIOUS

\* A number below twice the divisor wraps once.
LEMMA RemainderOnce ==
  ASSUME NEW n \in Nat \ {0}, NEW x \in 0..(n - 1), NEW i \in 0..(n - 1)
  PROVE  (x + i) % n = IF x + i < n THEN x + i ELSE x + i - n
OBVIOUS

\* The search returns a CID that nobody holds, or MaxCID.
LEMMA FreeCID ==
  ASSUME CIDTypes, NEW start \in Nat
  PROVE  /\ freeCIDFrom(start) \in CID
         /\ freeCIDFrom(start) # MaxCID => \A v \in Guest : cid[v] # freeCIDFrom(start)
<1> DEFINE span == MaxCID - MinCID
           from == IF start \in MinCID..(MaxCID - 1) THEN start ELSE MinCID
           nth(i) == MinCID + (((from - MinCID) + i) % span)
           free == {i \in 0..(span - 1) : \A v \in Guest : cid[v] # nth(i)}
<1>1. freeCIDFrom(start) = IF free = {} THEN MaxCID ELSE nth(Min(free))
  BY Zenon DEF freeCIDFrom
<1>2. CASE free = {}
  BY <1>1, <1>2, CIDAssumption DEF CID
<1>3. CASE free # {}
  <2>1. Min(free) \in free
    <3>1. free \subseteq Nat
      OBVIOUS
    <3> HIDE DEF free
    <3> QED BY Zenon, <3>1, <1>3, LeastOfSome
  <2>2. PICK i \in 0..(span - 1) : freeCIDFrom(start) = nth(i) /\ \A v \in Guest : cid[v] # nth(i)
    BY Zenon, <2>1, <1>1, <1>3
  <2>3. (from - MinCID) + i \in Nat /\ span \in Nat \ {0}
    BY CIDAssumption
  <2>4. ((from - MinCID) + i) % span \in 0..(span - 1)
    <3> HIDE DEF from, span
    <3> QED BY Zenon, <2>3, Remainder
  <2>5. nth(i) \in CID
    <3> HIDE DEF from
    <3> QED BY <2>4, CIDAssumption DEF CID
  <2> QED BY Zenon, <2>2, <2>5
<1> QED BY Zenon, <1>2, <1>3

\* With more CIDs than VMs it finds one.
LEMMA RoomForCID ==
  ASSUME CIDTypes, Room, NEW start \in Nat
  PROVE  freeCIDFrom(start) # MaxCID
<1> DEFINE span == MaxCID - MinCID
           from == IF start \in MinCID..(MaxCID - 1) THEN start ELSE MinCID
           nth(i) == MinCID + (((from - MinCID) + i) % span)
           free == {i \in 0..(span - 1) : \A v \in Guest : cid[v] # nth(i)}
           x == from - MinCID
<1>1. freeCIDFrom(start) = IF free = {} THEN MaxCID ELSE nth(Min(free))
  BY Zenon DEF freeCIDFrom
<1>2. span \in Nat \ {0} /\ x \in 0..(span - 1)
  BY CIDAssumption
<1>3. ASSUME NEW i \in 0..(span - 1), NEW j \in 0..(span - 1), nth(i) = nth(j)
      PROVE i = j
  <2>1. (x + i) % span = IF x + i < span THEN x + i ELSE x + i - span
    <3> HIDE DEF x, span
    <3> QED BY Zenon, <1>2, RemainderOnce
  <2>2. (x + j) % span = IF x + j < span THEN x + j ELSE x + j - span
    <3> HIDE DEF x, span
    <3> QED BY Zenon, <1>2, RemainderOnce
  <2>3. (x + i) % span = (x + j) % span
    <3>1. (x + i) % span \in Nat /\ (x + j) % span \in Nat
      <4> HIDE DEF x, span
      <4> QED BY <1>2, Remainder
    <3>2. MinCID + ((x + i) % span) = MinCID + ((x + j) % span)
      BY Zenon, <1>3
    <3> HIDE DEF x, span
    <3> QED BY <3>1, <3>2, CIDAssumption
  <2> HIDE DEF x, span
  <2> QED BY <2>1, <2>2, <2>3, <1>2
<1>4. free # {}
  <2> SUFFICES ASSUME free = {} PROVE FALSE
    BY Zenon
  <2> DEFINE f == [i \in 0..(span - 1) |-> CHOOSE v \in Guest : cid[v] = nth(i)]
  <2>1. ASSUME NEW i \in 0..(span - 1) PROVE f[i] \in Guest /\ cid[f[i]] = nth(i)
    <3>1. \E v \in Guest : cid[v] = nth(i)
      BY Zenon
    <3> HIDE DEF nth
    <3> QED BY Zenon, <3>1
  <2>2. f \in Injection(0..(span - 1), Guest)
    <3>1. f \in [0..(span - 1) -> Guest]
      <4> SUFFICES ASSUME NEW i \in 0..(span - 1) PROVE f[i] \in Guest
        BY Zenon
      <4> QED BY Zenon, <2>1
    <3>2. ASSUME NEW i \in 0..(span - 1), NEW j \in 0..(span - 1), f[i] = f[j]
          PROVE i = j
      <4>1. nth(i) = nth(j)
        <5> HIDE DEF nth, f
        <5> QED BY Zenon, <2>1, <3>2
      <4> QED BY Zenon, <4>1, <1>3
    <3> HIDE DEF f
    <3> QED BY <3>1, <3>2, Zenon DEF Injection, IsInjective
  <2>3. Cardinality(0..(span - 1)) <= Cardinality(Guest)
    <3> HIDE DEF f, span
    <3> QED BY Zenon, <2>2, FS_Injection DEF Room
  <2>4. Cardinality(0..(span - 1)) = span
    <3> HIDE DEF span
    <3> QED BY <1>2, FS_Interval
  <2>5. Cardinality(Guest) \in Nat
    BY Zenon, FS_CardinalityType DEF Room
  <2> QED BY <2>3, <2>4, <2>5, CIDAssumption DEF Room
<1>5. Min(free) \in free
  <2>1. free \subseteq Nat
    OBVIOUS
  <2> HIDE DEF free
  <2> QED BY Zenon, <2>1, <1>4, LeastOfSome
<1>6. PICK k \in 0..(span - 1) : freeCIDFrom(start) = MinCID + ((x + k) % span)
  BY Zenon, <1>1, <1>4, <1>5
<1>7. (x + k) % span \in 0..(span - 1)
  <2> HIDE DEF x, span
  <2> QED BY <1>2, Remainder
<1> HIDE DEF x
<1> QED BY <1>6, <1>7, CIDAssumption

\* Before the first VM.
LEMMA CIDStarts == SubscriptionsInit => SubscriptionInv
<1> SUFFICES ASSUME SubscriptionsInit PROVE SubscriptionInv
  BY Zenon
<1> USE CIDAssumption DEF SubscriptionsInit, CID, NoCID, NoChan, NotBooted
<1>1. CIDTypes
  BY DEF CIDTypes, Booted
<1>2. \A v \in Guest : CIDRecorded(v) /\ cid[v] # MaxCID /\ HoldsChannel(v)
  BY DEF CIDRecorded, HoldsChannel
<1>3. CIDsUnique /\ ChannelsOpen
  BY Zenon DEF CIDsUnique, ChannelsOpen
<1> QED BY Zenon, <1>1, <1>2, <1>3 DEF CIDInv, SubscriptionInv

\* NoCID is no CID, and MaxCID is one.
LEMMA CIDNumbers == 0 \notin CID /\ CID \subseteq Nat /\ MaxCID \in CID /\ NoCID = 0 /\ NoChan = 0
BY CIDAssumption DEF CID, NoCID, NoChan

\* Subscribe, as seen from the other VMs and CIDs and from its own.
LEMMA Subscribes ==
  ASSUME CIDTypes, NEW v \in Guest, NEW c \in CID, Subscribe(v, c)
  PROVE  /\ channels' \in Nat /\ channels <= channels' /\ subs' \in [CID -> 0..channels']
         /\ reads' \in [Guest -> 0..channels'] /\ shared' \subseteq Guest
         /\ \A o \in Guest \ {v} : reads'[o] = reads[o] /\ (o \in shared' <=> o \in shared)
         /\ \A d \in CID \ {c} : subs'[d] = subs[d]
         /\ \/ subs' = subs
            \/ subs[c] = NoChan /\ subs'[c] = channels + 1
         /\ phase[v] = "boot" => subs'[c] = reads'[v] /\ reads'[v] # NoChan
         /\ phase[v] = "boot" /\ v \notin shared' =>
              \A o \in Guest \ {v} : step[o] = "moving" => booted[o].cid # c
<1> USE CIDNumbers
<1>1. CASE phase[v] = "install"
  <2>1. subs' = subs /\ reads' = reads /\ channels' = channels /\ shared' = shared
    BY <1>1, Zenon DEF Subscribe
  <2>2. channels' \in Nat /\ channels <= channels' /\ subs' \in [CID -> 0..channels']
        /\ reads' \in [Guest -> 0..channels'] /\ shared' \subseteq Guest
    BY <2>1 DEF CIDTypes
  <2> QED BY Zenon, <1>1, <2>1, <2>2
<1>2. CASE phase[v] # "install"
  <2>1. /\ shared' = IF \E o \in Guest \ {v} : step[o] = "moving" /\ booted[o].cid = c
                     THEN shared \cup {v} ELSE shared \ {v}
        /\ IF subs[c] # NoChan
           THEN reads' = [reads EXCEPT ![v] = subs[c]] /\ subs' = subs /\ channels' = channels
           ELSE /\ channels' = channels + 1 /\ subs' = [subs EXCEPT ![c] = channels + 1]
                /\ reads' = [reads EXCEPT ![v] = channels + 1]
    BY <1>2, Zenon DEF Subscribe
  <2>2. shared' \subseteq Guest /\ \A o \in Guest \ {v} : o \in shared' <=> o \in shared
    <3>1. shared' \in {shared \cup {v}, shared \ {v}}
      BY Zenon, <2>1
    <3> QED BY Zenon, <3>1 DEF CIDTypes
  <2>3. v \notin shared' => \A o \in Guest \ {v} : step[o] = "moving" => booted[o].cid # c
    BY Zenon, <2>1 DEF CIDTypes
  <2>4. CASE subs[c] # NoChan
    <3>1. subs' = subs /\ channels' = channels /\ reads' = [reads EXCEPT ![v] = subs[c]]
      BY Zenon, <2>1, <2>4
    <3>2. channels' \in Nat /\ channels <= channels' /\ subs' \in [CID -> 0..channels']
      BY <3>1 DEF CIDTypes
    <3>3. /\ reads' \in [Guest -> 0..channels'] /\ reads'[v] = subs'[c]
          /\ \A o \in Guest \ {v} : reads'[o] = reads[o]
      BY Zenon, <3>1 DEF CIDTypes
    <3> QED BY Zenon, <2>2, <2>3, <2>4, <3>1, <3>2, <3>3
  <2>5. CASE subs[c] = NoChan
    <3>1. channels' = channels + 1 /\ channels \in Nat
      BY Zenon, <2>1, <2>5 DEF CIDTypes
    <3>2. subs' \in [CID -> 0..channels'] /\ reads' \in [Guest -> 0..channels']
      BY <2>1, <2>5, <3>1 DEF CIDTypes
    <3>3. subs'[c] = channels + 1 /\ reads'[v] = channels + 1
      BY Zenon, <2>1, <2>5 DEF CIDTypes
    <3>4. /\ \A o \in Guest \ {v} : reads'[o] = reads[o]
          /\ \A d \in CID \ {c} : subs'[d] = subs[d]
      BY Zenon, <2>1, <2>5 DEF CIDTypes
    <3> QED BY <2>2, <2>3, <2>5, <3>1, <3>2, <3>3, <3>4
  <2> QED BY Zenon, <2>4, <2>5
<1> QED BY Zenon, <1>1, <1>2

\* Unsubscribe, as seen from the other CIDs and from its own.
LEMMA Unsubscribes ==
  ASSUME CIDTypes, NEW v \in Guest, NEW c \in CID, Unsubscribe(v, c)
  PROVE  /\ subs' \in [CID -> 0..channels] /\ closed' \subseteq 1..channels
         /\ \A d \in CID \ {c} : subs'[d] = subs[d]
         /\ \/ subs' = subs /\ closed' = closed
            \/ subs'[c] = NoChan /\ closed' \subseteq closed \cup ({subs[c]} \ {NoChan})
<1>1. CASE phase[v] = "install"
  <2>1. subs' = subs /\ closed' = closed
    BY <1>1, Zenon DEF Unsubscribe
  <2> QED BY Zenon, <2>1 DEF CIDTypes
<1>2. CASE phase[v] # "install"
  <2>1. subs' = [subs EXCEPT ![c] = NoChan]
    BY <1>2, Zenon DEF Unsubscribe
  <2>2. closed' = IF subs[c] # NoChan THEN closed \cup {subs[c]} ELSE closed
    BY <1>2, Zenon DEF Unsubscribe
  <2>3. subs' \in [CID -> 0..channels] /\ subs'[c] = NoChan /\ \A d \in CID \ {c} : subs'[d] = subs[d]
    BY <2>1, CIDNumbers DEF CIDTypes
  <2>4. closed' \subseteq closed \cup ({subs[c]} \ {NoChan})
    BY Zenon, <2>2
  <2>5. closed' \subseteq 1..channels
    BY <2>4, CIDNumbers DEF CIDTypes
  <2> QED BY Zenon, <2>3, <2>4, <2>5
<1> QED BY Zenon, <1>1, <1>2

\* A step of one VM that leaves its CID or gives it one that is free.
LEMMA CIDMoves ==
  ASSUME CIDInv, CIDTypes', NEW v \in Guest, CIDRecorded(v)',
         \A o \in Guest \ {v} : step'[o] = step[o] /\ cid'[o] = cid[o] /\ booted'[o] = booted[o],
         \/ cid'[v] \in {cid[v], NoCID, MaxCID}
         \/ \A o \in Guest : cid[o] # cid'[v]
  PROVE  CIDInv'
<1>1. (\A o \in Guest : CIDRecorded(o))'
  BY Zenon DEF CIDInv, CIDRecorded
<1>2. CIDsUnique'
  BY DEF CIDInv, CIDsUnique, CIDTypes
<1> QED BY Zenon, <1>1, <1>2 DEF CIDInv

\* A new VM gets a CID that nobody holds.
LEMMA AllocateCIDKeeps ==
  ASSUME CIDInv, NEW v \in Guest, AllocateCID(v)
  PROVE  CIDInv'
<1> DEFINE c == freeCIDFrom(CIDBase)
<1>1. c \in CID /\ (c # MaxCID => \A o \in Guest : cid[o] # c)
  BY Zenon, FreeCID, CIDAssumption DEF CIDInv
<1> HIDE DEF c
<1>2. /\ step' = [step EXCEPT ![v] = "stopped"] /\ cid' = [cid EXCEPT ![v] = c] /\ booted' = booted
      /\ phase' = [phase EXCEPT ![v] = "install"] /\ UNCHANGED <<subs, closed, reads, channels, shared>>
  BY Zenon DEF AllocateCID, StepTo, c
<1>3. CIDTypes'
  BY Zenon, <1>1, <1>2 DEF CIDInv, CIDTypes
<1>4. CIDRecorded(v)'
  BY Zenon, <1>1, <1>2, CIDNumbers DEF CIDInv, CIDTypes, CIDRecorded
<1>5. /\ \A o \in Guest \ {v} : step'[o] = step[o] /\ cid'[o] = cid[o] /\ booted'[o] = booted[o]
      /\ cid'[v] = c
  BY Zenon, <1>2 DEF CIDInv, CIDTypes
<1> QED BY Zenon, <1>1, <1>3, <1>4, <1>5, CIDMoves

\* A VM is deleted, and its CID with it.
LEMMA DropVMKeeps ==
  ASSUME CIDInv, NEW v \in Guest, DropVM(v)
  PROVE  CIDInv'
<1>1. CIDTypes' /\ CIDRecorded(v)'
  BY Zenon, CIDNumbers DEF DropVM, StepTo, CIDInv, CIDTypes, CIDRecorded
<1>2. /\ \A o \in Guest \ {v} : step'[o] = step[o] /\ cid'[o] = cid[o] /\ booted'[o] = booted[o]
      /\ cid'[v] = NoCID
  BY Zenon DEF DropVM, StepTo, CIDInv, CIDTypes
<1> QED BY Zenon, <1>1, <1>2, CIDMoves

\* Boot and the retry: Subscribe to the CID of the record, and QEMU with it.
Boots(v) ==
  /\ step[v] \in {"stopped", "moved"} /\ Subscribe(v, cid[v])
  /\ \E n \in Nat : booted' = [booted EXCEPT ![v] = [cid |-> cid[v], tries |-> n]]
  /\ step' = [step EXCEPT ![v] = "starting"]
  /\ UNCHANGED <<phase, cid, closed>>

\* Start and the next try both boot.
LEMMA BootsIs ==
  ASSUME CIDInv, NEW v \in Guest, Boot(v) \/ JoinCID(v)
  PROVE  Boots(v)
<1>1. CASE Boot(v)
  BY Zenon, <1>1 DEF Boot, Boots, StepTo
<1>2. CASE JoinCID(v)
  <2>1. booted[v].tries + 1 \in Nat
    BY DEF CIDInv, CIDTypes, Booted
  <2>2. booted' = [booted EXCEPT ![v] = [cid |-> cid[v], tries |-> booted[v].tries + 1]]
    BY Zenon, <1>2 DEF JoinCID
  <2> QED BY <1>2, <2>1, <2>2, Zenon DEF JoinCID, Boots, StepTo, RetryCID
<1> QED BY Zenon, <1>1, <1>2

\* A boot subscribes under the CID the VM has.
LEMMA BootsKeeps ==
  ASSUME CIDInv, NEW v \in Guest, Boots(v)
  PROVE  CIDInv'
<1>1. cid[v] \in CID
  BY Zenon, CIDNumbers DEF CIDInv, CIDTypes, CIDRecorded, Boots
<1>2. /\ channels' \in Nat /\ channels <= channels' /\ subs' \in [CID -> 0..channels']
      /\ reads' \in [Guest -> 0..channels'] /\ shared' \subseteq Guest
  BY Zenon, <1>1, Subscribes DEF Boots, CIDInv
<1>3. CIDTypes'
  <2>1. closed' \subseteq 1..channels'
    BY <1>2 DEF Boots, CIDInv, CIDTypes
  <2>2. booted' \in [Guest -> Booted]
    BY <1>1 DEF Boots, CIDInv, CIDTypes, Booted
  <2>3. phase' = phase /\ cid' = cid /\ step' \in [Guest ->
          {"none", "stopped", "starting", "moving", "moved", "up", "exited", "detached"}]
    BY Zenon DEF Boots, CIDInv, CIDTypes
  <2> QED BY Zenon, <1>2, <2>1, <2>2, <2>3 DEF CIDInv, CIDTypes
<1>4. CIDRecorded(v)'
  BY <1>1, CIDNumbers DEF Boots, CIDInv, CIDTypes, CIDRecorded
<1>5. /\ \A o \in Guest \ {v} : step'[o] = step[o] /\ cid'[o] = cid[o] /\ booted'[o] = booted[o]
      /\ cid'[v] = cid[v]
  BY Zenon DEF Boots, CIDInv, CIDTypes
<1> QED BY Zenon, <1>3, <1>4, <1>5, CIDMoves

\* The outcomes of Runtime.Start and reassignCID.
Fails(v, c) ==
  /\ cid' = [cid EXCEPT ![v] = c] /\ Unsubscribe(v, booted[v].cid)
  /\ reads' = [reads EXCEPT ![v] = NoChan] /\ booted' = [booted EXCEPT ![v] = NotBooted]
  /\ phase' = [phase EXCEPT ![v] = NotInstalled(v)]
  /\ step' = [step EXCEPT ![v] = "stopped"]

\* Another CID is tried: the VM moves to it.
Leaves(v, c) ==
  /\ cid' = [cid EXCEPT ![v] = c] /\ step' = [step EXCEPT ![v] = "moving"]
  /\ UNCHANGED <<phase, booted, subs, closed, reads>>

\* The outcomes of running QEMU: it is up, it failed, or the CID is taken and
\* another is tried.
LEMMA RunQEMUIs ==
  ASSUME CIDInv, NEW v \in Guest, RunQEMU(v)
  PROVE  /\ step[v] = "starting" /\ UNCHANGED <<channels, shared>>
         /\ \/ /\ step' = [step EXCEPT ![v] = "up"]
               /\ UNCHANGED <<phase, cid, booted, subs, closed, reads>>
            \/ \E c \in CID :
                 /\ c = cid[v] \/ c = freeCIDFrom(booted[v].cid + 1)
                 /\ Fails(v, c) \/ Leaves(v, c)
<1>1. cid[v] \in CID /\ booted[v].cid \in CID
  BY Zenon, CIDNumbers DEF CIDInv, CIDRecorded, CIDTypes, RunQEMU
<1>2. freeCIDFrom(booted[v].cid + 1) \in CID
  <2>1. booted[v].cid \in Nat
    BY Zenon, <1>1, CIDNumbers
  <2>2. booted[v].cid + 1 \in Nat
    BY <2>1
  <2> QED BY Zenon, <2>2, FreeCID DEF CIDInv
<1>3. cid = [cid EXCEPT ![v] = cid[v]]
  BY Zenon DEF CIDInv, CIDTypes
<1> QED BY <1>1, <1>2, <1>3, Zenon DEF RunQEMU, StepTo, Fails, Leaves

\* The CID a boot moves to is free, its own, or the last resort MaxCID.
LEMMA NewCID ==
  ASSUME CIDInv, NEW v \in Guest, step[v] = "starting", NEW c \in CID,
         c = cid[v] \/ c = freeCIDFrom(booted[v].cid + 1)
  PROVE  c \in {cid[v], MaxCID} \/ \A o \in Guest : cid[o] # c
<1>1. booted[v].cid \in Nat
  BY Zenon, CIDNumbers DEF CIDInv, CIDRecorded, CIDTypes
<1>2. booted[v].cid + 1 \in Nat
  BY <1>1
<1> QED BY Zenon, <1>2, FreeCID DEF CIDInv

\* QEMU runs, fails, or is tried with another CID.
LEMMA RunQEMUKeeps ==
  ASSUME CIDInv, NEW v \in Guest, RunQEMU(v)
  PROVE  CIDInv'
<1>0. step[v] = "starting" /\ channels' = channels /\ shared' = shared
  BY Zenon, RunQEMUIs
<1>1. CASE step' = [step EXCEPT ![v] = "up"] /\ UNCHANGED <<phase, cid, booted, subs, closed, reads>>
  <2>1. CIDTypes' /\ CIDRecorded(v)'
    BY Zenon, <1>0, <1>1, CIDNumbers DEF CIDInv, CIDTypes, CIDRecorded
  <2>2. \A o \in Guest \ {v} : step'[o] = step[o] /\ cid'[o] = cid[o] /\ booted'[o] = booted[o]
    BY Zenon, <1>1 DEF CIDInv, CIDTypes
  <2> QED BY Zenon, <1>1, <2>1, <2>2, CIDMoves
<1>2. ASSUME NEW c \in CID, c = cid[v] \/ c = freeCIDFrom(booted[v].cid + 1), Leaves(v, c)
      PROVE  CIDInv'
  <2>1. CIDTypes' /\ CIDRecorded(v)'
    BY Zenon, <1>0, <1>2, CIDNumbers DEF CIDInv, CIDTypes, CIDRecorded, Leaves
  <2>2. /\ \A o \in Guest \ {v} : step'[o] = step[o] /\ cid'[o] = cid[o] /\ booted'[o] = booted[o]
        /\ cid'[v] = c
    BY Zenon, <1>2 DEF CIDInv, CIDTypes, Leaves
  <2> QED BY Zenon, <1>0, <1>2, <2>1, <2>2, NewCID, CIDMoves
<1>3. ASSUME NEW c \in CID, c = cid[v] \/ c = freeCIDFrom(booted[v].cid + 1), Fails(v, c)
      PROVE  CIDInv'
  <2>0. booted[v].cid \in CID
    BY Zenon, <1>0, CIDNumbers DEF CIDInv, CIDTypes, CIDRecorded
  <2>1. subs' \in [CID -> 0..channels] /\ closed' \subseteq 1..channels
    BY Zenon, <1>3, <2>0, Unsubscribes DEF Fails, CIDInv
  <2>2. /\ step' \in [Guest -> {"none", "stopped", "starting", "moving", "moved", "up", "exited", "detached"}]
        /\ cid' \in [Guest -> CID \cup {NoCID}] /\ reads' \in [Guest -> 0..channels]
        /\ phase' \in [Guest -> {"install", "boot", "failed"}] /\ booted' \in [Guest -> Booted]
    BY <1>3, CIDNumbers DEF Fails, CIDInv, CIDTypes, NotInstalled, NotBooted, Booted
  <2>3. CIDTypes'
    BY Zenon, <1>0, <2>1, <2>2 DEF CIDInv, CIDTypes
  <2>4. CIDRecorded(v)'
    BY Zenon, <1>3, CIDNumbers DEF Fails, CIDInv, CIDTypes, CIDRecorded
  <2>5. /\ \A o \in Guest \ {v} : step'[o] = step[o] /\ cid'[o] = cid[o] /\ booted'[o] = booted[o]
        /\ cid'[v] = c
    BY Zenon, <1>3 DEF CIDInv, CIDTypes, Fails
  <2> QED BY Zenon, <1>0, <1>3, <2>3, <2>4, <2>5, NewCID, CIDMoves
<1> QED BY Zenon, <1>1, <1>2, <1>3, RunQEMUIs

\* The channel of the CID that was taken is given up.
LEMMA LeaveCIDKeeps ==
  ASSUME CIDInv, NEW v \in Guest, LeaveCID(v)
  PROVE  CIDInv'
<1>0. booted[v].cid \in CID
  BY Zenon, CIDNumbers DEF CIDInv, CIDTypes, CIDRecorded, LeaveCID, Booted
<1>1. subs' \in [CID -> 0..channels] /\ closed' \subseteq 1..channels
  BY Zenon, <1>0, Unsubscribes DEF LeaveCID, CIDInv
<1>2. CIDTypes'
  BY Zenon, <1>1 DEF LeaveCID, StepTo, CIDInv, CIDTypes
<1>3. CIDRecorded(v)'
  BY Zenon, <1>0, CIDNumbers DEF LeaveCID, StepTo, CIDInv, CIDTypes, CIDRecorded
<1>4. /\ \A o \in Guest \ {v} : step'[o] = step[o] /\ cid'[o] = cid[o] /\ booted'[o] = booted[o]
      /\ cid'[v] = cid[v]
  BY Zenon DEF LeaveCID, StepTo, CIDInv, CIDTypes
<1> QED BY Zenon, <1>2, <1>3, <1>4, CIDMoves

\* QEMU exits.
LEMMA QEMUExitedKeeps ==
  ASSUME CIDInv, NEW v \in Guest, QEMUExited(v)
  PROVE  CIDInv'
<1>1. CIDTypes' /\ CIDRecorded(v)'
  BY Zenon, CIDNumbers DEF QEMUExited, StepTo, CIDInv, CIDTypes, CIDRecorded
<1>2. /\ \A o \in Guest \ {v} : step'[o] = step[o] /\ cid'[o] = cid[o] /\ booted'[o] = booted[o]
      /\ cid'[v] = cid[v]
  BY Zenon DEF QEMUExited, StepTo, CIDInv, CIDTypes
<1> QED BY Zenon, <1>1, <1>2, CIDMoves

\* The watcher of the process gives up its channel.
LEMMA UnsubscribeOnExitKeeps ==
  ASSUME CIDInv, NEW v \in Guest, UnsubscribeOnExit(v)
  PROVE  CIDInv'
<1>0. cid[v] \in CID
  BY Zenon, CIDNumbers DEF CIDInv, CIDTypes, CIDRecorded, UnsubscribeOnExit
<1>1. subs' \in [CID -> 0..channels] /\ closed' \subseteq 1..channels
  BY Zenon, <1>0, Unsubscribes DEF UnsubscribeOnExit, CIDInv
<1>2. CIDTypes'
  <2>1. phase' \in [Guest -> {"install", "boot", "failed"}]
    BY Zenon DEF UnsubscribeOnExit, CIDInv, CIDTypes, NotInstalled
  <2>2. booted' \in [Guest -> Booted] /\ reads' \in [Guest -> 0..channels]
    BY CIDNumbers DEF UnsubscribeOnExit, CIDInv, CIDTypes, NotBooted, Booted
  <2> QED BY Zenon, <1>1, <2>1, <2>2 DEF UnsubscribeOnExit, StepTo, CIDInv, CIDTypes
<1>3. CIDRecorded(v)'
  BY Zenon, <1>0, CIDNumbers DEF UnsubscribeOnExit, StepTo, CIDInv, CIDTypes, CIDRecorded
<1>4. /\ \A o \in Guest \ {v} : step'[o] = step[o] /\ cid'[o] = cid[o] /\ booted'[o] = booted[o]
      /\ cid'[v] = cid[v]
  BY Zenon DEF UnsubscribeOnExit, StepTo, CIDInv, CIDTypes
<1> QED BY Zenon, <1>2, <1>3, <1>4, CIDMoves

\* Load subscribes a VM that is still running.
LEMMA ReattachCIDKeeps ==
  ASSUME CIDInv, NEW v \in Guest, ReattachCID(v)
  PROVE  CIDInv'
<1>0. cid[v] \in CID /\ step[v] = "detached" /\ cid' = cid /\ closed' = closed
  BY Zenon, CIDNumbers DEF CIDInv, CIDTypes, CIDRecorded, ReattachCID
<1>1. CASE Subscribe(v, cid[v]) /\ StepTo(v, "up") /\ UNCHANGED <<phase, booted>>
  <2>1. /\ channels' \in Nat /\ channels <= channels' /\ subs' \in [CID -> 0..channels']
        /\ reads' \in [Guest -> 0..channels'] /\ shared' \subseteq Guest
    BY Zenon, <1>0, <1>1, Subscribes DEF CIDInv
  <2>2. closed' \subseteq 1..channels'
    BY <1>0, <2>1 DEF CIDInv, CIDTypes
  <2>3. CIDTypes'
    BY Zenon, <1>0, <1>1, <2>1, <2>2 DEF StepTo, CIDInv, CIDTypes
  <2>4. CIDRecorded(v)'
    BY Zenon, <1>0, <1>1, CIDNumbers DEF StepTo, CIDInv, CIDTypes, CIDRecorded
  <2>5. /\ \A o \in Guest \ {v} : step'[o] = step[o] /\ cid'[o] = cid[o] /\ booted'[o] = booted[o]
        /\ cid'[v] = cid[v]
    BY Zenon, <1>0, <1>1 DEF StepTo, CIDInv, CIDTypes
  <2> QED BY Zenon, <2>3, <2>4, <2>5, CIDMoves
<1>2. CASE /\ StepTo(v, "stopped") /\ booted' = [booted EXCEPT ![v] = NotBooted]
           /\ phase' = [phase EXCEPT ![v] = NotInstalled(v)]
           /\ UNCHANGED <<subs, reads, channels, shared>>
  <2>1. phase' \in [Guest -> {"install", "boot", "failed"}] /\ booted' \in [Guest -> Booted]
    BY Zenon, <1>2, CIDNumbers DEF CIDInv, CIDTypes, NotInstalled, NotBooted, Booted
  <2>2. CIDTypes'
    BY Zenon, <1>0, <1>2, <2>1 DEF StepTo, CIDInv, CIDTypes
  <2>3. CIDRecorded(v)'
    BY Zenon, <1>0, <1>2, CIDNumbers DEF StepTo, CIDInv, CIDTypes, CIDRecorded
  <2>4. /\ \A o \in Guest \ {v} : step'[o] = step[o] /\ cid'[o] = cid[o] /\ booted'[o] = booted[o]
        /\ cid'[v] = cid[v]
    BY Zenon, <1>0, <1>2 DEF StepTo, CIDInv, CIDTypes
  <2> QED BY Zenon, <2>2, <2>3, <2>4, CIDMoves
<1> QED BY <1>1, <1>2, Zenon DEF ReattachCID

\* vm-manager ends, and its channels with it.
LEMMA ManagerEndsKeeps ==
  ASSUME CIDInv, ManagerEnds
  PROVE  CIDInv' /\ ChannelsOpen' /\ \A v \in Guest : step'[v] \notin {"starting", "up"}
<1>1. step' \in [Guest -> {"none", "stopped", "detached"}]
  BY Zenon DEF ManagerEnds, CIDInv, CIDTypes
<1>2. phase' \in [Guest -> {"install", "boot", "failed"}]
  BY Zenon DEF ManagerEnds, CIDInv, CIDTypes, NotInstalled
<1>3. booted' \in [Guest -> Booted]
  BY Zenon, CIDNumbers DEF ManagerEnds, CIDInv, CIDTypes, NotBooted, Booted
<1>4. /\ cid' = cid /\ channels' = channels /\ subs' \in [CID -> 0..channels] /\ \A c \in CID : subs'[c] = NoChan
      /\ closed' \subseteq 1..channels /\ reads' \in [Guest -> 0..channels] /\ shared' \subseteq Guest
  BY CIDNumbers DEF ManagerEnds, CIDInv, CIDTypes
<1>5. CIDTypes'
  BY Zenon, <1>1, <1>2, <1>3, <1>4 DEF CIDInv, CIDTypes
<1>6. ASSUME NEW v \in Guest PROVE CIDRecorded(v)'
  <2>1. /\ step'[v] = "none" <=> step[v] = "none"
        /\ step'[v] = "detached" => step[v] \in {"up", "exited"} /\ booted'[v] = booted[v]
    BY Zenon DEF ManagerEnds, CIDInv, CIDTypes
  <2>2. step'[v] \in {"none", "stopped", "detached"}
    BY Zenon, <1>1
  <2> QED BY Zenon, <2>1, <2>2, <1>4 DEF CIDInv, CIDRecorded
<1>7. CIDsUnique'
  BY Zenon, <1>4 DEF CIDInv, CIDsUnique
<1>8. ChannelsOpen'
  <2>1. NoChan \notin closed'
    BY <1>4, CIDNumbers DEF CIDInv, CIDTypes
  <2> QED BY Zenon, <1>4, <2>1 DEF ChannelsOpen
<1> QED BY Zenon, <1>1, <1>5, <1>6, <1>7, <1>8 DEF CIDInv

\* Nothing happens.
LEMMA StutterKeeps ==
  ASSUME CIDInv, (\E c \in CID : ForeignCID(c)) \/ UNCHANGED subscriptionVars
  PROVE  CIDInv'
<1>1. UNCHANGED <<step, phase, cid, booted, subs, closed, reads, channels, shared>>
  BY Zenon DEF ForeignCID, subscriptionVars
<1>2. CIDTypes' /\ CIDsUnique'
  BY <1>1, Zenon DEF CIDInv, CIDTypes, CIDsUnique
<1>3. (\A v \in Guest : CIDRecorded(v))'
  BY <1>1, Zenon DEF CIDInv, CIDRecorded
<1> QED BY Zenon, <1>2, <1>3 DEF CIDInv

\* Every step keeps the CIDs apart.
LEMMA CIDStep == CIDInv /\ [SubscriptionsNext]_subscriptionVars => CIDInv'
<1> SUFFICES ASSUME CIDInv, [SubscriptionsNext]_subscriptionVars PROVE CIDInv'
  BY Zenon
<1>1. ASSUME NEW v \in Guest, Boot(v) \/ JoinCID(v) PROVE CIDInv'
  BY <1>1, BootsIs, BootsKeeps, Zenon
<1> QED BY <1>1, AllocateCIDKeeps, DropVMKeeps, RunQEMUKeeps, LeaveCIDKeeps, QEMUExitedKeeps,
           UnsubscribeOnExitKeeps, ReattachCIDKeeps, ManagerEndsKeeps, StutterKeeps, Zenon
        DEF SubscriptionsNext

\* freeCIDFrom gives no CID twice below MaxCID, for any range and any number of
\* VMs, through moves to another CID, deletions and restarts.
THEOREM CIDsDiffer == SubscriptionsSpec => []CIDsUnique
<1>1. SubscriptionInv => CIDInv
  BY Zenon DEF SubscriptionInv
<1>2. CIDInv => CIDsUnique
  BY Zenon DEF CIDInv
<1> QED BY CIDStarts, CIDStep, <1>1, <1>2, PTL DEF SubscriptionsSpec

\* A step that moves one VM and the channel of one CID.
Touches(v, c) ==
  /\ \A o \in Guest \ {v} :
       /\ step'[o] = step[o] /\ phase'[o] = phase[o] /\ cid'[o] = cid[o] /\ booted'[o] = booted[o]
       /\ reads'[o] = reads[o] /\ (o \in shared' <=> o \in shared)
  /\ \A d \in CID \ {c} : subs'[d] = subs[d]
  /\ \/ subs'[c] = subs[c] /\ closed' = closed
     \/ subs[c] = NoChan /\ subs'[c] = channels + 1 /\ closed' = closed
     \/ subs'[c] = NoChan /\ closed' \subseteq closed \cup ({subs[c]} \ {NoChan})
  /\ \/ subs'[c] = subs[c]
     \/ c = cid[v]
     \/ c = booted[v].cid /\ step[v] \in {"starting", "moving"}
  /\ \/ step'[v] # "moving"
     \/ booted'[v].cid = cid[v]
     \/ step[v] = "moving" /\ booted'[v] = booted[v]

\* A step of v that touches no channel but that of the CID c, which is v's or
\* one that v is leaving, keeps the channels of the others.
LEMMA OthersHeard ==
  ASSUME SubscriptionInv, CIDInv', NEW v \in Guest, NEW o \in Guest, o # v, NEW c \in CID, Touches(v, c)
  PROVE  HoldsChannel(o)'
<1>0. /\ step'[o] = step[o] /\ phase'[o] = phase[o] /\ cid'[o] = cid[o] /\ booted'[o] = booted[o]
      /\ reads'[o] = reads[o] /\ (o \in shared' <=> o \in shared)
      /\ \A u \in Guest \ {v} : step'[u] = step[u] /\ booted'[u] = booted[u]
      /\ \A d \in CID \ {c} : subs'[d] = subs[d]
      /\ subs'[c] \in {subs[c], NoChan} \/ subs[c] = NoChan
      /\ \/ subs'[c] = subs[c]
         \/ c = cid[v]
         \/ c = booted[v].cid /\ step[v] \in {"starting", "moving"}
      /\ \/ step'[v] # "moving"
         \/ booted'[v].cid = cid[v]
         \/ step[v] = "moving" /\ booted'[v] = booted[v]
  BY Zenon DEF Touches
<1> SUFFICES ASSUME step[o] \in {"starting", "up"}, phase[o] = "boot", o \notin shared
             PROVE  /\ subs'[cid[o]] = reads[o] /\ reads[o] # NoChan
                    /\ \A u \in Guest \ {o} : step'[u] = "moving" => booted'[u].cid # cid[o]
  BY Zenon, <1>0 DEF HoldsChannel
<1>1. /\ subs[cid[o]] = reads[o] /\ reads[o] # NoChan
      /\ \A u \in Guest \ {o} : step[u] = "moving" => booted[u].cid # cid[o]
  BY Zenon DEF SubscriptionInv, HoldsChannel
<1>2. cid[o] \in CID /\ cid[o] # NoCID /\ cid[o] # MaxCID /\ cid[o] # cid[v]
  BY CIDNumbers DEF SubscriptionInv, CIDInv, CIDTypes, CIDRecorded, CIDsUnique
<1>3. subs'[cid[o]] = subs[cid[o]]
  <2>1. CASE c # cid[o]
    BY Zenon, <2>1, <1>0, <1>2
  <2>2. CASE c = cid[o]
    <3>1. step[v] = "starting" => booted[v].cid = cid[v]
      BY Zenon DEF SubscriptionInv, CIDInv, CIDRecorded
    <3> QED BY Zenon, <2>2, <3>1, <1>0, <1>1, <1>2
  <2> QED BY Zenon, <2>1, <2>2
<1>4. ASSUME NEW u \in Guest \ {o}, step'[u] = "moving" PROVE booted'[u].cid # cid[o]
  <2>1. CASE u = v
    <3>1. step[v] = "moving" => booted[v].cid # cid[o]
      BY Zenon, <1>1
    <3> QED BY Zenon, <1>0, <1>2, <1>4, <2>1, <3>1
  <2>2. CASE u # v
    <3>1. step'[u] = step[u] /\ booted'[u] = booted[u]
      BY Zenon, <1>0, <2>2
    <3> QED BY Zenon, <1>1, <1>4, <3>1
  <2> QED BY Zenon, <2>1, <2>2
<1> QED BY Zenon, <1>1, <1>3, <1>4

\* The channels stay apart when one is made, and when one is closed and its
\* CID forgotten.
LEMMA ChannelsApart ==
  ASSUME CIDTypes, ChannelsOpen, NEW c \in CID, \A d \in CID \ {c} : subs'[d] = subs[d],
         subs' \in [CID -> Nat],
         \/ subs'[c] = subs[c] /\ closed' = closed
         \/ subs'[c] = channels + 1 /\ closed' = closed
         \/ subs'[c] = NoChan /\ closed' \subseteq closed \cup ({subs[c]} \ {NoChan})
  PROVE  ChannelsOpen'
<1>1. channels \in Nat /\ subs \in [CID -> 0..channels] /\ closed \subseteq 1..channels
  BY Zenon DEF CIDTypes
<1>2. CASE subs'[c] = subs[c] /\ closed' = closed
  BY Zenon, <1>2 DEF ChannelsOpen
<1>3. CASE subs'[c] = channels + 1 /\ closed' = closed
  BY <1>1, <1>3, CIDNumbers DEF ChannelsOpen
<1>4. CASE subs'[c] = NoChan /\ closed' \subseteq closed \cup ({subs[c]} \ {NoChan})
  <2>1. \A d \in CID : subs'[d] \notin closed'
    <3> SUFFICES ASSUME NEW d \in CID, subs'[d] \in closed' PROVE FALSE
      BY Zenon
    <3>1. CASE d = c
      BY <1>1, <1>4, <3>1, CIDNumbers
    <3>2. CASE d # c
      BY Zenon, <1>1, <1>4, <3>2 DEF ChannelsOpen
    <3> QED BY Zenon, <3>1, <3>2
  <2>2. \A d, e \in CID : subs'[d] = subs'[e] /\ subs'[d] # NoChan => d = e
    BY Zenon, <1>4 DEF ChannelsOpen
  <2> QED BY Zenon, <2>1, <2>2 DEF ChannelsOpen
<1> QED BY Zenon, <1>2, <1>3, <1>4

\* Such a step keeps the channels when that VM holds its own after it.
LEMMA SubscriptionMove ==
  ASSUME SubscriptionInv, CIDInv', NEW v \in Guest, NEW c \in CID, Touches(v, c),
         cid'[v] # MaxCID, HoldsChannel(v)'
  PROVE  SubscriptionInv'
<1>1. CIDTypes /\ ChannelsOpen /\ CIDTypes'
  BY Zenon DEF SubscriptionInv, CIDInv
<1>2. subs' \in [CID -> Nat]
  BY <1>1 DEF CIDTypes
<1>3. ChannelsOpen'
  BY <1>1, <1>2, ChannelsApart, Zenon DEF Touches
<1>4. ASSUME NEW o \in Guest PROVE cid'[o] # MaxCID /\ HoldsChannel(o)'
  <2>1. CASE o = v
    BY Zenon, <2>1
  <2>2. CASE o # v
    <3>1. cid'[o] # MaxCID
      BY <2>2, Zenon DEF Touches, SubscriptionInv
    <3>2. HoldsChannel(o)'
      BY Zenon, <2>2, OthersHeard
    <3> QED BY Zenon, <3>1, <3>2
  <2> QED BY Zenon, <2>1, <2>2
<1> QED BY <1>3, <1>4, Zenon DEF SubscriptionInv

\* A step that leaves the channels alone.
Silent(v) ==
  /\ \A o \in Guest \ {v} :
       step'[o] = step[o] /\ phase'[o] = phase[o] /\ cid'[o] = cid[o] /\ booted'[o] = booted[o]
  /\ UNCHANGED <<subs, closed, reads, shared>>

\* A step without a channel keeps them when the VM needs none after it.
LEMMA SilentMove ==
  ASSUME SubscriptionInv, CIDInv', NEW v \in Guest, Silent(v), cid'[v] # MaxCID,
         \/ step'[v] \notin {"starting", "up", "moving"}
         \/ step'[v] = "moving" /\ booted'[v].cid = cid[v]
  PROVE  SubscriptionInv'
<1>1. Touches(v, MaxCID)
  BY Zenon DEF Touches, Silent
<1>2. HoldsChannel(v)'
  BY Zenon DEF HoldsChannel
<1> QED BY Zenon, <1>1, <1>2, CIDNumbers, SubscriptionMove

\* A new VM has a CID below the last resort.
LEMMA AllocateCIDHeard ==
  ASSUME Room, SubscriptionInv, NEW v \in Guest, AllocateCID(v)
  PROVE  SubscriptionInv'
<1>1. CIDInv /\ CIDInv' /\ CIDTypes
  BY AllocateCIDKeeps, Zenon DEF SubscriptionInv, CIDInv
<1>2. freeCIDFrom(CIDBase) # MaxCID
  BY Zenon, <1>1, RoomForCID, CIDAssumption
<1>3. Silent(v) /\ cid'[v] = freeCIDFrom(CIDBase) /\ step'[v] = "stopped"
  BY Zenon, <1>1 DEF AllocateCID, StepTo, CIDTypes, Silent
<1> QED BY Zenon, <1>1, <1>2, <1>3, SilentMove

\* A VM is deleted.
LEMMA DropVMHeard ==
  ASSUME SubscriptionInv, NEW v \in Guest, DropVM(v)
  PROVE  SubscriptionInv'
<1>1. CIDInv /\ CIDInv' /\ CIDTypes
  BY DropVMKeeps, Zenon DEF SubscriptionInv, CIDInv
<1>2. Silent(v) /\ cid'[v] = NoCID /\ step'[v] = "none"
  BY Zenon, <1>1 DEF DropVM, StepTo, CIDTypes, Silent
<1>3. NoCID # MaxCID
  BY Zenon, CIDNumbers
<1> QED BY Zenon, <1>1, <1>2, <1>3, SilentMove

\* QEMU exits.
LEMMA QEMUExitedHeard ==
  ASSUME SubscriptionInv, NEW v \in Guest, QEMUExited(v)
  PROVE  SubscriptionInv'
<1>1. CIDInv /\ CIDInv' /\ CIDTypes /\ cid[v] # MaxCID
  BY QEMUExitedKeeps, Zenon DEF SubscriptionInv, CIDInv
<1>2. Silent(v) /\ cid'[v] = cid[v] /\ step'[v] = "exited"
  BY Zenon, <1>1 DEF QEMUExited, StepTo, CIDTypes, Silent
<1> QED BY Zenon, <1>1, <1>2, SilentMove

\* Whoever subscribes to the CID of its record reads the channel of that CID.
LEMMA SubscribeHeard ==
  ASSUME SubscriptionInv, CIDInv', NEW v \in Guest, cid[v] \in CID, Subscribe(v, cid[v]),
         cid' = cid, phase' = phase, closed' = closed, step'[v] \in {"starting", "up"},
         \A o \in Guest \ {v} : step'[o] = step[o] /\ booted'[o] = booted[o]
  PROVE  SubscriptionInv'
<1>1. CIDTypes /\ cid[v] # MaxCID
  BY Zenon DEF SubscriptionInv, CIDInv
<1>2. /\ \A o \in Guest \ {v} : reads'[o] = reads[o] /\ (o \in shared' <=> o \in shared)
      /\ \A d \in CID \ {cid[v]} : subs'[d] = subs[d]
      /\ \/ subs' = subs
         \/ subs[cid[v]] = NoChan /\ subs'[cid[v]] = channels + 1
      /\ phase[v] = "boot" => subs'[cid[v]] = reads'[v] /\ reads'[v] # NoChan
      /\ phase[v] = "boot" /\ v \notin shared' =>
           \A o \in Guest \ {v} : step[o] = "moving" => booted[o].cid # cid[v]
  BY Zenon, <1>1, Subscribes
<1>3. Touches(v, cid[v])
  BY Zenon, <1>2 DEF Touches
<1>4. HoldsChannel(v)'
  BY Zenon, <1>2 DEF HoldsChannel
<1> QED BY Zenon, <1>1, <1>3, <1>4, SubscriptionMove

\* A boot ends up with the channel it subscribed.
LEMMA BootsHeard ==
  ASSUME SubscriptionInv, NEW v \in Guest, Boots(v)
  PROVE  SubscriptionInv'
<1>1. CIDInv /\ CIDInv' /\ CIDTypes
  BY BootsKeeps, Zenon DEF SubscriptionInv, CIDInv
<1>2. cid[v] \in CID
  BY <1>1, CIDNumbers DEF CIDInv, CIDTypes, CIDRecorded, Boots
<1>3. step'[v] = "starting" /\ \A o \in Guest \ {v} : step'[o] = step[o] /\ booted'[o] = booted[o]
  BY Zenon, <1>1 DEF Boots, CIDTypes
<1>4. Subscribe(v, cid[v]) /\ cid' = cid /\ phase' = phase /\ closed' = closed
  BY Zenon DEF Boots
<1> QED BY Zenon, <1>1, <1>2, <1>3, <1>4, SubscribeHeard

\* A VM that Load found has a channel again.
LEMMA ReattachCIDHeard ==
  ASSUME SubscriptionInv, NEW v \in Guest, ReattachCID(v)
  PROVE  SubscriptionInv'
<1>1. CIDInv /\ CIDInv' /\ CIDTypes /\ cid[v] # MaxCID
  BY ReattachCIDKeeps, Zenon DEF SubscriptionInv, CIDInv
<1>2. cid[v] \in CID /\ cid' = cid /\ closed' = closed
  BY <1>1, CIDNumbers DEF CIDInv, CIDTypes, CIDRecorded, ReattachCID
<1>3. CASE Subscribe(v, cid[v]) /\ StepTo(v, "up") /\ UNCHANGED <<phase, booted>>
  <2>1. step'[v] = "up" /\ \A o \in Guest \ {v} : step'[o] = step[o] /\ booted'[o] = booted[o]
    BY Zenon, <1>1, <1>3 DEF StepTo, CIDTypes
  <2> QED BY Zenon, <1>1, <1>2, <1>3, <2>1, SubscribeHeard
<1>4. CASE /\ StepTo(v, "stopped") /\ booted' = [booted EXCEPT ![v] = NotBooted]
           /\ phase' = [phase EXCEPT ![v] = NotInstalled(v)]
           /\ UNCHANGED <<subs, reads, channels, shared>>
  <2>1. Silent(v) /\ step'[v] = "stopped"
    BY Zenon, <1>1, <1>2, <1>4 DEF StepTo, CIDTypes, Silent
  <2> QED BY Zenon, <1>1, <1>2, <2>1, SilentMove
<1> QED BY <1>3, <1>4, Zenon DEF ReattachCID

\* Whoever unsubscribes drops the channel of a CID that is its own or that it
\* is leaving.
LEMMA UnsubscribeHeard ==
  ASSUME SubscriptionInv, CIDInv', NEW v \in Guest, NEW c \in CID, Unsubscribe(v, c),
         \/ c = cid[v]
         \/ c = booted[v].cid /\ step[v] \in {"starting", "moving"},
         cid'[v] # MaxCID, step'[v] \in {"stopped", "moved"},
         \A o \in Guest \ {v} :
           /\ step'[o] = step[o] /\ phase'[o] = phase[o] /\ cid'[o] = cid[o] /\ booted'[o] = booted[o]
           /\ reads'[o] = reads[o],
         shared' = shared
  PROVE  SubscriptionInv'
<1>1. CIDTypes
  BY Zenon DEF SubscriptionInv, CIDInv
<1>2. /\ \A d \in CID \ {c} : subs'[d] = subs[d]
      /\ \/ subs' = subs /\ closed' = closed
         \/ subs'[c] = NoChan /\ closed' \subseteq closed \cup ({subs[c]} \ {NoChan})
  BY Zenon, <1>1, Unsubscribes
<1>3. Touches(v, c)
  BY <1>2, Zenon DEF Touches
<1>4. HoldsChannel(v)'
  BY Zenon DEF HoldsChannel
<1> QED BY Zenon, <1>3, <1>4, SubscriptionMove

\* The channel that is given up is of no VM that reads.
LEMMA LeaveCIDHeard ==
  ASSUME SubscriptionInv, NEW v \in Guest, LeaveCID(v)
  PROVE  SubscriptionInv'
<1>1. CIDInv /\ CIDInv' /\ CIDTypes /\ cid[v] # MaxCID
  BY LeaveCIDKeeps, Zenon DEF SubscriptionInv, CIDInv
<1>2. booted[v].cid \in CID /\ Unsubscribe(v, booted[v].cid) /\ step[v] = "moving" /\ shared' = shared
  BY <1>1, CIDNumbers DEF CIDInv, CIDTypes, CIDRecorded, LeaveCID, Booted
<1>3. /\ step'[v] = "moved" /\ cid'[v] = cid[v]
      /\ \A o \in Guest \ {v} :
           /\ step'[o] = step[o] /\ phase'[o] = phase[o] /\ cid'[o] = cid[o] /\ booted'[o] = booted[o]
           /\ reads'[o] = reads[o]
  BY Zenon, <1>1 DEF LeaveCID, StepTo, CIDTypes
<1> QED BY Zenon, <1>1, <1>2, <1>3, UnsubscribeHeard

\* The watcher closes no channel but its own.
LEMMA UnsubscribeOnExitHeard ==
  ASSUME SubscriptionInv, NEW v \in Guest, UnsubscribeOnExit(v)
  PROVE  SubscriptionInv'
<1>1. CIDInv /\ CIDInv' /\ CIDTypes /\ cid[v] # MaxCID
  BY UnsubscribeOnExitKeeps, Zenon DEF SubscriptionInv, CIDInv
<1>2. cid[v] \in CID /\ Unsubscribe(v, cid[v]) /\ shared' = shared
  BY <1>1, CIDNumbers DEF CIDInv, CIDTypes, CIDRecorded, UnsubscribeOnExit
<1>3. /\ step'[v] = "stopped" /\ cid'[v] = cid[v]
      /\ \A o \in Guest \ {v} :
           /\ step'[o] = step[o] /\ phase'[o] = phase[o] /\ cid'[o] = cid[o] /\ booted'[o] = booted[o]
           /\ reads'[o] = reads[o]
  BY Zenon, <1>1 DEF UnsubscribeOnExit, StepTo, CIDTypes
<1> QED BY Zenon, <1>1, <1>2, <1>3, UnsubscribeHeard

\* QEMU runs, fails, or is tried with another CID.
LEMMA RunQEMUHeard ==
  ASSUME Room, SubscriptionInv, NEW v \in Guest, RunQEMU(v)
  PROVE  SubscriptionInv'
<1>1. CIDInv /\ CIDInv' /\ CIDTypes /\ cid[v] # MaxCID
  BY RunQEMUKeeps, Zenon DEF SubscriptionInv, CIDInv
<1>2. step[v] = "starting" /\ shared' = shared /\ booted[v].cid = cid[v] /\ cid[v] \in CID
  BY <1>1, RunQEMUIs, CIDNumbers DEF CIDInv, CIDTypes, CIDRecorded
<1>3. freeCIDFrom(booted[v].cid + 1) # MaxCID
  <2>1. cid[v] \in Nat
    BY Zenon, <1>2, CIDNumbers
  <2>2. booted[v].cid + 1 \in Nat
    BY <2>1, <1>2
  <2> QED BY Zenon, <2>2, <1>1, RoomForCID
<1>4. CASE step' = [step EXCEPT ![v] = "up"] /\ UNCHANGED <<phase, cid, booted, subs, closed, reads>>
  <2>1. Touches(v, MaxCID)
    BY Zenon, <1>1, <1>2, <1>4 DEF CIDTypes, Touches
  <2>2. HoldsChannel(v)'
    BY Zenon, <1>1, <1>2, <1>4 DEF CIDTypes, HoldsChannel, SubscriptionInv
  <2> QED BY Zenon, <1>1, <1>4, <2>1, <2>2, CIDNumbers, SubscriptionMove
<1>5. ASSUME NEW c \in CID, c = cid[v] \/ c = freeCIDFrom(booted[v].cid + 1), Leaves(v, c)
      PROVE  SubscriptionInv'
  <2>1. Silent(v) /\ cid'[v] = c /\ step'[v] = "moving" /\ booted'[v].cid = cid[v]
    BY Zenon, <1>1, <1>2, <1>5 DEF Leaves, CIDTypes, Silent
  <2> QED BY Zenon, <1>1, <1>3, <1>5, <2>1, SilentMove
<1>6. ASSUME NEW c \in CID, c = cid[v] \/ c = freeCIDFrom(booted[v].cid + 1), Fails(v, c)
      PROVE  SubscriptionInv'
  <2>1. /\ step'[v] = "stopped" /\ cid'[v] = c
        /\ \A o \in Guest \ {v} :
             /\ step'[o] = step[o] /\ phase'[o] = phase[o] /\ cid'[o] = cid[o] /\ booted'[o] = booted[o]
             /\ reads'[o] = reads[o]
    BY Zenon, <1>1, <1>6 DEF Fails, CIDTypes
  <2>2. Unsubscribe(v, cid[v])
    BY Zenon, <1>2, <1>6 DEF Fails
  <2> QED BY Zenon, <1>1, <1>2, <1>3, <1>6, <2>1, <2>2, UnsubscribeHeard
<1> QED BY Zenon, <1>4, <1>5, <1>6, <1>1, RunQEMUIs

\* vm-manager ends.
LEMMA ManagerEndsHeard ==
  ASSUME SubscriptionInv, ManagerEnds
  PROVE  SubscriptionInv'
<1>1. CIDInv' /\ ChannelsOpen' /\ \A v \in Guest : step'[v] \notin {"starting", "up"}
  BY ManagerEndsKeeps, Zenon DEF SubscriptionInv
<1>2. \A v \in Guest : cid'[v] # MaxCID
  BY Zenon DEF SubscriptionInv, ManagerEnds
<1> QED BY <1>1, <1>2, Zenon DEF SubscriptionInv, HoldsChannel

\* Nothing happens.
LEMMA StutterHeard ==
  ASSUME SubscriptionInv, (\E c \in CID : ForeignCID(c)) \/ UNCHANGED subscriptionVars
  PROVE  SubscriptionInv'
<1>1. UNCHANGED <<step, phase, cid, booted, subs, closed, reads, channels, shared>>
  BY Zenon DEF ForeignCID, subscriptionVars
<1>2. CIDInv'
  BY StutterKeeps, Zenon DEF SubscriptionInv
<1>3. ChannelsOpen' /\ \A v \in Guest : HoldsChannel(v)' /\ cid'[v] # MaxCID
  BY <1>1, Zenon DEF SubscriptionInv, ChannelsOpen, HoldsChannel
<1> QED BY <1>2, <1>3, Zenon DEF SubscriptionInv

\* Every step keeps the channels.
LEMMA SubscriptionStep ==
  ASSUME Room, SubscriptionInv, [SubscriptionsNext]_subscriptionVars
  PROVE  SubscriptionInv'
<1>1. ASSUME NEW v \in Guest, Boot(v) \/ JoinCID(v) PROVE SubscriptionInv'
  <2>1. Boots(v)
    BY <1>1, BootsIs, Zenon DEF SubscriptionInv
  <2> QED BY Zenon, <2>1, BootsHeard
<1> QED BY <1>1, AllocateCIDHeard, DropVMHeard, RunQEMUHeard, LeaveCIDHeard, QEMUExitedHeard,
           UnsubscribeOnExitHeard, ReattachCIDHeard, ManagerEndsHeard, StutterHeard, Zenon
        DEF SubscriptionsNext

\* With fewer VMs than CIDs (there are 2^32 - 5) a booted VM has the CID of its
\* record, and unless it subscribed beside a VM that was leaving that CID its
\* supervisor reads the open channel of it, through retries and restarts.
THEOREM BootedAreHeard ==
  ASSUME Room
  PROVE  SubscriptionsSpec => []SubscriptionHeld
<1>1. SubscriptionInv => SubscriptionHeld
  <2> SUFFICES ASSUME SubscriptionInv, NEW v \in Guest, step[v] = "up"
               PROVE  /\ booted[v].cid = cid[v]
                      /\ phase[v] = "boot" /\ v \notin shared =>
                           subs[cid[v]] = reads[v] /\ reads[v] \notin closed \cup {NoChan}
    BY Zenon DEF SubscriptionHeld
  <2>1. booted[v].cid = cid[v] /\ cid[v] \in CID
    BY Zenon, CIDNumbers DEF SubscriptionInv, CIDInv, CIDRecorded, CIDTypes
  <2>2. subs[cid[v]] \notin closed
    BY Zenon, <2>1 DEF SubscriptionInv, ChannelsOpen
  <2> QED BY Zenon, <2>1, <2>2 DEF SubscriptionInv, HoldsChannel
<1>2. SubscriptionInv /\ [SubscriptionsNext]_subscriptionVars => SubscriptionInv'
  BY Zenon, SubscriptionStep
<1> QED BY CIDStarts, <1>1, <1>2, PTL DEF SubscriptionsSpec
=============================================================================
