---------------------------- MODULE ServeProofs -----------------------------
(***************************************************************************)
(* The serve command for every number of processes, ports, failed starts   *)
(* and crashes, and the two surfaces of the API for every call.            *)
(***************************************************************************)
EXTENDS Serve, API, TLAPS

-----------------------------------------------------------------------------
(* Serve.                                                                  *)

\* The steps of a process from the listener to serving, and those of close.
Starting == {"write", "rename", "images", "lock", "load", "serving"}
Closing == {"closevm", "closenet", "closenotify"}

ServeTypes ==
  /\ hostEnv \in [vsock : BOOLEAN, flag : Port \cup {NoPort}, recorded : BOOLEAN]
  /\ serveAt \in [Manager -> {"off", "read", "listen"} \cup Starting \cup Closing]
  /\ want \in [Manager -> Port \cup {NoPort}] /\ listens \in [Manager -> Port \cup {NoPort}]
  /\ portFile \in Port \cup {NoPort} /\ portTmp \in Port \cup {NoPort}
  /\ bound \in [Port -> Manager \cup {NoManager}] /\ netUp \in [Manager -> BOOLEAN]
  /\ overlap \in BOOLEAN

\* What a process holds: its port, from bind to the last step of close, and
\* the network, from Load on.
HoldsOwn(m) ==
  /\ listens[m] # NoPort => bound[listens[m]] = m /\ serveAt[m] \in Starting \cup Closing
  /\ netUp[m] => serveAt[m] \in {"serving", "closevm", "closenet"}

\* Until two processes have been up at a time one is.
Alone ==
  ~overlap => \A m, o \in Manager : serveAt[m] # "off" /\ serveAt[o] # "off" => m = o

\* A recorded port stays recorded.
PortKept ==
  hostEnv.recorded => /\ portFile # NoPort /\ hostEnv.flag \in {NoPort, portFile}
                      /\ portTmp \in {NoPort, portFile}

\* A process asks for the port of the flag or the file and listens on no other;
\* the first one, which gets a port from the kernel, is about to record it.
Asks(m) ==
  /\ serveAt[m] = "listen" => want[m] = PortToBind
  /\ listens[m] # NoPort =>
       \/ listens[m] = PortToBind
       \/ PortToBind = NoPort /\ serveAt[m] \in {"write", "rename"}
  /\ serveAt[m] \in {"write", "rename"} => listens[m] # NoPort
  /\ serveAt[m] = "rename" /\ ~hostEnv.recorded => portTmp = listens[m]

\* While processes overlap only over a recorded port, a credential names the
\* port that is asked for.
PortSteady ==
  (overlap => hostEnv.recorded) =>
     credential \subseteq {PortToBind, NoPort} /\ \A m \in Manager : Asks(m)

\* With a recorded port, whoever gets past the listener has it until the last
\* step of close, and so is the only one who has the network.
PortGuards ==
  hostEnv.vsock /\ hostEnv.recorded /\ hostEnv.flag = NoPort =>
     \A m \in Manager :
        /\ serveAt[m] \in Starting \/ netUp[m] => listens[m] = portFile
        /\ serveAt[m] = "rename" => portTmp = portFile

\* The inductive invariant of the serve command.
ServeInv ==
  /\ ServeTypes /\ (\A m \in Manager : HoldsOwn(m)) /\ Alone /\ PortKept
  /\ PortSteady /\ PortGuards /\ NetworkServed

\* The host before the first process.
LEMMA ServeStarts == ServeInit => ServeInv
<1> SUFFICES ASSUME ServeInit PROVE ServeInv
  BY Zenon
<1> USE ServeAssumption, ManagerAssumption DEF ServeInit, NoCredential
<1>1. ServeTypes
  BY Zenon DEF ServeTypes
<1>2. \A m \in Manager : HoldsOwn(m)
  BY Zenon DEF HoldsOwn
<1>3. Alone /\ PortKept /\ PortGuards /\ NetworkServed
  BY Zenon DEF Alone, PortKept, PortGuards, Starting, NetworkServed
<1>4. PortSteady
  BY Zenon DEF PortSteady, Asks, PortToBind
<1> QED BY Zenon, <1>1, <1>2, <1>3, <1>4 DEF ServeInv

\* Of two processes that may have the network one is serving only if it is the
\* same: the lock of the host, or the recorded port, tells them apart.
LEMMA OneServes ==
  ASSUME ServeInv, NEW m \in Manager, NEW o \in Manager,
         overlap => hostEnv.vsock /\ hostEnv.recorded /\ hostEnv.flag = NoPort,
         serveAt[o] = "serving", serveAt[m] # "off", serveAt[m] \in Starting \/ netUp[m]
  PROVE  m = o
<1>1. CASE ~overlap
  BY Zenon, <1>1 DEF ServeInv, Alone
<1>2. CASE overlap
  <2>1. listens[m] = portFile /\ listens[o] = portFile /\ portFile # NoPort
    BY Zenon, <1>2 DEF ServeInv, PortGuards, PortKept, Starting
  <2>2. HoldsOwn(m) /\ HoldsOwn(o)
    BY Zenon DEF ServeInv
  <2> QED BY Zenon, <2>1, <2>2 DEF HoldsOwn
<1> QED BY Zenon, <1>1, <1>2

\* A step of one process leaves the others where they are, what was asked of
\* the host and the history.
Elsewhere(m) ==
  /\ hostEnv' = hostEnv /\ (overlap => overlap')
  /\ \A o \in Manager \ {m} : serveAt'[o] = serveAt[o]

\* The network stays with whoever serves it, unless a process that may have
\* the network takes or closes the socket.
LEMMA ServedStays ==
  ASSUME ServeInv, NEW m \in Manager, Elsewhere(m), serveAt'[m] = "serving" => netSock' = m,
         netSock' = netSock \/ (serveAt[m] # "off" /\ (serveAt[m] \in Starting \/ netUp[m]))
           \/ netSock = m
  PROVE  NetworkServed'
<1> SUFFICES ASSUME NEW o \in Manager, serveAt'[o] = "serving",
                    overlap' => hostEnv'.vsock /\ hostEnv'.recorded /\ hostEnv'.flag = NoPort
             PROVE  netSock' = o
  BY Zenon DEF NetworkServed
<1>1. CASE o = m
  BY Zenon, <1>1
<1>2. CASE o # m
  <2>1. serveAt[o] = "serving" /\ (overlap => hostEnv.vsock /\ hostEnv.recorded /\ hostEnv.flag = NoPort)
    BY Zenon, <1>2 DEF Elsewhere
  <2>2. netSock = o
    BY Zenon, <2>1 DEF ServeInv, NetworkServed
  <2>3. ~(serveAt[m] # "off" /\ (serveAt[m] \in Starting \/ netUp[m]))
    BY Zenon, <1>2, <2>1, OneServes
  <2> QED BY Zenon, <1>2, <2>2, <2>3
<1> QED BY Zenon, <1>1, <1>2

\* A step of a process that is past the listener, or that goes off: the ports
\* that are recorded and the credential stay, its own port stays or goes.
PassedBy(m) ==
  /\ Elsewhere(m) /\ overlap' = overlap /\ want' = want /\ portFile' = portFile /\ portTmp' = portTmp
  /\ credential' = credential
  /\ \A o \in Manager \ {m} : netUp'[o] = netUp[o] /\ listens'[o] = listens[o]
  /\ serveAt'[m] \notin {"listen", "write", "rename"}
  /\ listens'[m] = NoPort \/ (listens'[m] = listens[m] /\ serveAt[m] \notin {"write", "rename"})
  /\ serveAt'[m] \in Starting \/ netUp'[m] =>
        (serveAt[m] \in Starting \/ netUp[m]) /\ listens'[m] = listens[m]

\* Such a step changes nothing about the port that is asked for.
LEMMA PortsStay ==
  ASSUME ServeInv, NEW m \in Manager, PassedBy(m)
  PROVE  PortSteady' /\ PortGuards'
<1>1. PortToBind' = PortToBind
  BY Zenon DEF PassedBy, Elsewhere, PortToBind
<1>2. PortSteady'
  <2> SUFFICES ASSUME overlap => hostEnv.recorded, NEW o \in Manager
               PROVE  credential \subseteq {PortToBind, NoPort} /\ Asks(o)'
    BY Zenon, <1>1 DEF PortSteady, PassedBy, Elsewhere
  <2>1. credential \subseteq {PortToBind, NoPort} /\ Asks(o) /\ Asks(m)
    BY Zenon DEF ServeInv, PortSteady
  <2>2. CASE o = m
    BY Zenon, <1>1, <2>1, <2>2 DEF Asks, PassedBy
  <2>3. CASE o # m
    <3>1. /\ serveAt'[o] = serveAt[o] /\ want' = want /\ listens'[o] = listens[o] /\ portTmp' = portTmp
          /\ hostEnv' = hostEnv
      BY Zenon, <2>3 DEF PassedBy, Elsewhere
    <3> QED BY Zenon, <1>1, <2>1, <3>1 DEF Asks
  <2> QED BY Zenon, <2>1, <2>2, <2>3
<1>3. PortGuards'
  <2> SUFFICES ASSUME hostEnv.vsock /\ hostEnv.recorded /\ hostEnv.flag = NoPort, NEW o \in Manager
               PROVE  /\ serveAt'[o] \in Starting \/ netUp'[o] => listens'[o] = portFile
                      /\ serveAt'[o] = "rename" => portTmp = portFile
    BY Zenon DEF PortGuards, PassedBy, Elsewhere
  <2>1. CASE o = m
    BY Zenon, <2>1 DEF ServeInv, PortGuards, PassedBy
  <2>2. CASE o # m
    BY Zenon, <2>2 DEF ServeInv, PortGuards, PassedBy, Elsewhere
  <2> QED BY Zenon, <2>1, <2>2
<1> QED BY Zenon, <1>2, <1>3

\* A process starts.
LEMMA StartServeKept ==
  ASSUME ServeInv, NEW m \in Manager, StartServe(m)
  PROVE  ServeInv'
<1> USE ServeAssumption, ManagerAssumption DEF StartServe, ServeGoto
<1>0. overlap' \in BOOLEAN
  BY Zenon DEF ServeInv, ServeTypes
<1>1. ServeTypes'
  BY Zenon, <1>0 DEF ServeInv, ServeTypes, Starting, Closing
<1>2. (\A o \in Manager : HoldsOwn(o))'
  <2> SUFFICES ASSUME NEW o \in Manager PROVE HoldsOwn(o)'
    BY Zenon
  <2>1. ServeTypes /\ HoldsOwn(o) /\ HoldsOwn(m)
    BY Zenon DEF ServeInv
  <2>2. CASE o = m
    BY Zenon, <2>1, <2>2 DEF ServeTypes, HoldsOwn, Starting, Closing
  <2>3. CASE o # m
    BY Zenon, <2>1, <2>3 DEF ServeTypes, HoldsOwn
  <2> QED BY Zenon, <2>2, <2>3
<1>3. Alone'
  BY Zenon DEF ServeInv, ServeTypes, Alone
<1>4. PortKept'
  BY Zenon DEF ServeInv, ServeTypes, PortKept
<1>5. PortSteady'
  <2> SUFFICES ASSUME overlap' => hostEnv.recorded, NEW o \in Manager
               PROVE  (credential \subseteq {PortToBind, NoPort} /\ Asks(o))'
    BY Zenon DEF PortSteady
  <2>1. /\ credential \subseteq {PortToBind, NoPort} /\ Asks(o) /\ Asks(m) /\ ServeTypes
        /\ HoldsOwn(o) /\ HoldsOwn(m)
    BY Zenon DEF ServeInv, PortSteady
  <2>2. PortToBind' = PortToBind
    BY Zenon DEF PortToBind
  <2>3. CASE o = m
    BY Zenon, <2>1, <2>2, <2>3 DEF Asks, HoldsOwn, ServeTypes, Starting, Closing
  <2>4. CASE o # m
    BY Zenon, <2>1, <2>2, <2>4 DEF Asks, ServeTypes
  <2> QED BY Zenon, <2>3, <2>4
<1>6. PortGuards'
  <2> SUFFICES ASSUME hostEnv.vsock /\ hostEnv.recorded /\ hostEnv.flag = NoPort, NEW o \in Manager
               PROVE  /\ serveAt'[o] \in Starting \/ netUp'[o] => listens'[o] = portFile'
                      /\ serveAt'[o] = "rename" => portTmp' = portFile'
    BY Zenon DEF PortGuards
  <2>1. /\ serveAt[o] \in Starting \/ netUp[o] => listens[o] = portFile
        /\ serveAt[o] = "rename" => portTmp = portFile
        /\ serveAt[m] \in Starting \/ netUp[m] => listens[m] = portFile
        /\ serveAt[m] = "rename" => portTmp = portFile
        /\ portFile # NoPort /\ ServeTypes /\ HoldsOwn(m)
    BY Zenon DEF ServeInv, PortGuards, PortKept
  <2>2. CASE o = m
    BY Zenon, <2>1, <2>2 DEF HoldsOwn, ServeTypes, Starting, Closing
  <2>3. CASE o # m
    BY Zenon, <2>1, <2>3 DEF ServeTypes, Starting
  <2> QED BY Zenon, <2>2, <2>3
<1>7. NetworkServed'
  <2>1. Elsewhere(m) /\ serveAt'[m] # "serving" /\ netSock' = netSock
    BY Zenon DEF Elsewhere, ServeInv, ServeTypes
  <2> QED BY Zenon, <2>1, ServedStays
<1> QED BY Zenon, <1>1, <1>2, <1>3, <1>4, <1>5, <1>6, <1>7 DEF ServeInv

\* notifyPort reads the recorded port.
LEMMA ReadNotifyPortKept ==
  ASSUME ServeInv, NEW m \in Manager, ReadNotifyPort(m)
  PROVE  ServeInv'
<1> USE ServeAssumption, ManagerAssumption DEF ReadNotifyPort, ServeGoto
<1>1. ServeTypes'
  BY Zenon DEF ServeInv, ServeTypes, Starting, Closing, PortToBind
<1>2. (\A o \in Manager : HoldsOwn(o))'
  <2> SUFFICES ASSUME NEW o \in Manager PROVE HoldsOwn(o)'
    BY Zenon
  <2>1. ServeTypes /\ HoldsOwn(o) /\ HoldsOwn(m)
    BY Zenon DEF ServeInv
  <2>2. CASE o = m
    BY Zenon, <2>1, <2>2 DEF ServeTypes, HoldsOwn, Starting, Closing
  <2>3. CASE o # m
    BY Zenon, <2>1, <2>3 DEF ServeTypes, HoldsOwn
  <2> QED BY Zenon, <2>2, <2>3
<1>3. Alone'
  BY Zenon DEF ServeInv, ServeTypes, Alone
<1>4. PortKept'
  BY Zenon DEF ServeInv, ServeTypes, PortKept
<1>5. PortSteady'
  <2> SUFFICES ASSUME overlap' => hostEnv.recorded, NEW o \in Manager
               PROVE  (credential \subseteq {PortToBind, NoPort} /\ Asks(o))'
    BY Zenon DEF PortSteady
  <2>1. /\ credential \subseteq {PortToBind, NoPort} /\ Asks(o) /\ Asks(m) /\ ServeTypes
        /\ HoldsOwn(o) /\ HoldsOwn(m)
    BY Zenon DEF ServeInv, PortSteady
  <2>2. PortToBind' = PortToBind
    BY Zenon DEF PortToBind
  <2>3. CASE o = m
    BY Zenon, <2>1, <2>2, <2>3 DEF Asks, HoldsOwn, ServeTypes, Starting, Closing
  <2>4. CASE o # m
    BY Zenon, <2>1, <2>2, <2>4 DEF Asks, ServeTypes
  <2> QED BY Zenon, <2>3, <2>4
<1>6. PortGuards'
  <2> SUFFICES ASSUME hostEnv.vsock /\ hostEnv.recorded /\ hostEnv.flag = NoPort, NEW o \in Manager
               PROVE  /\ serveAt'[o] \in Starting \/ netUp'[o] => listens'[o] = portFile'
                      /\ serveAt'[o] = "rename" => portTmp' = portFile'
    BY Zenon DEF PortGuards
  <2>1. /\ serveAt[o] \in Starting \/ netUp[o] => listens[o] = portFile
        /\ serveAt[o] = "rename" => portTmp = portFile
        /\ serveAt[m] \in Starting \/ netUp[m] => listens[m] = portFile
        /\ serveAt[m] = "rename" => portTmp = portFile
        /\ portFile # NoPort /\ ServeTypes /\ HoldsOwn(m)
    BY Zenon DEF ServeInv, PortGuards, PortKept
  <2>2. CASE o = m
    BY Zenon, <2>1, <2>2 DEF HoldsOwn, ServeTypes, Starting, Closing
  <2>3. CASE o # m
    BY Zenon, <2>1, <2>3 DEF ServeTypes, Starting
  <2> QED BY Zenon, <2>2, <2>3
<1>7. NetworkServed'
  <2>1. Elsewhere(m) /\ serveAt'[m] # "serving" /\ netSock' = netSock
    BY Zenon DEF Elsewhere, ServeInv, ServeTypes
  <2> QED BY Zenon, <2>1, ServedStays
<1> QED BY Zenon, <1>1, <1>2, <1>3, <1>4, <1>5, <1>6, <1>7 DEF ServeInv

\* ListenNotify binds the port, or fails and ends the process.
LEMMA ListenNotifyKept ==
  ASSUME ServeInv, NEW m \in Manager, ListenNotify(m)
  PROVE  ServeInv'
<1> USE ServeAssumption, ManagerAssumption DEF ListenNotify, ServeGoto, Unbind
<1>1. ServeTypes'
  BY SMTT(30) DEF ServeInv, ServeTypes, Starting, Closing
<1>2. (\A o \in Manager : HoldsOwn(o))'
  <2> SUFFICES ASSUME NEW o \in Manager PROVE HoldsOwn(o)'
    BY Zenon
  <2>1. ServeTypes /\ HoldsOwn(o) /\ HoldsOwn(m)
    BY Zenon DEF ServeInv
  <2>2. CASE o = m
    BY <2>1, <2>2 DEF ServeTypes, HoldsOwn, Starting, Closing
  <2>3. CASE o # m
    <3>1. serveAt'[o] = serveAt[o] /\ netUp' = netUp /\ listens'[o] = listens[o]
      BY Zenon, <2>1, <2>3 DEF ServeTypes
    <3>2. listens[o] # NoPort => bound'[listens[o]] = o
      <4>1. CASE bound' = bound
        BY Zenon, <4>1, <2>1 DEF HoldsOwn
      <4>2. CASE bound' # bound
        <5>1. PICK p \in Port : bound[p] = NoManager /\ bound' = [bound EXCEPT ![p] = m]
          BY Zenon, <4>2
        <5> QED BY Zenon, <5>1, <2>1 DEF HoldsOwn, ServeTypes
      <4> QED BY Zenon, <4>1, <4>2
    <3> QED BY Zenon, <3>1, <3>2, <2>1 DEF HoldsOwn
  <2> QED BY Zenon, <2>2, <2>3
<1>3. Alone'
  BY Zenon DEF ServeInv, ServeTypes, Alone
<1>4. PortKept'
  BY Zenon DEF ServeInv, ServeTypes, PortKept
<1>5. PortSteady'
  <2> SUFFICES ASSUME overlap => hostEnv.recorded, NEW o \in Manager
               PROVE (credential \subseteq {PortToBind, NoPort} /\ Asks(o))'
    BY Zenon DEF PortSteady
  <2>1. ServeTypes /\ PortSteady /\ Alone /\ Asks(o) /\ Asks(m) /\ HoldsOwn(o) /\ HoldsOwn(m) /\ PortKept
    BY Zenon DEF ServeInv, PortSteady
  <2>2. PortToBind' = PortToBind /\ credential' = credential
    BY Zenon DEF PortToBind
  <2>3. CASE o = m
    <3>1. listens[m] = NoPort /\ want[m] = PortToBind
      BY Zenon, <2>1 DEF HoldsOwn, Asks, Starting, Closing
    <3>2. CASE bound' = bound /\ listens' = listens /\ serveAt'[m] \in {"closevm", "images"}
      BY Zenon, <3>1, <3>2, <2>1, <2>2, <2>3 DEF Asks, PortSteady
    <3>3. CASE \E p \in Port : /\ want[m] \in {NoPort, p} /\ listens'[m] = p
                               /\ serveAt'[m] = "write"
      BY Zenon, <3>1, <3>3, <2>1, <2>2, <2>3 DEF Asks, PortSteady, NoPort
    <3> QED BY Zenon, <3>2, <3>3, <2>1 DEF ServeTypes
  <2>4. CASE o # m
    <3>1. serveAt'[o] = serveAt[o] /\ listens'[o] = listens[o] /\ UNCHANGED <<want, portTmp, hostEnv>>
      BY Zenon, <2>1, <2>4 DEF ServeTypes
    <3>2. credential \subseteq {PortToBind, NoPort}
      BY Zenon, <2>1 DEF PortSteady
    <3> QED BY Zenon, <2>1, <2>2, <3>1, <3>2 DEF Asks
  <2> QED BY Zenon, <2>3, <2>4
<1>6. PortGuards'
  <2> SUFFICES ASSUME hostEnv.vsock /\ hostEnv.recorded /\ hostEnv.flag = NoPort, NEW o \in Manager
               PROVE  /\ serveAt'[o] \in Starting \/ netUp'[o] => listens'[o] = portFile
                      /\ serveAt'[o] = "rename" => portTmp = portFile
    BY Zenon DEF PortGuards
  <2>1. /\ serveAt[o] \in Starting \/ netUp[o] => listens[o] = portFile
        /\ serveAt[o] = "rename" => portTmp = portFile
        /\ portFile # NoPort /\ ServeTypes /\ HoldsOwn(m) /\ Asks(m)
    BY Zenon DEF ServeInv, PortGuards, PortKept, PortSteady
  <2>2. CASE o = m
    <3>1. want[m] = portFile /\ ~netUp[m] /\ netUp' = netUp
      BY Zenon, <2>1 DEF Asks, PortToBind, HoldsOwn
    <3>2. CASE serveAt'[m] = "closevm"
      BY Zenon, <2>2, <3>1, <3>2 DEF Starting
    <3>3. CASE \E p \in Port : /\ want[m] \in {NoPort, p} /\ listens'[m] = p
                               /\ serveAt'[m] = "write"
      BY Zenon, <2>1, <2>2, <3>1, <3>3
    <3> QED BY Zenon, <2>1, <3>1, <3>2, <3>3 DEF ServeTypes
  <2>3. CASE o # m
    BY Zenon, <2>1, <2>3 DEF ServeTypes
  <2> QED BY Zenon, <2>2, <2>3
<1>7. NetworkServed'
  <2>1. Elsewhere(m) /\ serveAt'[m] # "serving" /\ netSock' = netSock
    BY Zenon DEF Elsewhere, ServeInv, ServeTypes
  <2> QED BY Zenon, <2>1, ServedStays
<1> QED BY Zenon, <1>1, <1>2, <1>3, <1>4, <1>5, <1>6, <1>7 DEF ServeInv

\* The port goes to the temporary file.
LEMMA WriteNotifyPortKept ==
  ASSUME ServeInv, NEW m \in Manager, WriteNotifyPort(m)
  PROVE  ServeInv'
<1> USE ServeAssumption, ManagerAssumption DEF WriteNotifyPort, ServeGoto
<1>1. ServeTypes'
  BY Zenon DEF ServeInv, ServeTypes, Starting, Closing
<1>2. (\A o \in Manager : HoldsOwn(o))'
  <2> SUFFICES ASSUME NEW o \in Manager PROVE HoldsOwn(o)'
    BY Zenon
  <2>1. ServeTypes /\ HoldsOwn(o) /\ HoldsOwn(m)
    BY Zenon DEF ServeInv
  <2>2. CASE o = m
    BY Zenon, <2>1, <2>2 DEF ServeTypes, HoldsOwn, Starting, Closing
  <2>3. CASE o # m
    BY Zenon, <2>1, <2>3 DEF ServeTypes, HoldsOwn
  <2> QED BY Zenon, <2>2, <2>3
<1>3. Alone'
  BY Zenon DEF ServeInv, ServeTypes, Alone
<1>4. PortKept'
  BY Zenon DEF ServeInv, ServeTypes, PortKept, PortSteady, Asks, PortToBind
<1>5. PortSteady'
  <2> SUFFICES ASSUME overlap' => hostEnv.recorded, NEW o \in Manager
               PROVE  (credential \subseteq {PortToBind, NoPort} /\ Asks(o))'
    BY Zenon DEF PortSteady
  <2>1. /\ credential \subseteq {PortToBind, NoPort} /\ Asks(o) /\ Asks(m) /\ ServeTypes
        /\ HoldsOwn(o) /\ HoldsOwn(m)
    BY Zenon DEF ServeInv, PortSteady
  <2>2. PortToBind' = PortToBind
    BY Zenon DEF PortToBind
  <2>3. CASE o = m
    BY Zenon, <2>1, <2>2, <2>3 DEF Asks, HoldsOwn, ServeTypes, Starting, Closing
  <2>4. CASE o # m
    <3>1. serveAt'[o] = serveAt[o] /\ want' = want /\ listens' = listens
      BY Zenon, <2>1, <2>4 DEF ServeTypes
    <3>2. serveAt[o] = "rename" => hostEnv.recorded
      BY Zenon, <2>4 DEF ServeInv, Alone
    <3> QED BY Zenon, <2>1, <2>2, <3>1, <3>2 DEF Asks
  <2> QED BY Zenon, <2>3, <2>4
<1>6. PortGuards'
  <2> SUFFICES ASSUME hostEnv.vsock /\ hostEnv.recorded /\ hostEnv.flag = NoPort, NEW o \in Manager
               PROVE  /\ serveAt'[o] \in Starting \/ netUp'[o] => listens'[o] = portFile'
                      /\ serveAt'[o] = "rename" => portTmp' = portFile'
    BY Zenon DEF PortGuards
  <2>1. /\ serveAt[o] \in Starting \/ netUp[o] => listens[o] = portFile
        /\ serveAt[o] = "rename" => portTmp = portFile
        /\ serveAt[m] \in Starting \/ netUp[m] => listens[m] = portFile
        /\ serveAt[m] = "rename" => portTmp = portFile
        /\ portFile # NoPort /\ ServeTypes /\ HoldsOwn(m)
    BY Zenon DEF ServeInv, PortGuards, PortKept
  <2>2. CASE o = m
    BY Zenon, <2>1, <2>2 DEF HoldsOwn, ServeTypes, Starting, Closing
  <2>3. CASE o # m
    BY Zenon, <2>1, <2>3 DEF ServeTypes, Starting
  <2> QED BY Zenon, <2>2, <2>3
<1>7. NetworkServed'
  <2>1. Elsewhere(m) /\ serveAt'[m] # "serving" /\ netSock' = netSock
    BY Zenon DEF Elsewhere, ServeInv, ServeTypes
  <2> QED BY Zenon, <2>1, ServedStays
<1> QED BY Zenon, <1>1, <1>2, <1>3, <1>4, <1>5, <1>6, <1>7 DEF ServeInv

\* A process that lets go of its port leaves the ports of the others.
LEMMA UnbindKeeps ==
  ASSUME ServeTypes, NEW m \in Manager, Unbind(m), NEW o \in Manager, o # m, HoldsOwn(o)
  PROVE  listens'[o] = listens[o] /\ (listens[o] # NoPort => bound'[listens[o]] = o)
BY Zenon, ServeAssumption DEF Unbind, ServeTypes, HoldsOwn

\* The rename records the port, or fails and ends the process.
LEMMA RenameNotifyPortKept ==
  ASSUME ServeInv, NEW m \in Manager, RenameNotifyPort(m)
  PROVE  ServeInv'
<1> USE ServeAssumption, ManagerAssumption DEF RenameNotifyPort, ServeGoto, Unbind
<1>1. ServeTypes'
  BY SMTT(30) DEF ServeInv, ServeTypes, Starting, Closing
<1>2. (\A o \in Manager : HoldsOwn(o))'
  <2> SUFFICES ASSUME NEW o \in Manager PROVE HoldsOwn(o)'
    BY Zenon
  <2>1. ServeTypes /\ HoldsOwn(o) /\ HoldsOwn(m)
    BY Zenon DEF ServeInv
  <2>2. CASE o = m
    BY Zenon, <2>1, <2>2 DEF ServeTypes, HoldsOwn, Starting, Closing
  <2>3. CASE o # m
    <3>1. serveAt'[o] = serveAt[o] /\ netUp' = netUp
      BY Zenon, <2>1, <2>3 DEF ServeTypes
    <3>2. listens'[o] = listens[o] /\ (listens[o] # NoPort => bound'[listens[o]] = o)
      <4>1. CASE portTmp # NoPort
        BY Zenon, <4>1, <2>1 DEF HoldsOwn
      <4>2. CASE portTmp = NoPort
        <5>1. Unbind(m)
          BY Zenon, <4>2 DEF RenameNotifyPort
        <5> QED BY Zenon, <5>1, <2>1, <2>3, UnbindKeeps
      <4> QED BY Zenon, <4>1, <4>2
    <3> QED BY Zenon, <3>1, <3>2, <2>1 DEF HoldsOwn
  <2> QED BY Zenon, <2>2, <2>3
<1>3. Alone'
  BY Zenon DEF ServeInv, ServeTypes, Alone
<1>4. PortKept'
  BY Zenon DEF ServeInv, ServeTypes, PortKept
<1>5. PortSteady'
  <2> SUFFICES ASSUME overlap => hostEnv.recorded, NEW o \in Manager
               PROVE  (credential \subseteq {PortToBind, NoPort} /\ Asks(o))'
    BY Zenon DEF PortSteady
  <2>1. /\ credential \subseteq {PortToBind, NoPort} /\ Asks(o) /\ Asks(m) /\ ServeTypes
        /\ HoldsOwn(o) /\ HoldsOwn(m)
    BY Zenon DEF ServeInv, PortSteady
  <2>2. o # m => serveAt'[o] = serveAt[o] /\ listens'[o] = listens[o] /\ want'[o] = want[o]
    BY Zenon, <2>1 DEF ServeTypes
  <2>3. serveAt'[m] = "images" /\ listens'[m] \in {listens[m], NoPort} /\ credential' = credential
    BY Zenon, <2>1 DEF ServeTypes
  <2>4. CASE hostEnv.recorded
    <3>1. PortToBind' = PortToBind /\ hostEnv' = hostEnv /\ PortToBind # NoPort
      BY Zenon, <2>4 DEF PortToBind, ServeInv, PortKept
    <3>2. CASE o = m
      BY Zenon, <2>1, <2>3, <3>1, <3>2 DEF Asks
    <3>3. CASE o # m
      BY Zenon, <2>1, <2>2, <2>3, <2>4, <3>1, <3>3 DEF Asks
    <3> QED BY Zenon, <3>2, <3>3
  <2>5. CASE ~hostEnv.recorded
    <3>1. portTmp = listens[m] /\ listens[m] # NoPort /\ listens' = listens /\ portFile' = listens[m]
      BY Zenon, <2>1, <2>5 DEF Asks
    <3>2. PortToBind' = listens[m]
      BY Zenon, <2>1, <3>1 DEF Asks, PortToBind
    <3>3. credential' \subseteq {PortToBind', NoPort}
      BY Zenon, <2>1, <2>3, <3>2 DEF Asks
    <3>4. CASE o = m
      BY Zenon, <2>3, <3>1, <3>2, <3>3, <3>4 DEF Asks
    <3>5. CASE o # m
      <4>1. serveAt[o] = "off"
        BY Zenon, <2>5, <3>5 DEF ServeInv, Alone
      <4>2. listens[o] = NoPort
        BY Zenon, <2>1, <4>1 DEF HoldsOwn, Starting, Closing
      <4> QED BY Zenon, <2>2, <3>3, <3>5, <4>1, <4>2 DEF Asks
    <3> QED BY Zenon, <3>4, <3>5
  <2> QED BY Zenon, <2>4, <2>5
<1>6. PortGuards'
  <2> SUFFICES ASSUME hostEnv.vsock /\ hostEnv.recorded /\ hostEnv.flag = NoPort, NEW o \in Manager
               PROVE  /\ serveAt'[o] \in Starting \/ netUp'[o] => listens'[o] = portFile'
                      /\ serveAt'[o] = "rename" => portTmp' = portFile'
    BY Zenon DEF PortGuards
  <2>1. ServeTypes /\ PortGuards /\ PortKept
    BY Zenon DEF ServeInv
  <2>2. portTmp = portFile /\ portFile # NoPort
    BY Zenon, <2>1 DEF PortGuards, PortKept
  <2>3. portFile' = portFile /\ listens' = listens /\ netUp' = netUp
    BY Zenon, <2>2
  <2>4. serveAt'[m] = "images" /\ (o # m => serveAt'[o] = serveAt[o])
    BY Zenon, <2>1 DEF ServeTypes
  <2>5. CASE o = m
    BY Zenon, <2>1, <2>3, <2>4, <2>5 DEF PortGuards, Starting
  <2>6. CASE o # m
    <3>1. listens[m] = portFile /\ HoldsOwn(m) /\ HoldsOwn(o)
      BY Zenon DEF ServeInv, PortGuards, Starting
    <3>2. serveAt[o] \in Starting \/ netUp[o] => listens[o] = portFile
      BY Zenon, <2>1 DEF PortGuards
    <3>3. listens[o] # portFile
      BY Zenon, <2>2, <2>6, <3>1 DEF HoldsOwn
    <3>4. serveAt[o] # "rename"
      BY Zenon, <3>2, <3>3 DEF Starting
    <3> QED BY Zenon, <2>3, <2>4, <2>6, <3>2, <3>4
  <2> QED BY Zenon, <2>5, <2>6
<1>7. NetworkServed'
  <2>1. Elsewhere(m) /\ serveAt'[m] # "serving" /\ netSock' = netSock
    BY Zenon DEF Elsewhere, ServeInv, ServeTypes
  <2> QED BY Zenon, <2>1, ServedStays
<1> QED BY Zenon, <1>1, <1>2, <1>3, <1>4, <1>5, <1>6, <1>7 DEF ServeInv

\* The image store loads, or fails and ends the process.
LEMMA LoadImagesKept ==
  ASSUME ServeInv, NEW m \in Manager, LoadImages(m)
  PROVE  ServeInv'
<1> USE ServeAssumption, ManagerAssumption DEF LoadImages, ServeGoto
<1>1. ServeTypes'
  BY Zenon DEF ServeInv, ServeTypes, Starting, Closing
<1>2. (\A o \in Manager : HoldsOwn(o))'
  <2> SUFFICES ASSUME NEW o \in Manager PROVE HoldsOwn(o)'
    BY Zenon
  <2>1. ServeTypes /\ HoldsOwn(o) /\ HoldsOwn(m)
    BY Zenon DEF ServeInv
  <2>2. CASE o = m
    BY Zenon, <2>1, <2>2 DEF ServeTypes, HoldsOwn, Starting, Closing
  <2>3. CASE o # m
    BY Zenon, <2>1, <2>3 DEF ServeTypes, HoldsOwn
  <2> QED BY Zenon, <2>2, <2>3
<1>3. Alone'
  BY Zenon DEF ServeInv, ServeTypes, Alone
<1>4. PortKept'
  BY Zenon DEF ServeInv, ServeTypes, PortKept
<1>5. PassedBy(m)
  <2>1. /\ serveAt'[m] \in {"lock", "closevm"} /\ listens' = listens
        /\ hostEnv' = hostEnv /\ overlap' = overlap /\ want' = want /\ portFile' = portFile
        /\ portTmp' = portTmp /\ credential' = credential
    BY Zenon DEF ServeInv, ServeTypes
  <2>2. \A o \in Manager \ {m} : /\ serveAt'[o] = serveAt[o] /\ netUp'[o] = netUp[o]
                                 /\ listens'[o] = listens[o]
    BY Zenon DEF ServeInv, ServeTypes
  <2>3. serveAt[m] \in Starting
    BY Zenon DEF Starting
  <2>4. serveAt[m] \notin {"write", "rename"}
    BY Zenon
  <2>5. serveAt'[m] \notin {"listen", "write", "rename"}
    BY Zenon, <2>1
  <2>6. Elsewhere(m)
    BY Zenon DEF Elsewhere, ServeInv, ServeTypes
  <2> HIDE DEF LoadImages, ServeGoto
  <2> QED BY Zenon, <2>1, <2>2, <2>3, <2>4, <2>5, <2>6 DEF PassedBy
<1>6. PortSteady' /\ PortGuards'
  BY Zenon, <1>5, PortsStay
<1>7. NetworkServed'
  BY Zenon, <1>5, ServedStays DEF PassedBy, ServeInv, ServeTypes, Starting
<1> QED BY Zenon, <1>1, <1>2, <1>3, <1>4, <1>5, <1>6, <1>7 DEF ServeInv

\* The state directory is locked, or held by another process.
LEMMA LockStateDirKept ==
  ASSUME ServeInv, NEW m \in Manager, LockStateDir(m)
  PROVE  ServeInv'
<1> USE ServeAssumption, ManagerAssumption DEF LockStateDir, ServeGoto, StateDirFree
<1>1. ServeTypes'
  BY Zenon DEF ServeInv, ServeTypes, Starting, Closing
<1>2. (\A o \in Manager : HoldsOwn(o))'
  <2> SUFFICES ASSUME NEW o \in Manager PROVE HoldsOwn(o)'
    BY Zenon
  <2>1. ServeTypes /\ HoldsOwn(o) /\ HoldsOwn(m)
    BY Zenon DEF ServeInv
  <2>2. CASE o = m
    BY Zenon, <2>1, <2>2 DEF ServeTypes, HoldsOwn, Starting, Closing
  <2>3. CASE o # m
    BY Zenon, <2>1, <2>3 DEF ServeTypes, HoldsOwn
  <2> QED BY Zenon, <2>2, <2>3
<1>3. Alone'
  BY Zenon DEF ServeInv, ServeTypes, Alone
<1>4. PortKept'
  BY Zenon DEF ServeInv, ServeTypes, PortKept
<1>5. PassedBy(m)
  <2>1. /\ serveAt'[m] \in {"load", "closevm"} /\ listens' = listens
        /\ hostEnv' = hostEnv /\ overlap' = overlap /\ want' = want /\ portFile' = portFile
        /\ portTmp' = portTmp /\ credential' = credential
    BY Zenon DEF ServeInv, ServeTypes
  <2>2. \A o \in Manager \ {m} : /\ serveAt'[o] = serveAt[o] /\ netUp'[o] = netUp[o]
                                 /\ listens'[o] = listens[o]
    BY Zenon DEF ServeInv, ServeTypes
  <2>3. serveAt[m] \in Starting
    BY Zenon DEF Starting
  <2>4. serveAt[m] \notin {"write", "rename"}
    BY Zenon
  <2>5. serveAt'[m] \notin {"listen", "write", "rename"}
    BY Zenon, <2>1
  <2>6. Elsewhere(m)
    BY Zenon DEF Elsewhere, ServeInv, ServeTypes
  <2> HIDE DEF LockStateDir, ServeGoto, StateDirFree
  <2> QED BY Zenon, <2>1, <2>2, <2>3, <2>4, <2>5, <2>6 DEF PassedBy
<1>6. PortSteady' /\ PortGuards'
  BY Zenon, <1>5, PortsStay
<1>7. NetworkServed'
  BY Zenon, <1>5, ServedStays DEF PassedBy, ServeInv, ServeTypes, Starting
<1> QED BY Zenon, <1>1, <1>2, <1>3, <1>4, <1>5, <1>6, <1>7 DEF ServeInv

\* Load brings the network up.
LEMMA LoadServiceKept ==
  ASSUME ServeInv, NEW m \in Manager, LoadService(m)
  PROVE  ServeInv'
<1> USE ServeAssumption, ManagerAssumption DEF LoadService, ServeGoto
<1>1. ServeTypes'
  BY Zenon DEF ServeInv, ServeTypes, Starting, Closing
<1>2. (\A o \in Manager : HoldsOwn(o))'
  <2> SUFFICES ASSUME NEW o \in Manager PROVE HoldsOwn(o)'
    BY Zenon
  <2>1. ServeTypes /\ HoldsOwn(o) /\ HoldsOwn(m)
    BY Zenon DEF ServeInv
  <2>2. CASE o = m
    BY Zenon, <2>1, <2>2 DEF ServeTypes, HoldsOwn, Starting, Closing
  <2>3. CASE o # m
    BY Zenon, <2>1, <2>3 DEF ServeTypes, HoldsOwn
  <2> QED BY Zenon, <2>2, <2>3
<1>3. Alone'
  BY Zenon DEF ServeInv, ServeTypes, Alone
<1>4. PortKept'
  BY Zenon DEF ServeInv, ServeTypes, PortKept
<1>5. PassedBy(m)
  <2>1. /\ serveAt'[m] \in {"serving", "closevm"} /\ listens' = listens
        /\ hostEnv' = hostEnv /\ overlap' = overlap /\ want' = want /\ portFile' = portFile
        /\ portTmp' = portTmp /\ credential' = credential
    BY Zenon DEF ServeInv, ServeTypes
  <2>2. \A o \in Manager \ {m} : /\ serveAt'[o] = serveAt[o] /\ netUp'[o] = netUp[o]
                                 /\ listens'[o] = listens[o]
    BY Zenon DEF ServeInv, ServeTypes
  <2>3. serveAt[m] \in Starting
    BY Zenon DEF Starting
  <2>4. serveAt[m] \notin {"write", "rename"}
    BY Zenon
  <2>5. serveAt'[m] \notin {"listen", "write", "rename"}
    BY Zenon, <2>1
  <2>6. Elsewhere(m)
    BY Zenon DEF Elsewhere, ServeInv, ServeTypes
  <2> HIDE DEF LoadService, ServeGoto
  <2> QED BY Zenon, <2>1, <2>2, <2>3, <2>4, <2>5, <2>6 DEF PassedBy
<1>6. PortSteady' /\ PortGuards'
  BY Zenon, <1>5, PortsStay
<1>7. NetworkServed'
  BY Zenon, <1>5, ServedStays DEF PassedBy, ServeInv, ServeTypes, Starting
<1> QED BY Zenon, <1>1, <1>2, <1>3, <1>4, <1>5, <1>6, <1>7 DEF ServeInv

\* A VM boots with the port in its credential.
LEMMA BootVMKept ==
  ASSUME ServeInv, NEW m \in Manager, BootVM(m)
  PROVE  ServeInv'
<1> USE ServeAssumption, ManagerAssumption DEF BootVM, ServeGoto, NoCredential
<1>1. ServeTypes'
  BY Zenon DEF ServeInv, ServeTypes, Starting, Closing
<1>2. (\A o \in Manager : HoldsOwn(o))'
  BY Zenon DEF ServeInv, ServeTypes, HoldsOwn, Starting, Closing
<1>3. Alone'
  BY Zenon DEF ServeInv, ServeTypes, Alone
<1>4. PortKept'
  BY Zenon DEF ServeInv, ServeTypes, PortKept
<1>5. PortSteady'
  BY Zenon DEF ServeInv, ServeTypes, PortSteady, Asks, PortToBind, HoldsOwn, Alone, PortKept
<1>6. PortGuards'
  BY Zenon DEF ServeInv, ServeTypes, PortGuards, HoldsOwn, PortKept, PortSteady, Asks, PortToBind, Starting, Closing
<1>7. NetworkServed'
  BY Zenon DEF ServeInv, ServeTypes, NetworkServed, HoldsOwn, Alone, PortKept, PortGuards, Starting
<1> QED BY Zenon, <1>1, <1>2, <1>3, <1>4, <1>5, <1>6, <1>7 DEF ServeInv

\* run returns and close begins.
LEMMA RunReturnsKept ==
  ASSUME ServeInv, NEW m \in Manager, RunReturns(m)
  PROVE  ServeInv'
<1> USE ServeAssumption, ManagerAssumption DEF RunReturns, ServeGoto
<1>1. ServeTypes'
  BY Zenon DEF ServeInv, ServeTypes, Starting, Closing
<1>2. (\A o \in Manager : HoldsOwn(o))'
  <2> SUFFICES ASSUME NEW o \in Manager PROVE HoldsOwn(o)'
    BY Zenon
  <2>1. ServeTypes /\ HoldsOwn(o) /\ HoldsOwn(m)
    BY Zenon DEF ServeInv
  <2>2. CASE o = m
    BY Zenon, <2>1, <2>2 DEF ServeTypes, HoldsOwn, Starting, Closing
  <2>3. CASE o # m
    BY Zenon, <2>1, <2>3 DEF ServeTypes, HoldsOwn
  <2> QED BY Zenon, <2>2, <2>3
<1>3. Alone'
  BY Zenon DEF ServeInv, ServeTypes, Alone
<1>4. PortKept'
  BY Zenon DEF ServeInv, ServeTypes, PortKept
<1>5. PassedBy(m)
  <2>1. /\ serveAt'[m] = "closevm" /\ listens' = listens
        /\ hostEnv' = hostEnv /\ overlap' = overlap /\ want' = want /\ portFile' = portFile
        /\ portTmp' = portTmp /\ credential' = credential
    BY Zenon DEF ServeInv, ServeTypes
  <2>2. \A o \in Manager \ {m} : /\ serveAt'[o] = serveAt[o] /\ netUp'[o] = netUp[o]
                                 /\ listens'[o] = listens[o]
    BY Zenon DEF ServeInv, ServeTypes
  <2>3. serveAt[m] \in Starting
    BY Zenon DEF Starting
  <2>4. serveAt[m] \notin {"write", "rename"}
    BY Zenon
  <2>5. serveAt'[m] \notin {"listen", "write", "rename"}
    BY Zenon, <2>1
  <2>6. Elsewhere(m)
    BY Zenon DEF Elsewhere, ServeInv, ServeTypes
  <2> HIDE DEF RunReturns, ServeGoto
  <2> QED BY Zenon, <2>1, <2>2, <2>3, <2>4, <2>5, <2>6 DEF PassedBy
<1>6. PortSteady' /\ PortGuards'
  BY Zenon, <1>5, PortsStay
<1>7. NetworkServed'
  BY Zenon, <1>5, ServedStays DEF PassedBy, ServeInv, ServeTypes, Starting
<1> QED BY Zenon, <1>1, <1>2, <1>3, <1>4, <1>5, <1>6, <1>7 DEF ServeInv

\* close lets go of the VMs.
LEMMA CloseVMKept ==
  ASSUME ServeInv, NEW m \in Manager, CloseVM(m)
  PROVE  ServeInv'
<1> USE ServeAssumption, ManagerAssumption DEF CloseVM, ServeGoto, CloseOrder
<1>1. ServeTypes'
  BY Zenon DEF ServeInv, ServeTypes, Starting, Closing
<1>2. (\A o \in Manager : HoldsOwn(o))'
  <2> SUFFICES ASSUME NEW o \in Manager PROVE HoldsOwn(o)'
    BY Zenon
  <2>1. ServeTypes /\ HoldsOwn(o) /\ HoldsOwn(m)
    BY Zenon DEF ServeInv
  <2>2. CASE o = m
    BY Zenon, <2>1, <2>2 DEF ServeTypes, HoldsOwn, Starting, Closing
  <2>3. CASE o # m
    BY Zenon, <2>1, <2>3 DEF ServeTypes, HoldsOwn
  <2> QED BY Zenon, <2>2, <2>3
<1>3. Alone'
  BY Zenon DEF ServeInv, ServeTypes, Alone
<1>4. PortKept'
  BY Zenon DEF ServeInv, ServeTypes, PortKept
<1>5. PassedBy(m)
  <2>1. /\ serveAt'[m] = "closenet" /\ listens' = listens
        /\ hostEnv' = hostEnv /\ overlap' = overlap /\ want' = want /\ portFile' = portFile
        /\ portTmp' = portTmp /\ credential' = credential
    BY Zenon DEF ServeInv, ServeTypes
  <2>2. \A o \in Manager \ {m} : /\ serveAt'[o] = serveAt[o] /\ netUp'[o] = netUp[o]
                                 /\ listens'[o] = listens[o]
    BY Zenon DEF ServeInv, ServeTypes
  <2>3. serveAt'[m] \notin Starting /\ (netUp'[m] => netUp[m])
    BY Zenon, <2>1 DEF ServeInv, ServeTypes, Starting
  <2>4. serveAt[m] \notin {"write", "rename"}
    BY Zenon
  <2>5. serveAt'[m] \notin {"listen", "write", "rename"}
    BY Zenon, <2>1
  <2>6. Elsewhere(m)
    BY Zenon DEF Elsewhere, ServeInv, ServeTypes
  <2> HIDE DEF CloseVM, ServeGoto, CloseOrder
  <2> QED BY Zenon, <2>1, <2>2, <2>3, <2>4, <2>5, <2>6 DEF PassedBy
<1>6. PortSteady' /\ PortGuards'
  BY Zenon, <1>5, PortsStay
<1>7. NetworkServed'
  BY Zenon, <1>5, ServedStays DEF PassedBy, ServeInv, ServeTypes, Starting
<1> QED BY Zenon, <1>1, <1>2, <1>3, <1>4, <1>5, <1>6, <1>7 DEF ServeInv

\* close takes the network down.
LEMMA CloseNetworksKept ==
  ASSUME ServeInv, NEW m \in Manager, CloseNetworks(m)
  PROVE  ServeInv'
<1> USE ServeAssumption, ManagerAssumption DEF CloseNetworks, ServeGoto, CloseOrder
<1>1. ServeTypes'
  BY Zenon DEF ServeInv, ServeTypes, Starting, Closing
<1>2. (\A o \in Manager : HoldsOwn(o))'
  <2> SUFFICES ASSUME NEW o \in Manager PROVE HoldsOwn(o)'
    BY Zenon
  <2>1. ServeTypes /\ HoldsOwn(o) /\ HoldsOwn(m)
    BY Zenon DEF ServeInv
  <2>2. CASE o = m
    BY Zenon, <2>1, <2>2 DEF ServeTypes, HoldsOwn, Starting, Closing
  <2>3. CASE o # m
    BY Zenon, <2>1, <2>3 DEF ServeTypes, HoldsOwn
  <2> QED BY Zenon, <2>2, <2>3
<1>3. Alone'
  BY Zenon DEF ServeInv, ServeTypes, Alone
<1>4. PortKept'
  BY Zenon DEF ServeInv, ServeTypes, PortKept
<1>5. PassedBy(m)
  <2>1. /\ serveAt'[m] = "closenotify" /\ listens' = listens
        /\ hostEnv' = hostEnv /\ overlap' = overlap /\ want' = want /\ portFile' = portFile
        /\ portTmp' = portTmp /\ credential' = credential
    BY Zenon DEF ServeInv, ServeTypes
  <2>2. \A o \in Manager \ {m} : /\ serveAt'[o] = serveAt[o] /\ netUp'[o] = netUp[o]
                                 /\ listens'[o] = listens[o]
    BY Zenon DEF ServeInv, ServeTypes
  <2>3. serveAt'[m] \notin Starting /\ (netUp'[m] => netUp[m])
    BY Zenon, <2>1 DEF ServeInv, ServeTypes, Starting
  <2>4. serveAt[m] \notin {"write", "rename"}
    BY Zenon
  <2>5. serveAt'[m] \notin {"listen", "write", "rename"}
    BY Zenon, <2>1
  <2>6. Elsewhere(m)
    BY Zenon DEF Elsewhere, ServeInv, ServeTypes
  <2> HIDE DEF CloseNetworks, ServeGoto, CloseOrder
  <2> QED BY Zenon, <2>1, <2>2, <2>3, <2>4, <2>5, <2>6 DEF PassedBy
<1>6. PortSteady' /\ PortGuards'
  BY Zenon, <1>5, PortsStay
<1>7. NetworkServed'
  BY Zenon, <1>5, ServedStays DEF PassedBy, ServeInv, ServeTypes, Starting
<1> QED BY Zenon, <1>1, <1>2, <1>3, <1>4, <1>5, <1>6, <1>7 DEF ServeInv

\* close ends the listener, last.
LEMMA CloseNotifyKept ==
  ASSUME ServeInv, NEW m \in Manager, CloseNotify(m)
  PROVE  ServeInv'
<1> USE ServeAssumption, ManagerAssumption DEF CloseNotify, ServeGoto, CloseOrder, Unbind
<1>1. ServeTypes'
  BY Zenon DEF ServeInv, ServeTypes, Starting, Closing
<1>2. (\A o \in Manager : HoldsOwn(o))'
  <2> SUFFICES ASSUME NEW o \in Manager PROVE HoldsOwn(o)'
    BY Zenon
  <2>1. ServeTypes /\ HoldsOwn(o) /\ HoldsOwn(m)
    BY Zenon DEF ServeInv
  <2>2. CASE o = m
    BY Zenon, <2>1, <2>2 DEF ServeTypes, HoldsOwn, Starting, Closing
  <2>3. CASE o # m
    <3>1. Unbind(m) /\ serveAt'[o] = serveAt[o] /\ netUp'[o] = netUp[o]
      BY Zenon, <2>1, <2>3 DEF ServeTypes
    <3>2. listens'[o] = listens[o] /\ (listens[o] # NoPort => bound'[listens[o]] = o)
      BY Zenon, <2>1, <2>3, <3>1, UnbindKeeps
    <3> QED BY Zenon, <2>1, <3>1, <3>2 DEF HoldsOwn
  <2> QED BY Zenon, <2>2, <2>3
<1>3. Alone'
  BY Zenon DEF ServeInv, ServeTypes, Alone
<1>4. PortKept'
  BY Zenon DEF ServeInv, ServeTypes, PortKept
<1>5. PassedBy(m)
  <2>1. /\ serveAt'[m] = "off" /\ listens'[m] = NoPort
        /\ hostEnv' = hostEnv /\ overlap' = overlap /\ want' = want /\ portFile' = portFile
        /\ portTmp' = portTmp /\ credential' = credential
    BY Zenon DEF ServeInv, ServeTypes
  <2>2. \A o \in Manager \ {m} : /\ serveAt'[o] = serveAt[o] /\ netUp'[o] = netUp[o]
                                 /\ listens'[o] = listens[o]
    BY Zenon DEF ServeInv, ServeTypes
  <2>3. serveAt'[m] \notin Starting /\ ~netUp'[m]
    BY Zenon, <2>1 DEF ServeInv, ServeTypes, HoldsOwn, Starting
  <2>5. serveAt'[m] \notin {"listen", "write", "rename"}
    BY Zenon, <2>1
  <2>6. Elsewhere(m)
    BY Zenon DEF Elsewhere, ServeInv, ServeTypes
  <2> HIDE DEF CloseNotify, ServeGoto, CloseOrder, Unbind
  <2> QED BY Zenon, <2>1, <2>2, <2>3, <2>5, <2>6 DEF PassedBy
<1>6. PortSteady' /\ PortGuards'
  BY Zenon, <1>5, PortsStay
<1>7. NetworkServed'
  BY Zenon, <1>5, ServedStays DEF PassedBy, ServeInv, ServeTypes, Starting
<1> QED BY Zenon, <1>1, <1>2, <1>3, <1>4, <1>5, <1>6, <1>7 DEF ServeInv

\* The process dies: the kernel unbinds its port.
LEMMA CrashServeKept ==
  ASSUME ServeInv, NEW m \in Manager, CrashServe(m)
  PROVE  ServeInv'
<1> USE ServeAssumption, ManagerAssumption DEF CrashServe, ServeGoto, Unbind
<1>1. ServeTypes'
  BY Zenon DEF ServeInv, ServeTypes, Starting, Closing
<1>2. (\A o \in Manager : HoldsOwn(o))'
  <2> SUFFICES ASSUME NEW o \in Manager PROVE HoldsOwn(o)'
    BY Zenon
  <2>1. ServeTypes /\ HoldsOwn(o) /\ HoldsOwn(m)
    BY Zenon DEF ServeInv
  <2>2. CASE o = m
    BY Zenon, <2>1, <2>2 DEF ServeTypes, HoldsOwn, Starting, Closing
  <2>3. CASE o # m
    <3>1. Unbind(m) /\ serveAt'[o] = serveAt[o] /\ netUp'[o] = netUp[o]
      BY Zenon, <2>1, <2>3 DEF ServeTypes
    <3>2. listens'[o] = listens[o] /\ (listens[o] # NoPort => bound'[listens[o]] = o)
      BY Zenon, <2>1, <2>3, <3>1, UnbindKeeps
    <3> QED BY Zenon, <2>1, <3>1, <3>2 DEF HoldsOwn
  <2> QED BY Zenon, <2>2, <2>3
<1>3. Alone'
  BY Zenon DEF ServeInv, ServeTypes, Alone
<1>4. PortKept'
  BY Zenon DEF ServeInv, ServeTypes, PortKept
<1>5. PassedBy(m)
  <2>1. /\ serveAt'[m] = "off" /\ listens'[m] = NoPort
        /\ hostEnv' = hostEnv /\ overlap' = overlap /\ want' = want /\ portFile' = portFile
        /\ portTmp' = portTmp /\ credential' = credential
    BY Zenon DEF ServeInv, ServeTypes
  <2>2. \A o \in Manager \ {m} : /\ serveAt'[o] = serveAt[o] /\ netUp'[o] = netUp[o]
                                 /\ listens'[o] = listens[o]
    BY Zenon DEF ServeInv, ServeTypes
  <2>3. serveAt'[m] \notin Starting /\ ~netUp'[m]
    BY Zenon, <2>1 DEF ServeInv, ServeTypes, HoldsOwn, Starting
  <2>5. serveAt'[m] \notin {"listen", "write", "rename"}
    BY Zenon, <2>1
  <2>6. Elsewhere(m)
    BY Zenon DEF Elsewhere, ServeInv, ServeTypes
  <2> HIDE DEF CrashServe, ServeGoto, Unbind
  <2> QED BY Zenon, <2>1, <2>2, <2>3, <2>5, <2>6 DEF PassedBy
<1>6. PortSteady' /\ PortGuards'
  BY Zenon, <1>5, PortsStay
<1>7. NetworkServed'
  BY Zenon, <1>5, ServedStays DEF PassedBy, ServeInv, ServeTypes, Starting
<1> QED BY Zenon, <1>1, <1>2, <1>3, <1>4, <1>5, <1>6, <1>7 DEF ServeInv

\* The VM ends, or nothing happens.
LEMMA VMEndsKept ==
  ASSUME ServeInv, VMEnds \/ UNCHANGED serveVars
  PROVE  ServeInv'
<1>1. /\ hostEnv' = hostEnv /\ serveAt' = serveAt /\ want' = want /\ listens' = listens
      /\ portFile' = portFile /\ portTmp' = portTmp /\ bound' = bound /\ netSock' = netSock
      /\ netUp' = netUp /\ overlap' = overlap /\ credential' \in {credential, {}}
  BY Zenon DEF VMEnds, serveVars, NoCredential
<1>2. ServeTypes' /\ Alone' /\ PortKept' /\ PortGuards' /\ NetworkServed'
  BY Zenon, <1>1 DEF ServeInv, ServeTypes, Alone, PortKept, PortGuards, NetworkServed
<1>3. (\A o \in Manager : HoldsOwn(o))'
  BY Zenon, <1>1 DEF ServeInv, HoldsOwn
<1>4. PortSteady'
  BY Zenon, <1>1 DEF ServeInv, PortSteady, Asks, PortToBind
<1> QED BY Zenon, <1>2, <1>3, <1>4 DEF ServeInv

\* Every step keeps the invariant.
LEMMA ServeStep == ServeInv /\ [ServeNext]_serveVars => ServeInv'
BY Zenon, VMEndsKept, StartServeKept, ReadNotifyPortKept, ListenNotifyKept, WriteNotifyPortKept,
   RenameNotifyPortKept, LoadImagesKept, LockStateDirKept, LoadServiceKept, BootVMKept,
   RunReturnsKept, CloseVMKept, CloseNetworksKept, CloseNotifyKept, CrashServeKept
   DEF ServeNext

\* The port in the credential of a running VM is the one its vm-manager
\* listens on, for any number of processes, ports, failed starts and crashes.
THEOREM ReattachedAreHeard == ServeSpec => []GuestsHeard
<1>1. ServeInv => GuestsHeard
  BY Zenon DEF ServeInv, PortSteady, Asks, GuestsHeard
<1> QED BY ServeStarts, ServeStep, <1>1, PTL DEF ServeSpec

\* Whoever serves the state directory listens at the socket path of the
\* network, for any number of processes that overlap over a recorded port.
THEOREM NetworkIsServed == ServeSpec => []NetworkServed
<1>1. ServeInv => NetworkServed
  BY Zenon DEF ServeInv
<1> QED BY ServeStarts, ServeStep, <1>1, PTL DEF ServeSpec

-----------------------------------------------------------------------------
(* The API.                                                                *)

\* What is being answered is a request with an outcome of its method.
Asked == requested \subseteq [request : Request, err : Outcome]

\* respond and errResult report an error under the same code.
LEMMA SameCode == ASSUME NEW op, NEW err PROVE respond(op, err)[2] = result(op, err)
<1>1. CASE err # "nil"
  BY Zenon, <1>1 DEF respond, result
<1>2. CASE err = "nil" /\ op \in {"create_network", "create_vm"}
  BY Zenon, <1>2, <<201, "">>[2] = "" DEF respond, result
<1>3. CASE /\ err = "nil" /\ op \notin {"create_network", "create_vm"}
           /\ op \in {"delete_network", "delete_vm"}
  BY Zenon, <1>3, <<204, "">>[2] = "" DEF respond, result
<1>4. CASE /\ err = "nil" /\ op \notin {"create_network", "create_vm"}
           /\ op \notin {"delete_network", "delete_vm"}
  BY Zenon, <1>4, <<200, "">>[2] = "" DEF respond, result
<1> QED BY Zenon, <1>1, <1>2, <1>3, <1>4

\* Arguments that a route binds and its tool does not are those of a forward
\* without a port, which the method refuses as well.
LEMMA RouteOnly ==
  ASSUME NEW q \in Request, NEW err, Bound(q), ~BindArguments(q)
  PROVE Method(q, err) = "Invalid"
<1>1. q.number \in {"absent", "zero", "some", "word"}
  BY Zenon DEF Request
<1>2. q.op = "forward_port" /\ q.number = "absent"
  BY Zenon, <1>1 DEF Bound, BindArguments, WithBody, Numbered
<1>3. Argument(q) = "zero"
  BY Zenon, <1>2 DEF Argument, Numbered
<1> QED BY Zenon, <1>2, <1>3 DEF Method

\* Arguments that only the tool binds have a field neither knows, or console
\* lines that are not a number.
LEMMA ToolOnly ==
  ASSUME NEW q \in Request, ~Bound(q), BindArguments(q)
  PROVE \/ q.op \in WithBody /\ q.fields = "unknown"
        \/ q.op = "get_vm_console" /\ q.number = "word"
<1>1. q.fields \in {"known", "unknown", "mistyped"}
  BY Zenon DEF Request
<1>2. CASE q.op \in WithBody /\ q.fields # "known"
  BY Zenon, <1>1, <1>2 DEF BindArguments
<1>3. CASE q.op \in Numbered /\ q.number = "word"
  BY Zenon, <1>3 DEF BindArguments, Numbered
<1> QED BY Zenon, <1>2, <1>3 DEF Bound

\* A route and its tool call the same method and report its error under the
\* same code, for every request and every outcome.
THEOREM SurfacesAgree == APISpec => []APIParity
<1>1. APIInit => Asked
  BY Zenon DEF APIInit, Asked
<1>2. Asked /\ [APINext]_requested => Asked'
  <2>1. ASSUME Asked, NEW q \in Request, NEW err \in Outcome, Ask(q, err) PROVE Asked'
    <3>1. [request |-> q, err |-> err] \in [request : Request, err : Outcome]
      BY Zenon
    <3> QED BY Zenon, <2>1, <3>1 DEF Asked, Ask
  <2>2. ASSUME Asked, Answered \/ requested' = requested PROVE Asked'
    BY Zenon, <2>2 DEF Asked, Answered
  <2> QED BY Zenon, <2>1, <2>2 DEF APINext
<1>3. ASSUME Asked PROVE APIParity
  <2> SUFFICES ASSUME NEW q \in Request, NEW err \in Outcome
               PROVE \/ /\ REST(q, err).answer[2] = MCP(q, err).answer
                        /\ \/ <<>> \in {REST(q, err).called, MCP(q, err).called}
                           \/ REST(q, err).called = MCP(q, err).called
                     \/ q.op \in WithBody /\ q.fields = "unknown" /\ REST(q, err).called = <<>>
                     \/ q.op = "get_vm_console" /\ q.number = "word" /\ REST(q, err).called = <<>>
    BY Zenon, <1>3 DEF Asked, APIParity
  <2>1. Bound(q) => /\ REST(q, err).called = <<q.op, Argument(q)>>
                    /\ REST(q, err).answer[2] = result(q.op, Method(q, err))
    BY Zenon, SameCode DEF REST
  <2>2. ~Bound(q) => REST(q, err).called = <<>> /\ REST(q, err).answer[2] = result(q.op, "Invalid")
    BY Zenon, SameCode DEF REST
  <2>3. BindArguments(q) => /\ MCP(q, err).called = <<q.op, Argument(q)>>
                            /\ MCP(q, err).answer = result(q.op, Method(q, err))
    BY Zenon DEF MCP
  <2>4. ~BindArguments(q) => MCP(q, err).called = <<>> /\ MCP(q, err).answer = result(q.op, "Invalid")
    BY Zenon DEF MCP
  <2>5. CASE Bound(q) /\ BindArguments(q)
    BY Zenon, <2>1, <2>3, <2>5
  <2>6. CASE Bound(q) /\ ~BindArguments(q)
    BY Zenon, <2>1, <2>4, <2>6, RouteOnly
  <2>7. CASE ~Bound(q) /\ BindArguments(q)
    BY Zenon, <2>2, <2>7, ToolOnly
  <2>8. CASE ~Bound(q) /\ ~BindArguments(q)
    BY Zenon, <2>2, <2>4, <2>8
  <2> QED BY Zenon, <2>5, <2>6, <2>7, <2>8
<1> QED BY <1>1, <1>2, <1>3, PTL DEF APISpec
=============================================================================
