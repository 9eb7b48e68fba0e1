---------------------------- MODULE MCChannels ------------------------------
(***************************************************************************)
(* The channels vm-manager is reached by and reaches others by, each       *)
(* checked on its own: a behaviour is one of the QMP connection of a VM,   *)
(* the varlink connection to the storage provider, the CIDs and their      *)
(* subscriptions, the notify listener, `vm-manager serve` itself, the API  *)
(* requests, or the guest's reports.                                       *)
(***************************************************************************)
EXTENDS QMP, Varlink, Subscriptions, Notify, Serve, API, Reports, TLC

VARIABLE channel    \* the one at work

channelVars ==
    <<channel, qmpVars, varlinkVars, subscriptionVars, notifyVars, serveVars, requested, reportVars>>

Channel == {"qmp", "varlink", "cids", "notify", "serve", "api", "reports"}

\* What the host offers and which reports parse is chosen where it matters.
ChannelsInit ==
    /\ channel \in Channel
    /\ QMPInit /\ VarlinkInit /\ SubscriptionsInit /\ NotifyInit /\ ServeInit /\ APIInit /\ ReportsInit
    /\ channel # "reports" => parses = {}
    /\ channel # "serve" => hostEnv = [vsock |-> FALSE, flag |-> NoPort, recorded |-> FALSE] /\ credential = NoCredential

\* The channels other than c keep still.
Idle(c) ==
    /\ c # "qmp" => UNCHANGED qmpVars
    /\ c # "varlink" => UNCHANGED varlinkVars
    /\ c # "cids" => UNCHANGED subscriptionVars
    /\ c # "notify" => UNCHANGED notifyVars
    /\ c # "serve" => UNCHANGED serveVars
    /\ c # "api" => UNCHANGED requested
    /\ c # "reports" => UNCHANGED reportVars

ChannelsNext ==
    /\ UNCHANGED channel
    /\ \/ channel = "qmp" /\ QMPNext /\ Idle("qmp")
       \/ channel = "varlink" /\ VarlinkNext /\ Idle("varlink")
       \/ channel = "cids" /\ SubscriptionsNext /\ Idle("cids")
       \/ channel = "notify" /\ NotifyNext /\ Idle("notify")
       \/ channel = "serve" /\ ServeNext /\ Idle("serve")
       \/ channel = "api" /\ APINext /\ Idle("api")
       \/ channel = "reports" /\ ReportsNext /\ Idle("reports")

ChannelsSpec == ChannelsInit /\ [][ChannelsNext]_channelVars

Symmetry == Permutations(Caller) \cup Permutations(Guest)
=============================================================================
