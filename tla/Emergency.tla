------------------------------ MODULE Emergency ------------------------------
(***************************************************************************)
(* The network state of a node: the monitor that samples the interfaces    *)
(* every three seconds (network_monitor.rs), the two hotspot commands      *)
(* (commands.rs, hotspot.rs) and the banner of the frontend, which follows *)
(* their events.  The machine around them is an environment: its uplink    *)
(* comes and goes, the user joins another hotspot, the hosted one stops.   *)
(*                                                                         *)
(* The interfaces are read by two calls before the lock on the state is    *)
(* taken, a command works for seconds before it writes the state, and it   *)
(* emits its event after it has given the lock back.                       *)
(***************************************************************************)
EXTENDS Naturals

CONSTANTS
  MAX_CHANGES,  \* bound on changes of the interfaces
  MAX_COMMANDS  \* bound on hotspot commands

ASSUME EmergencyAssumption == MAX_CHANGES \in Nat /\ MAX_COMMANDS \in Nat

VARIABLES
  uplink,    \* an interface with an address that is not the hotspot's
  hosting,   \* the hotspot of this machine, by what has started it
  hot,       \* an interface has an address in 192.168.137.x
  state,     \* network_state
  monitor,   \* where the monitor is, and what it has sampled
  start,     \* where activate_emergency_hotspot is
  stop,      \* where deactivate_emergency_hotspot is
  banner,    \* what the frontend shows
  changes,
  commands   \* spent so far

machine == <<uplink, hosting, hot>>
emergencyVars ==
  <<uplink, hosting, hot, state, monitor, start, stop, banner, changes, commands>>

Sleeping == [at |-> "sleep", net |-> FALSE, hot |-> FALSE]

EmergencyTypeOK ==
  /\ uplink \in BOOLEAN /\ hot \in BOOLEAN
  /\ hosting \in {"off", "netsh", "mobile"}
  /\ state \in {"Normal", "Lost", "Emergency"}
  /\ monitor \in [at : {"sleep", "hotspot", "lock"}, net : BOOLEAN, hot : BOOLEAN]
  /\ start \in {"idle", "netsh", "powershell", "set", "emit", "answer"}
  /\ stop \in {"idle", "netsh", "set", "emit"}
  /\ banner \in {"hidden", "lost", "emergency", "hotspot"}
  /\ changes \in 0..MAX_CHANGES
  /\ commands \in 0..MAX_COMMANDS

EmergencyInit ==
  /\ uplink \in BOOLEAN
  /\ hosting = "off" /\ hot = FALSE
  /\ state = "Normal"
  /\ monitor = Sleeping
  /\ start = "idle" /\ stop = "idle"
  /\ banner = "hidden"
  /\ changes = 0 /\ commands = 0

-----------------------------------------------------------------------------
(* The machine *)

Change ==
  /\ changes < MAX_CHANGES /\ changes' = changes + 1
  /\ UNCHANGED <<state, monitor, start, stop, banner, commands>>

UplinkChanges == Change /\ uplink' = ~uplink /\ UNCHANGED <<hosting, hot>>

\* The user joins the hotspot of another node, or leaves it.
GuestChanges ==
  /\ Change
  /\ hosting = "off"
  /\ hot' = ~hot
  /\ UNCHANGED <<uplink, hosting>>

HostingEnds ==
  /\ Change
  /\ hosting # "off"
  /\ hosting' = "off" /\ hot' = FALSE
  /\ UNCHANGED uplink

\* Windows gives the adapter of a hotspot that it hosts its address.
AddressAppears ==
  /\ hosting # "off" /\ ~hot
  /\ hot' = TRUE
  /\ UNCHANGED <<uplink, hosting, state, monitor, start, stop, banner, changes, commands>>

-----------------------------------------------------------------------------
(* start_network_monitor *)

has_active_network == uplink \/ hot
has_hotspot_interface == hot

SampleNetwork ==
  /\ monitor.at = "sleep"
  /\ monitor' = [Sleeping EXCEPT !.at = "hotspot", !.net = has_active_network]
  /\ UNCHANGED <<machine, state, start, stop, banner, changes, commands>>

SampleHotspot ==
  /\ monitor.at = "hotspot"
  /\ monitor' = [monitor EXCEPT !.at = "lock", !.hot = has_hotspot_interface]
  /\ UNCHANGED <<machine, state, start, stop, banner, changes, commands>>

\* Fault: the arguments change places.
AnnounceSwapped(s, event) == state' = event /\ banner' = s

\* The event is emitted before the lock is given back.
Announce(s, event) == state' = s /\ banner' = event

\* Fault: the way back from Lost forgets the way back from Emergency.
MatchLostOnly ==
  IF state = "Normal" /\ ~monitor.net /\ ~monitor.hot
    THEN Announce("Lost", "lost")
  ELSE IF state = "Lost" /\ monitor.net /\ ~monitor.hot
    THEN Announce("Normal", "hidden")
  ELSE IF state = "Lost" /\ monitor.hot
    THEN Announce("Emergency", "emergency")
  ELSE UNCHANGED <<state, banner>>

\* The arms of the match, in their order.
Match ==
  IF state = "Normal" /\ ~monitor.net /\ ~monitor.hot
    THEN Announce("Lost", "lost")
  ELSE IF state # "Normal" /\ monitor.net /\ ~monitor.hot
    THEN Announce("Normal", "hidden")
  ELSE IF state = "Lost" /\ monitor.hot
    THEN Announce("Emergency", "emergency")
  ELSE UNCHANGED <<state, banner>>

Apply ==
  /\ monitor.at = "lock"
  /\ Match
  /\ monitor' = Sleeping
  /\ UNCHANGED <<machine, start, stop, changes, commands>>

-----------------------------------------------------------------------------
(* activate_emergency_hotspot: the button is disabled until it answers *)

Activate ==
  /\ start = "idle"
  /\ commands < MAX_COMMANDS /\ commands' = commands + 1
  /\ start' = "netsh"
  /\ UNCHANGED <<machine, state, monitor, stop, banner, changes>>

\* A failure emits emergency_hotspot_manual_needed, which shows a note.
StartFails ==
  /\ start \in {"netsh", "powershell"}
  /\ start' = "idle"
  /\ UNCHANGED <<machine, state, monitor, stop, banner, changes, commands>>

\* start_emergency_hotspot: a hosted network that runs already counts too, and
\* so does an output that says "started" of one that could not be.
StartByNetsh ==
  /\ start = "netsh"
  /\ \/ /\ start' = "set"
        /\ hosting' \in {hosting, IF hosting = "off" THEN "netsh" ELSE hosting}
     \/ start' = "powershell" /\ UNCHANGED hosting
  /\ UNCHANGED <<uplink, hot, state, monitor, stop, banner, changes, commands>>

\* start_hotspot_via_powershell: shares an internet connection, so there has
\* to be one.
StartByPowerShell ==
  /\ start = "powershell" /\ uplink
  /\ hosting' = "mobile"
  /\ start' = "set"
  /\ UNCHANGED <<uplink, hot, state, monitor, stop, banner, changes, commands>>

SetEmergency ==
  /\ start = "set"
  /\ state' = "Emergency"
  /\ start' = "emit"
  /\ UNCHANGED <<machine, monitor, stop, banner, changes, commands>>

\* Fault: a banner that is up is left as it is.
EmitStartedOnce ==
  /\ start = "emit"
  /\ banner' = IF banner = "hidden" THEN "hotspot" ELSE banner
  /\ start' = "answer"
  /\ UNCHANGED <<machine, state, monitor, stop, changes, commands>>

\* emergency_hotspot_started
EmitStarted ==
  /\ start = "emit"
  /\ banner' = "hotspot"
  /\ start' = "answer"
  /\ UNCHANGED <<machine, state, monitor, stop, changes, commands>>

\* The frontend has refreshed its modal and shows the banner once more.
ShowStarted ==
  /\ start = "answer"
  /\ banner' = "hotspot"
  /\ start' = "idle"
  /\ UNCHANGED <<machine, state, monitor, stop, changes, commands>>

-----------------------------------------------------------------------------
(* deactivate_emergency_hotspot: a command of the backend that main.js does  *)
(* not call                                                                  *)

Deactivate ==
  /\ stop = "idle"
  /\ commands < MAX_COMMANDS /\ commands' = commands + 1
  /\ stop' = "netsh"
  /\ UNCHANGED <<machine, state, monitor, start, banner, changes>>

\* A Mobile Hotspot goes on, and a hosted network that netsh fails to stop: its
\* exit status is not looked at.
StopByNetsh ==
  /\ stop = "netsh"
  /\ \/ hosting = "netsh" /\ hosting' = "off" /\ hot' = FALSE
     \/ UNCHANGED <<hosting, hot>>
  /\ stop' = "set"
  /\ UNCHANGED <<uplink, state, monitor, start, banner, changes, commands>>

\* netsh cannot be run.
StopFails ==
  /\ stop = "netsh"
  /\ stop' = "idle"
  /\ UNCHANGED <<machine, state, monitor, start, banner, changes, commands>>

SetNormal ==
  /\ stop = "set"
  /\ state' = "Normal"
  /\ stop' = "emit"
  /\ UNCHANGED <<machine, monitor, start, banner, changes, commands>>

\* emergency_hotspot_stopped
EmitStopped ==
  /\ stop = "emit"
  /\ banner' = "hidden"
  /\ stop' = "idle"
  /\ UNCHANGED <<machine, state, monitor, start, changes, commands>>

\* The dismiss button of the banner.
Dismiss ==
  /\ banner # "hidden"
  /\ banner' = "hidden"
  /\ UNCHANGED <<machine, state, monitor, start, stop, changes, commands>>

-----------------------------------------------------------------------------
MonitorNext == SampleNetwork \/ SampleHotspot \/ Apply
StartNext ==
  StartFails \/ StartByNetsh \/ StartByPowerShell \/ SetEmergency \/ EmitStarted \/ ShowStarted
StopNext == StopByNetsh \/ StopFails \/ SetNormal \/ EmitStopped

EmergencyNext ==
  \/ UplinkChanges \/ GuestChanges \/ HostingEnds \/ AddressAppears
  \/ MonitorNext
  \/ Activate \/ StartNext
  \/ Deactivate \/ StopNext
  \/ Dismiss

EmergencySpec == EmergencyInit /\ [][EmergencyNext]_emergencyVars

\* The monitor wakes up every three seconds, the processes that a command
\* runs come back, and Windows configures the adapter it hosts on.
EmergencyFairSpec ==
  /\ EmergencySpec
  /\ WF_emergencyVars(AddressAppears)
  /\ WF_emergencyVars(MonitorNext)
  /\ WF_emergencyVars(StartNext) /\ WF_emergencyVars(StopNext)

-----------------------------------------------------------------------------
(* Properties *)

\* The banner that says the network is lost is only up while the state is
\* Lost, or while a command that has moved the state on has its event still to
\* send: whatever takes the state out of Lost takes the banner with it.
BannerFollows ==
  banner = "lost" =>
    \/ state = "Lost"
    \/ start = "emit"
    \/ stop = "emit"

\* Once the interfaces stay as they are, and whatever samples and commands
\* overlapped before, the state comes to fit them: Normal on the uplink alone,
\* never Normal without any network, and never Lost while a hotspot is up.
StateSettles ==
  <>[](/\ uplink /\ ~hot => state = "Normal"
       /\ ~uplink /\ ~hot => state # "Normal"
       /\ hot => state # "Lost")
=============================================================================
