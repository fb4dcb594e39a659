----------------------------- MODULE HeroTunnel -----------------------------
(***************************************************************************)
(* HeroTCP, with which a page configures, starts and stops a VPN, and      *)
(* PacketTunnelProvider, which runs in a process of its own when the       *)
(* system starts the tunnel of a saved configuration.                      *)
(*                                                                         *)
(* Between them is NetworkExtension (external): it saves configurations,   *)
(* has at most one session, calls startTunnel and stopTunnel of the        *)
(* provider, and may keep the provider and its process after a stop, which *)
(* `started' in the code expects.  The user can start and stop the tunnel  *)
(* too, in the system's settings.                                          *)
(*                                                                         *)
(* A configuration is known by the server it names; the rules a provider   *)
(* makes of it are global to the process, the proxy is an object.          *)
(***************************************************************************)
EXTENDS Naturals

CONSTANTS
  Config,      \* the configurations pages send
  Undefined,   \* those among them with a cipher the provider does not know
  None,
  MaxSettings, \* bound on the calls of setTunnelNetworkSettings under way
  MaxLoads     \* bound on the messages with a configuration

VARIABLES
  loading,  \* configurations whose loadAllFromPreferences has not ended
  asked,    \* number of messages with a configuration
  manager,  \* the manager of HeroTCP, known by its configuration
  saves,    \* managers being saved
  saved,    \* managers in the system's preferences
  session,  \* [conf, status] of the system
  alive,    \* has the provider's process begun?
  started, proxy, \* of the provider; the proxy is nil, running or stopped
  rules,    \* RuleManager.currentManager
  settings, \* calls of setTunnelNetworkSettings under way
  crashed,  \* history: did an unwrapped nil end the process?
  stopped,  \* history: was a proxy of this process stopped by stopTunnel?
  late      \* history: did settings arrive after a stop in this process?

appVars == <<loading, asked, manager, saves, saved>>
provider == <<alive, started, proxy, rules, settings>>
history == <<crashed, stopped, late>>
tunnelVars == <<appVars, session, provider, history>>

Down == [conf |-> None, status |-> "down"]

Init ==
  /\ loading = {} /\ asked = 0 /\ manager = None /\ saves = {} /\ saved = {}
  /\ session = Down
  /\ alive = FALSE /\ started = FALSE /\ proxy = "nil" /\ rules = None /\ settings = 0
  /\ crashed = FALSE /\ stopped = FALSE /\ late = FALSE
-----------------------------------------------------------------------------
(* startVPNTunnel and stopVPNTunnel: errors are not looked at. *)
Connect(m) ==
  session' = IF m \in saved /\ session = Down THEN [conf |-> m, status |-> "begin"]
             ELSE session
Disconnect(m) ==
  session' = IF session.conf = m /\ m # None /\ session.status # "down"
             THEN [session EXCEPT !.status = "stopping"] ELSE session

(* -[HeroTCP on:] *)
config(c) ==
  /\ asked < MaxLoads
  /\ asked' = asked + 1
  /\ loading' = loading \cup {c}

on(c, command) ==
  /\ IF c = None THEN UNCHANGED <<asked, loading>> ELSE config(c)
  /\ CASE command = "start" -> Connect(manager)
       [] command = "stop"  -> Disconnect(manager)
       [] OTHER             -> UNCHANGED session
  /\ UNCHANGED <<manager, saves, saved, provider, history>>

(* A saved manager is taken as it is: the configuration is not put into it. *)
Loaded(c) ==
  /\ c \in loading
  /\ loading' = loading \ {c}
  /\ manager' \in IF saved = {} THEN {c} ELSE saved
  /\ saves' = saves \cup {manager'}
  /\ UNCHANGED <<asked, saved, session, provider, history>>

(* The user may refuse; the error is not looked at. *)
SaveEnds(m, ok) ==
  /\ m \in saves
  /\ saves' = saves \ {m}
  /\ saved' = IF ok THEN saved \cup {m} ELSE saved
  /\ UNCHANGED <<loading, asked, manager, session, provider, history>>
-----------------------------------------------------------------------------
(* The user, in the settings of the system. *)
UserStarts(m) ==
  /\ m \in saved
  /\ session = Down
  /\ Connect(m)
  /\ UNCHANGED <<appVars, provider, history>>

UserStops ==
  /\ session.status \in {"begin", "starting", "up"}
  /\ Disconnect(session.conf)
  /\ UNCHANGED <<appVars, provider, history>>

(* startTunnel, in a new process if there is none. *)
startTunnel ==
  /\ session.status = "begin" /\ session.conf \notin Undefined
  /\ settings < MaxSettings
  /\ session' = [session EXCEPT !.status = "starting"]
  /\ alive' = TRUE
  /\ rules' = session.conf
  /\ settings' = settings + 1
  /\ UNCHANGED <<appVars, started, proxy, history>>

ProcessEnds ==
  /\ alive' = FALSE /\ started' = FALSE /\ proxy' = "nil" /\ rules' = None
  /\ settings' = 0

startTunnel_undefined ==
  /\ session.status = "begin" /\ session.conf \in Undefined
  /\ session' = Down
  /\ ProcessEnds
  /\ stopped' = FALSE /\ late' = FALSE
  /\ UNCHANGED <<appVars, crashed>>

(* The completion of setTunnelNetworkSettings, with an error or without. *)
SettingsFail ==
  /\ settings > 0
  /\ settings' = settings - 1
  /\ session' = IF session.status = "starting" THEN Down ELSE session
  /\ UNCHANGED <<appVars, alive, started, proxy, rules, history>>

(* Mutant: started is set before it is looked at. *)
SettingsDone_startedFirst ==
  /\ settings > 0
  /\ session' = IF proxy = "nil" /\ session.status = "starting" THEN Down ELSE session
  /\ IF proxy = "nil"
     THEN ProcessEnds /\ crashed' = TRUE /\ UNCHANGED <<stopped, late>>
     ELSE /\ settings' = settings - 1 /\ proxy' = "running" /\ started' = TRUE
          /\ UNCHANGED <<alive, rules, history>>
  /\ UNCHANGED appVars

Up == IF session.status = "starting" THEN [session EXCEPT !.status = "up"] ELSE session

SettingsDone ==
  /\ settings > 0
  /\ IF started /\ proxy = "nil"
     THEN /\ ProcessEnds
          /\ session' = Down
          /\ crashed' = TRUE
          /\ UNCHANGED <<stopped, late>>
     ELSE /\ settings' = settings - 1
          /\ proxy' = "running"
          /\ started' = TRUE
          /\ session' = Up
          /\ late' = (late \/ session.status # "starting")
          /\ UNCHANGED <<alive, rules, crashed, stopped>>
  /\ UNCHANGED appVars

(* Mutant: only a provider whose tunnel is up stops its proxy. *)
stopTunnel_forgets ==
  /\ session.status = "stopping"
  /\ session' = Down
  /\ UNCHANGED <<appVars, provider, history>>

(* stopTunnel, with or without a process that has seen the start. *)
stopTunnel ==
  /\ session.status = "stopping"
  /\ session' = Down
  /\ IF proxy = "nil" THEN UNCHANGED <<proxy, stopped>>
     ELSE proxy' = "nil" /\ stopped' = TRUE
  /\ UNCHANGED <<appVars, alive, started, rules, settings, crashed, late>>

(* The system ends the process of a provider without a session. *)
Kill ==
  /\ alive /\ session = Down
  /\ ProcessEnds
  /\ stopped' = FALSE /\ late' = FALSE
  /\ UNCHANGED <<appVars, session, crashed>>
-----------------------------------------------------------------------------
App ==
  \/ \E c \in Config \cup {None}, command \in {"none", "start", "stop"} : on(c, command)
  \/ \E c \in loading : Loaded(c)
  \/ \E m \in saves, ok \in BOOLEAN : SaveEnds(m, ok)

Tunnel ==
  startTunnel \/ startTunnel_undefined \/ SettingsFail \/ SettingsDone \/ stopTunnel \/ Kill
User == UserStops \/ \E m \in saved : UserStarts(m)

Next == App \/ User \/ Tunnel
Spec == Init /\ [][Next]_tunnelVars
-----------------------------------------------------------------------------
(* The provider unwraps a nil proxy only when its process has already      *)
(* stopped one: stopTunnel gives up the proxy but keeps started.           *)
CrashNeedsRestart ==
  [][~crashed /\ crashed' => stopped]_tunnelVars

(* No proxy runs without a session, unless the settings of a start came    *)
(* after the stop that followed it.                                        *)
NoLeftoverProxy ==
  proxy = "running" /\ session = Down => late
=============================================================================
