--------------------------- MODULE WindowTracking ---------------------------
(***************************************************************************)
(* hud-service and the window-stack bridge together: the windows BAMF has, *)
(* the windows the bridge knows, the signals on the bus, and what the      *)
(* service's application list makes of them.  The constructor of the list  *)
(* blocks on GetWindowStack and subscribes to the signals after it has     *)
(* worked the reply off; what the bridge sends in between reaches nobody.  *)
(***************************************************************************)
EXTENDS ApplicationList, Naturals, Sequences

CONSTANTS
  AppOf,       \* the application an X id belongs to
  OpenAtStart, \* the windows open before anything starts
  MaxChanges,  \* bound on the windows opened, closed and activated
  MaxCrashes   \* bound on the crashes of the bridge

ASSUME AppOfType == AppOf \in [WindowIds -> AppIds]
ASSUME OpenAtStartType == OpenAtStart \subseteq WindowIds

VARIABLES
  bamfWindows, bamfActive, bamfSignals, bridge, windows, asked, signals, reply,
  changes, crashes, lost  \* see BamfWindowStack

stackVars ==
  <<bamfWindows, bamfActive, bamfSignals, bridge, windows, asked, changes, crashes>>
busVars == <<signals, reply, lost>>
allVars == <<vars, stackVars, busVars>>

Stack == INSTANCE BamfWindowStack WITH listening <- subscription = "connected"

TInit == Init /\ Stack!Init

-----------------------------------------------------------------------------
BridgeStep ==
  /\ Stack!Next
  /\ UNCHANGED vars

\* The reply arrives, and the constructor runs to its end.
StartService ==
  /\ reply # None
  /\ Construct(reply.stack, reply.focus)
  /\ reply' = None
  /\ UNCHANGED <<stackVars, signals, lost>>

\* The reply is an error, or none comes within the D-Bus timeout: the list of
\* windows is empty, and the service subscribes all the same.  What the bridge
\* may be about to answer reaches nobody.
StartServiceEmpty ==
  /\ Construct(Stack!NoWindows, None)
  /\ lost' = lost \cup bamfWindows
  /\ asked' = None
  /\ reply' = None
  /\ UNCHANGED <<bamfWindows, bamfActive, bamfSignals, bridge, windows, changes,
                 crashes, signals>>

\* The service is not connected to the bus.
StartServiceDeaf ==
  /\ ConstructError
  /\ UNCHANGED <<stackVars, busVars>>

\* The service dispatches the next signal of the bridge.
Dispatch ==
  /\ signals # <<>>
  /\ LET m == Head(signals) IN
     \/ m.type = "WindowCreated" /\ WindowCreated(m.window, m.app)
     \/ m.type = "WindowDestroyed" /\ WindowDestroyed(m.window, m.app)
     \/ m.type = "FocusedWindowChanged" /\ FocusedWindowChanged(m.window, m.app)
  /\ signals' = Tail(signals)
  /\ UNCHANGED <<stackVars, reply, lost>>

Client ==
  /\ OpenQuery \/ RefreshQuery
  /\ UNCHANGED <<stackVars, busVars>>

TNext ==
  \/ BridgeStep
  \/ StartService \/ StartServiceEmpty \/ StartServiceDeaf
  \/ Dispatch \/ Client

TSpec == TInit /\ [][TNext]_allVars

\* Both event loops keep dispatching, and both constructors and a call of
\* GetWindowStack run to their end: there is no condition on which either
\* process stops while messages wait.
Fairness ==
  /\ WF_allVars((Stack!Constructor \/ Stack!Handle \/ Stack!ActiveWindow) /\ UNCHANGED vars)
  /\ WF_allVars(Dispatch)

FairSpec == TSpec /\ Fairness

-----------------------------------------------------------------------------
BamfSignals == [type : {"ViewOpened", "ViewClosed", "ActiveWindowChanged"},
                window : WindowIds]
StackSignals == [type : {"WindowCreated", "WindowDestroyed", "FocusedWindowChanged"},
                 window : WindowIds, app : AppIds]

\* What is under way names windows by their own application, and a reply marks
\* as focused only a window it lists (Construct looks that one up).
BusTypeOK ==
  /\ bamfWindows \subseteq WindowIds
  /\ bamfActive \in bamfWindows \cup {None}
  /\ windows \subseteq WindowIds
  /\ asked # None => bridge = "running" /\ asked \subseteq windows
  /\ bamfSignals \in Seq(BamfSignals)
  /\ signals \in Seq(StackSignals)
  /\ \A i \in DOMAIN signals : signals[i].app = AppOf[signals[i].window]
  /\ reply # None =>
       /\ reply.stack \in StackReplies
       /\ reply.focus \in DOMAIN reply.stack \cup {None}

Quiet == bridge = "running" /\ bamfSignals = <<>> /\ signals = <<>>

\* When no message is under way, the windows announced to the service are the
\* windows that are open, except where a call failed, a window changed while the
\* bridge was not there, or a signal fell between GetWindowStack's reply and the
\* service's subscription (ApplicationListImpl's constructor).
QuietServiceKnowsTheOpenWindows ==
  Quiet /\ subscription = "connected" =>
    \A w \in WindowIds \ lost : AppOf[w] \in Applications =>
      (w \in reported[AppOf[w]] <=> w \in bamfWindows)

\* When no message is under way and the active window belongs to an application
\* that is not ignored, the service's focus is that window: neither a closed
\* application nor an ignored one that had the focus in between leaves another.
QuietFocusIsTheActiveWindow ==
  Quiet /\ subscription = "connected" /\ bamfActive \notin lost /\ bamfActive # None =>
    \/ AppOf[bamfActive] \in IgnoredIds
    \/ focusedWindowId = bamfActive /\ focusedApplication = AppOf[bamfActive]

\* Every open window is in the end in its application's map, unless it closes
\* first or its announcement is lost.
OpenWindowsGetTracked ==
  \A w \in WindowIds : AppOf[w] \in Applications =>
    (subscription = "connected" /\ w \in bamfWindows)
      ~> (w \in keys[AppOf[w]] \/ w \notin bamfWindows \/ w \in lost)

\* A window that is closed loses its Window object in the end.
ClosedWindowsGetDropped ==
  \A w \in WindowIds : AppOf[w] \in Applications =>
    (w \in live[AppOf[w]] /\ w \notin bamfWindows)
      ~> (w \notin live[AppOf[w]] \/ w \in bamfWindows \/ w \in lost)

\* The service catches up with the windows that open and with those that close.
WindowsGetTracked == OpenWindowsGetTracked /\ ClosedWindowsGetDropped
=============================================================================
