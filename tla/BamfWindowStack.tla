--------------------------- MODULE BamfWindowStack ---------------------------
(***************************************************************************)
(* window-stack-bridge: BamfWindowStack, which turns the views of the BAMF *)
(* matcher into the com.canonical.Unity.WindowStack interface that         *)
(* hud-service listens to, and BAMF itself as far as the bridge sees it.   *)
(*                                                                         *)
(* BAMF's object path of a window ends in its X id, so the path and the id *)
(* are one value here, and the bridge's two maps (by path, by id) are one  *)
(* function.  BAMF and the session bus deliver the signals of one sender   *)
(* in order; a signal nobody has a match rule for is dropped by the bus.   *)
(***************************************************************************)
EXTENDS Naturals, Sequences, FiniteSets

CONSTANTS
  WindowIds,   \* X window ids (and BAMF paths)
  AppOf,       \* the application an X id belongs to, closed and opened again or not
  OpenAtStart, \* the windows open before anything starts
  None,        \* no window, no application, no reply
  MaxChanges,  \* bound on the windows opened, closed and activated
  MaxCrashes   \* bound on the crashes of the bridge

VARIABLES
  bamfWindows,  \* BAMF: the open windows
  bamfActive,   \* BAMF: the active window
  bamfSignals,  \* BAMF's signals on their way to the bridge
  bridge,       \* "down", "connected" to the bus and to BAMF, or "running"
  windows,      \* m_windows, m_windowsById: the known windows
  asked,        \* the stack GetWindowStack has read while it asks for the active window
  signals,      \* the bridge's signals on their way to hud-service
  reply,        \* the answer to GetWindowStack hud-service's constructor waits for
  listening,    \* hud-service has its match rules on the bus
  changes,      \* how much has changed in BAMF
  crashes,      \* how often the bridge crashed
  lost          \* history: windows something went unreported of

bamfVars == <<bamfWindows, bamfActive, changes>>
bridgeVars == <<bridge, windows, crashes, asked>>

Tell(type, w) == [type |-> type, window |-> w, app |-> AppOf[w]]
View(type, w) == [type |-> type, window |-> w]

Entries(W) == [w \in W |-> AppOf[w]]
NoWindows == [w \in {} |-> None]

\* What happens before the reply to GetWindowStack is in the reply.
Miss(W) == lost' = IF reply = None /\ ~listening THEN lost ELSE lost \cup W

Emit(m) ==
  IF listening THEN signals' = Append(signals, m) /\ UNCHANGED lost
               ELSE Miss({m.window}) /\ UNCHANGED signals

Init ==
  /\ bamfWindows = OpenAtStart
  /\ bamfActive = None
  /\ bamfSignals = <<>>
  /\ bridge = "down"
  /\ windows = {}
  /\ asked = None
  /\ signals = <<>>
  /\ reply = None
  /\ changes = 0
  /\ crashes = 0
  /\ lost = {}

-----------------------------------------------------------------------------
(* BAMF.  Its signals reach the bridge once the bridge has connected; what *)
(* changes before the bridge has loaded the windows it never announces.    *)

BamfSignal(m) ==
  /\ changes < MaxChanges
  /\ changes' = changes + 1
  /\ bamfSignals' = IF bridge \in {"connected", "running"}
                    THEN Append(bamfSignals, m) ELSE bamfSignals
  /\ IF bridge = "running" THEN UNCHANGED lost ELSE Miss({m.window})

BamfOpen(w) ==
  /\ w \notin bamfWindows
  /\ bamfWindows' = bamfWindows \cup {w}
  /\ BamfSignal(View("ViewOpened", w))
  /\ UNCHANGED <<bamfActive, bridgeVars, signals, reply>>

\* The new active window is announced as "", which the bridge ignores.
BamfClose(w) ==
  /\ w \in bamfWindows
  /\ bamfWindows' = bamfWindows \ {w}
  /\ bamfActive' = IF bamfActive = w THEN None ELSE bamfActive
  /\ BamfSignal(View("ViewClosed", w))
  /\ UNCHANGED <<bridgeVars, signals, reply>>

BamfActivate(w) ==
  /\ w \in bamfWindows
  /\ bamfActive # w
  /\ bamfActive' = w
  /\ BamfSignal(View("ActiveWindowChanged", w))
  /\ UNCHANGED <<bamfWindows, bridgeVars, signals, reply>>

-----------------------------------------------------------------------------
(* The constructor of the bridge: it owns its name on the bus and connects *)
(* to BAMF's signals, and only then asks for the windows there are.        *)

Connect ==
  /\ bridge = "down"
  /\ bridge' = "connected"
  /\ UNCHANGED <<bamfVars, bamfSignals, windows, crashes, asked, signals, reply, lost>>

\* The windows addWindow can read, which are none when WindowPaths fails.
LoadWindows ==
  /\ bridge = "connected"
  /\ bridge' = "running"
  /\ \E unread \in SUBSET bamfWindows :
       windows' = bamfWindows \ unread /\ lost' = lost \cup unread
  /\ UNCHANGED <<bamfVars, bamfSignals, crashes, asked, signals, reply>>

\* The process dies and is activated again: what it knew and what BAMF had
\* queued for it is gone, what it had sent is not.  The call it was answering
\* fails, which is to its caller an answer without windows.
Crash ==
  /\ bridge = "running"
  /\ crashes < MaxCrashes
  /\ crashes' = crashes + 1
  /\ bridge' = "down"
  /\ windows' = {}
  /\ asked' = None
  /\ bamfSignals' = <<>>
  /\ IF asked = None
     THEN Miss({bamfSignals[i].window : i \in DOMAIN bamfSignals}) /\ UNCHANGED reply
     ELSE lost' = lost \cup bamfWindows /\ reply' = [stack |-> NoWindows, focus |-> None]
  /\ UNCHANGED <<bamfVars, signals>>

-----------------------------------------------------------------------------
(* The event loop, which stands still while GetWindowStack waits for BAMF. *)

Receive(type, w) ==
  /\ bridge = "running"
  /\ asked = None
  /\ bamfSignals # <<>>
  /\ Head(bamfSignals) = View(type, w)
  /\ bamfSignals' = Tail(bamfSignals)
  /\ UNCHANGED <<bamfVars, bridge, crashes, asked, reply>>

\* Mutation of ViewOpened: the window is announced and not stored.
OpenedNotStored(w) ==
  /\ Receive("ViewOpened", w)
  /\ w \in bamfWindows
  /\ UNCHANGED windows
  /\ Emit(Tell("WindowCreated", w))

\* addWindow asks BAMF for the id and the application of the window.
ViewOpened(w) ==
  /\ Receive("ViewOpened", w)
  /\ w \in bamfWindows
  /\ windows' = windows \cup {w}
  /\ Emit(Tell("WindowCreated", w))

\* A window that is closed by now, or a call that fails, makes it an error:
\* the window is neither stored nor announced.
ViewOpenedError(w) ==
  /\ Receive("ViewOpened", w)
  /\ lost' = IF w \in bamfWindows THEN lost \cup {w} ELSE lost
  /\ UNCHANGED <<windows, signals>>

\* Mutation of ViewClosed: the window is forgotten before it is looked up.
ClosedForgottenFirst(w) ==
  /\ Receive("ViewClosed", w)
  /\ windows' = windows \ {w}
  /\ UNCHANGED <<signals, lost>>

ViewClosed(w) ==
  /\ Receive("ViewClosed", w)
  /\ windows' = windows \ {w}
  /\ IF w \in windows THEN Emit(Tell("WindowDestroyed", w))
                      ELSE UNCHANGED <<signals, lost>>

ActiveWindowChanged(w) ==
  /\ Receive("ActiveWindowChanged", w)
  /\ UNCHANGED windows
  /\ IF w \in windows THEN Emit(Tell("FocusedWindowChanged", w))
                      ELSE UNCHANGED <<signals, lost>>

\* GetWindowStack: BAMF's stack as far as the bridge knows the windows; without
\* it the reply is empty, not an error.
GetWindowStack ==
  /\ bridge = "running" /\ asked = None
  /\ ~listening /\ reply = None
  /\ \/ asked' = bamfWindows \cap windows /\ UNCHANGED <<reply, lost>>
     \/ /\ reply' = [stack |-> NoWindows, focus |-> None]
        /\ lost' = lost \cup (bamfWindows \cap windows)
        /\ UNCHANGED asked
  /\ UNCHANGED <<bamfVars, bamfSignals, bridge, windows, crashes, signals>>

\* Mutation of ActiveWindow: the active window need not be one of those listed.
ActiveUnlisted ==
  /\ asked # None
  /\ asked' = None
  /\ reply' = [stack |-> Entries(asked), focus |-> bamfActive]
  /\ UNCHANGED <<bamfVars, bamfSignals, bridge, windows, crashes, signals, lost>>

\* GetWindowStack goes on: the window that is active by now is marked, if it is in
\* the stack read before; when BAMF does not answer, none is.
ActiveWindow ==
  LET focus == IF bamfActive \in asked THEN bamfActive ELSE None IN
  /\ asked # None
  /\ asked' = None
  /\ \/ reply' = [stack |-> Entries(asked), focus |-> focus] /\ UNCHANGED lost
     \/ reply' = [stack |-> Entries(asked), focus |-> None] /\ lost' = lost \cup {focus}
  /\ UNCHANGED <<bamfVars, bamfSignals, bridge, windows, crashes, signals>>

Bamf ==
  \E w \in WindowIds : BamfOpen(w) \/ BamfClose(w) \/ BamfActivate(w)

Constructor == Connect \/ LoadWindows

Handle ==
  \E w \in WindowIds :
    ViewOpened(w) \/ ViewOpenedError(w) \/ ViewClosed(w) \/ ActiveWindowChanged(w)

Next == Bamf \/ Constructor \/ Handle \/ GetWindowStack \/ ActiveWindow \/ Crash
=============================================================================
