------------------------ MODULE WindowTrackingProofs ------------------------
(***************************************************************************)
(* The service behind the window-stack bridge is an application list: each *)
(* step of WindowTracking is one of ApplicationList or leaves the list     *)
(* alone, so whatever holds of a list that may be told anything holds of   *)
(* the one the bridge tells of BAMF's windows.                             *)
(*                                                                         *)
(* What the list knows when all is quiet is proved along the two queues:   *)
(* BAMF's ends with the truth about every window (BridgeHears), and the    *)
(* bridge's with what the bridge knows (ServiceHears), each window that    *)
(* something went unreported of aside.  The last focus in a queue follows  *)
(* the announcement of its window (BridgeHearsFocus, FocusReaches), so the *)
(* list has the window by the time its focus arrives.                      *)
(***************************************************************************)
EXTENDS WindowTracking, ApplicationListProofs

USE NoneIsNoId, AppOfType

\* A reply without windows is one of those the constructor can work off.
LEMMA NoWindowsIsAReply == Stack!NoWindows \in StackReplies
<1>1. Stack!NoWindows \in [{} -> AppIds]
  BY DEF Stack!NoWindows
<1> QED
  BY <1>1 DEF StackReplies

\* The windows of a set, with their applications, are a reply as well.
LEMMA KnownWindowsAreAReply ==
  ASSUME NEW W \in SUBSET WindowIds
  PROVE  Stack!Entries(W) \in StackReplies /\ DOMAIN Stack!Entries(W) = W
<1>1. Stack!Entries(W) \in [W -> AppIds]
  BY DEF Stack!Entries
<1> QED
  BY <1>1 DEF StackReplies

\* Emit sends a signal that names a window by its application, or nothing.
LEMMA EmitKeepsSignals ==
  ASSUME NEW w \in WindowIds,
         NEW type \in {"WindowCreated", "WindowDestroyed", "FocusedWindowChanged"},
         signals \in Seq(StackSignals),
         \A i \in DOMAIN signals : signals[i].app = AppOf[signals[i].window],
         Stack!Emit(Stack!Tell(type, w))
  PROVE  /\ signals' \in Seq(StackSignals)
         /\ \A i \in DOMAIN signals' : signals'[i].app = AppOf[signals'[i].window]
<1> DEFINE m == Stack!Tell(type, w)
<1>1. m \in StackSignals /\ m.app = AppOf[m.window]
  BY DEF Stack!Tell, StackSignals
<1>2. signals' = Append(signals, m) \/ signals' = signals
  BY DEF Stack!Emit
<1> HIDE DEF m
<1> QED
  BY <1>1, <1>2

\* BAMF's own steps: what it signals is about one of its windows.
LEMMA BamfKeepsBusTypeOK ==
  ASSUME BusTypeOK, Stack!Bamf
  PROVE  BusTypeOK'
<1>1. PICK w \in WindowIds : Stack!BamfOpen(w) \/ Stack!BamfClose(w) \/ Stack!BamfActivate(w)
  BY DEF Stack!Bamf
<1>2. /\ bamfWindows' \subseteq WindowIds
      /\ bamfActive' \in bamfWindows' \cup {None}
      /\ UNCHANGED <<bridge, windows, asked, signals, reply>>
  BY <1>1 DEF BusTypeOK, Stack!BamfOpen, Stack!BamfClose, Stack!BamfActivate, Stack!bridgeVars
<1>3. PICK type \in {"ViewOpened", "ViewClosed", "ActiveWindowChanged"} :
        Stack!BamfSignal(Stack!View(type, w))
  BY <1>1 DEF Stack!BamfOpen, Stack!BamfClose, Stack!BamfActivate
<1>4. bamfSignals' \in Seq(BamfSignals)
  <2> DEFINE m == Stack!View(type, w)
  <2>1. m \in BamfSignals
    BY DEF Stack!View, BamfSignals
  <2>2. bamfSignals' = Append(bamfSignals, m) \/ bamfSignals' = bamfSignals
    BY <1>3 DEF Stack!BamfSignal
  <2> HIDE DEF m
  <2> QED
    BY <2>1, <2>2 DEF BusTypeOK
<1> QED
  BY <1>2, <1>4 DEF BusTypeOK

\* The bridge's handlers take a signal of BAMF and send at most one of theirs.
LEMMA HandleKeepsBusTypeOK ==
  ASSUME BusTypeOK, Stack!Handle
  PROVE  BusTypeOK'
<1>1. PICK w \in WindowIds :
        Stack!ViewOpened(w) \/ Stack!ViewOpenedError(w) \/ Stack!ViewClosed(w)
          \/ Stack!ActiveWindowChanged(w)
  BY DEF Stack!Handle
<1>2. /\ bamfSignals # <<>> /\ asked = None
      /\ bamfSignals' = Tail(bamfSignals)
      /\ UNCHANGED <<bamfWindows, bamfActive, asked, reply>>
  BY <1>1 DEF Stack!ViewOpened, Stack!ViewOpenedError, Stack!ViewClosed,
              Stack!ActiveWindowChanged, Stack!Receive, Stack!bamfVars
<1>3. bamfSignals' \in Seq(BamfSignals)
  BY <1>2 DEF BusTypeOK
<1>4. windows' \subseteq WindowIds
  BY <1>1 DEF BusTypeOK, Stack!ViewOpened, Stack!ViewOpenedError, Stack!ViewClosed,
              Stack!ActiveWindowChanged
<1>5. \/ signals' = signals
      \/ \E type \in {"WindowCreated", "WindowDestroyed", "FocusedWindowChanged"} :
           Stack!Emit(Stack!Tell(type, w))
  BY <1>1 DEF Stack!ViewOpened, Stack!ViewOpenedError, Stack!ViewClosed,
              Stack!ActiveWindowChanged
<1>6. /\ signals' \in Seq(StackSignals)
      /\ \A i \in DOMAIN signals' : signals'[i].app = AppOf[signals'[i].window]
  BY <1>5, EmitKeepsSignals DEF BusTypeOK
<1> QED
  BY <1>2, <1>3, <1>4, <1>6 DEF BusTypeOK

\* GetWindowStack answers with known windows and marks one of them, if any.
LEMMA GetWindowStackKeepsBusTypeOK ==
  ASSUME BusTypeOK, Stack!GetWindowStack \/ Stack!ActiveWindow
  PROVE  BusTypeOK'
<1>1. UNCHANGED <<bamfWindows, bamfActive, bamfSignals, bridge, windows, signals>>
  BY DEF Stack!GetWindowStack, Stack!ActiveWindow, Stack!bamfVars
<1>2. CASE Stack!GetWindowStack
  <2>1. /\ bridge = "running"
        /\ \/ asked' \subseteq windows /\ reply' = reply
           \/ asked' = asked /\ reply' = [stack |-> Stack!NoWindows, focus |-> None]
    BY <1>2 DEF Stack!GetWindowStack
  <2>2. asked' # None => bridge = "running" /\ asked' \subseteq windows
    BY <2>1 DEF BusTypeOK
  <2>3. reply' # None =>
          reply'.stack \in StackReplies /\ reply'.focus \in DOMAIN reply'.stack \cup {None}
    BY <2>1, NoWindowsIsAReply DEF BusTypeOK
  <2> QED
    BY <1>1, <2>2, <2>3 DEF BusTypeOK
<1>3. CASE Stack!ActiveWindow
  <2>1. /\ asked # None /\ asked' = None
        /\ \/ reply' = [stack |-> Stack!Entries(asked),
                        focus |-> IF bamfActive \in asked THEN bamfActive ELSE None]
           \/ reply' = [stack |-> Stack!Entries(asked), focus |-> None]
    BY <1>3 DEF Stack!ActiveWindow
  <2>2. Stack!Entries(asked) \in StackReplies /\ DOMAIN Stack!Entries(asked) = asked
    BY <2>1, KnownWindowsAreAReply DEF BusTypeOK
  <2>3. reply'.stack \in StackReplies /\ reply'.focus \in DOMAIN reply'.stack \cup {None}
    BY <2>1, <2>2
  <2> QED
    BY <1>1, <2>1, <2>3 DEF BusTypeOK
<1> QED
  BY <1>2, <1>3

\* The bridge's constructor and its death.
LEMMA BridgeLifeKeepsBusTypeOK ==
  ASSUME BusTypeOK, Stack!Constructor \/ Stack!Crash
  PROVE  BusTypeOK'
<1>1. CASE Stack!Connect
  BY <1>1 DEF BusTypeOK, Stack!Connect, Stack!bamfVars
<1>2. CASE Stack!LoadWindows
  BY <1>2 DEF BusTypeOK, Stack!LoadWindows, Stack!bamfVars
<1>3. CASE Stack!Crash
  <2>1. /\ UNCHANGED <<bamfWindows, bamfActive, signals>>
        /\ windows' = {} /\ asked' = None /\ bamfSignals' = <<>>
        /\ reply' = reply \/ reply' = [stack |-> Stack!NoWindows, focus |-> None]
    BY <1>3 DEF Stack!Crash, Stack!Miss, Stack!bamfVars
  <2> QED
    BY <2>1, NoWindowsIsAReply DEF BusTypeOK
<1> QED
  BY <1>1, <1>2, <1>3 DEF Stack!Constructor

LEMMA InitBusTypeOK == TInit => BusTypeOK
BY OpenAtStartType DEF TInit, Stack!Init, BusTypeOK

LEMMA NextBusTypeOK ==
  ASSUME BusTypeOK, [TNext]_allVars
  PROVE  BusTypeOK'
<1>1. CASE BridgeStep
  BY <1>1, BamfKeepsBusTypeOK, HandleKeepsBusTypeOK, GetWindowStackKeepsBusTypeOK,
     BridgeLifeKeepsBusTypeOK DEF BridgeStep, Stack!Next
<1>2. CASE StartService \/ StartServiceEmpty \/ StartServiceDeaf \/ Client
  BY <1>2 DEF BusTypeOK, StartService, StartServiceEmpty, StartServiceDeaf, Client,
              stackVars, busVars
<1>3. CASE Dispatch
  <2>1. /\ signals # <<>>
        /\ signals' = Tail(signals)
        /\ UNCHANGED <<bamfWindows, bamfActive, bamfSignals, bridge, windows, asked, reply>>
    BY <1>3 DEF Dispatch, stackVars
  <2>2. /\ signals' \in Seq(StackSignals)
        /\ \A i \in DOMAIN signals' : signals'[i].app = AppOf[signals'[i].window]
    BY <2>1 DEF BusTypeOK
  <2> QED
    BY <2>1, <2>2 DEF BusTypeOK
<1>4. CASE UNCHANGED allVars
  BY <1>4 DEF BusTypeOK, allVars, stackVars, busVars
<1> QED
  BY <1>1, <1>2, <1>3, <1>4 DEF TNext

\* Signals and replies are well-formed: the bridge never reports a window under
\* another application than its own, nor a focus that is not in its reply.
THEOREM BusTypeCorrect == TSpec => []BusTypeOK
BY InitBusTypeOK, NextBusTypeOK, PTL DEF TSpec

\* A step of the composition is a step of the application list, or none.
LEMMA StepIsListStep ==
  ASSUME BusTypeOK, [TNext]_allVars
  PROVE  [Next]_vars
<1>1. CASE StartService
  BY <1>1 DEF StartService, BusTypeOK, Next
<1>2. CASE StartServiceEmpty
  BY <1>2, NoWindowsIsAReply DEF StartServiceEmpty, Next
<1>3. CASE Dispatch
  <2> DEFINE m == Head(signals)
  <2>1. m \in StackSignals
    BY <1>3 DEF Dispatch, BusTypeOK
  <2>2. m.window \in WindowIds /\ m.app \in AppIds
    BY <2>1 DEF StackSignals
  <2>3. StackSignal
    BY <1>3, <2>2 DEF Dispatch, StackSignal
  <2> QED
    BY <2>3 DEF Next
<1>4. CASE UNCHANGED allVars \/ BridgeStep \/ StartServiceDeaf \/ Client
  BY <1>4 DEF allVars, BridgeStep, StartServiceDeaf, Client, Next, ClientCall
<1> QED
  BY <1>1, <1>2, <1>3, <1>4 DEF TNext

\* The composition implements the open application list.
THEOREM TrackingImplementsList == TSpec => Spec
<1>1. TInit => Init
  BY DEF TInit
<1> QED
  BY <1>1, BusTypeCorrect, StepIsListStep, PTL DEF TSpec, Spec

\* So the list's invariants hold behind the bridge, its crashes included.
THEOREM TrackingKeepsListInvariants ==
  TSpec => [](FocusedApplicationIsListed /\ WindowsMatchTheReports
                /\ AppstackShowsFocusedApplication)
BY TrackingImplementsList, FocusIsListed, WindowsAreTracked, AppstackFollowsFocus, PTL

-----------------------------------------------------------------------------
(* What the signals in a queue, BAMF's or the bridge's, say of a window.   *)

Elements(q) == {q[i] : i \in DOMAIN q}

Comes(m) == m.type \in {"ViewOpened", "WindowCreated"}
IsFocus(m) == m.type \in {"ActiveWindowChanged", "FocusedWindowChanged"}

\* A signal that the window w comes or goes.
Changes(m, w) == m.window = w /\ ~IsFocus(m)

Changed(q, w) == \E m \in Elements(q) : Changes(m, w)
Focuses(q) == \E m \in Elements(q) : IsFocus(m)

\* The last signal of the queue that w comes or goes says that it is in W, or not.
LastChange(q, w, W) ==
  \A i \in DOMAIN q :
    Changes(q[i], w) /\ (\A j \in DOMAIN q : Changes(q[j], w) => j <= i)
      => (Comes(q[i]) <=> w \in W)

\* The last signal of a focus in the queue is about w.
LastFocus(q, w) ==
  Focuses(q) =>
    \E i \in DOMAIN q :
      IsFocus(q[i]) /\ q[i].window = w /\ \A j \in DOMAIN q : IsFocus(q[j]) => j <= i

\* Whenever w comes or goes, a focus follows.
FocusAfter(q, w) ==
  \A i \in DOMAIN q : Changes(q[i], w) => \E j \in DOMAIN q : i < j /\ IsFocus(q[j])

LEMMA AppendDomain ==
  ASSUME NEW S, NEW q \in Seq(S), NEW m \in S
  PROVE  /\ DOMAIN Append(q, m) = DOMAIN q \cup {Len(q) + 1}
         /\ Append(q, m)[Len(q) + 1] = m
         /\ \A i \in DOMAIN q : Append(q, m)[i] = q[i] /\ i \in Nat /\ i <= Len(q)
         /\ Len(q) \in Nat
OBVIOUS

LEMMA TailDomain ==
  ASSUME NEW S, NEW q \in Seq(S), q # <<>>
  PROVE  /\ 1 \in DOMAIN q /\ q[1] = Head(q)
         /\ \A i \in DOMAIN Tail(q) : i \in Nat /\ i >= 1 /\ i + 1 \in DOMAIN q
                                      /\ Tail(q)[i] = q[i + 1]
         /\ \A i \in DOMAIN q : i \in Nat
              /\ (i = 1 \/ (i - 1 \in DOMAIN Tail(q) /\ Tail(q)[i - 1] = q[i]))
OBVIOUS

LEMMA AppendElements ==
  ASSUME NEW S, NEW q \in Seq(S), NEW m \in S
  PROVE  Elements(Append(q, m)) = Elements(q) \cup {m}
<1> DEFINE r == Append(q, m)
<1>1. /\ DOMAIN r = DOMAIN q \cup {Len(q) + 1} /\ r[Len(q) + 1] = m
      /\ \A i \in DOMAIN q : r[i] = q[i]
  BY AppendDomain
<1> HIDE DEF r
<1>2. Elements(r) = Elements(q) \cup {m}
  BY <1>1 DEF Elements
<1> QED
  BY <1>2 DEF r

LEMMA TailElements ==
  ASSUME NEW S, NEW q \in Seq(S), q # <<>>
  PROVE  Elements(q) = {Head(q)} \cup Elements(Tail(q))
<1> DEFINE r == Tail(q)
<1>1. /\ 1 \in DOMAIN q /\ q[1] = Head(q)
      /\ \A i \in DOMAIN r : i + 1 \in DOMAIN q /\ r[i] = q[i + 1]
      /\ \A i \in DOMAIN q : i = 1 \/ (i - 1 \in DOMAIN r /\ r[i - 1] = q[i])
  BY TailDomain
<1> HIDE DEF r
<1>2. Elements(q) = {Head(q)} \cup Elements(r)
  BY <1>1 DEF Elements
<1> QED
  BY <1>2 DEF r

\* A signal more: what it says is said last.
LEMMA AppendChange ==
  ASSUME NEW S, NEW q \in Seq(S), NEW m \in S, NEW w, NEW W
  PROVE  /\ Changed(Append(q, m), w) <=> Changed(q, w) \/ Changes(m, w)
         /\ Changes(m, w) /\ (Comes(m) <=> w \in W) => LastChange(Append(q, m), w, W)
         /\ ~Changes(m, w) /\ LastChange(q, w, W) => LastChange(Append(q, m), w, W)
<1> DEFINE r == Append(q, m)
           n == Len(q) + 1
<1>1. /\ DOMAIN r = DOMAIN q \cup {n} /\ r[n] = m
      /\ \A i \in DOMAIN q : r[i] = q[i] /\ i \in Nat /\ i < n
      /\ n \in Nat
  BY AppendDomain
<1>2. Changed(r, w) <=> Changed(q, w) \/ Changes(m, w)
  BY AppendElements DEF Changed
<1> HIDE DEF r, n
<1>3. ASSUME Changes(m, w), Comes(m) <=> w \in W PROVE LastChange(r, w, W)
  <2> SUFFICES ASSUME NEW i \in DOMAIN r,
                      \A j \in DOMAIN r : Changes(r[j], w) => j <= i
               PROVE  Comes(r[i]) <=> w \in W
    BY DEF LastChange
  <2>1. n <= i
    BY <1>1, <1>3
  <2>2. i = n
    BY <1>1, <2>1
  <2> QED
    BY <2>2, <1>1, <1>3
<1>4. ASSUME ~Changes(m, w), LastChange(q, w, W) PROVE LastChange(r, w, W)
  <2> SUFFICES ASSUME NEW i \in DOMAIN r, Changes(r[i], w),
                      \A j \in DOMAIN r : Changes(r[j], w) => j <= i
               PROVE  Comes(r[i]) <=> w \in W
    BY DEF LastChange
  <2>1. i \in DOMAIN q /\ r[i] = q[i]
    BY <1>1, <1>4
  <2>2. \A j \in DOMAIN q : Changes(q[j], w) => j <= i
    BY <1>1
  <2> QED
    BY <1>4, <2>1, <2>2 DEF LastChange
<1> QED
  BY <1>2, <1>3, <1>4 DEF r

LEMMA AppendFocus ==
  ASSUME NEW S, NEW q \in Seq(S), NEW m \in S, NEW w
  PROVE  /\ Focuses(Append(q, m)) <=> Focuses(q) \/ IsFocus(m)
         /\ IsFocus(m) => LastFocus(Append(q, m), m.window) /\ FocusAfter(Append(q, m), w)
         /\ ~IsFocus(m) /\ LastFocus(q, w) => LastFocus(Append(q, m), w)
         /\ ~Changes(m, w) /\ FocusAfter(q, w) => FocusAfter(Append(q, m), w)
<1> DEFINE r == Append(q, m)
           n == Len(q) + 1
<1>1. /\ DOMAIN r = DOMAIN q \cup {n} /\ r[n] = m
      /\ \A i \in DOMAIN q : r[i] = q[i] /\ i \in Nat /\ i < n
      /\ n \in Nat
  BY AppendDomain
<1>2. Focuses(r) <=> Focuses(q) \/ IsFocus(m)
  BY AppendElements DEF Focuses
<1> HIDE DEF r, n
<1>3. ASSUME IsFocus(m) PROVE LastFocus(r, m.window) /\ FocusAfter(r, w)
  <2>1. /\ n \in DOMAIN r /\ IsFocus(r[n]) /\ r[n].window = m.window
        /\ \A j \in DOMAIN r : j <= n
    BY <1>1, <1>3
  <2>2. ASSUME NEW i \in DOMAIN r, Changes(r[i], w)
        PROVE  \E j \in DOMAIN r : i < j /\ IsFocus(r[j])
    <3>1. i # n
      BY <1>1, <1>3, <2>2 DEF Changes
    <3> QED
      BY <3>1, <1>1, <1>3
  <2> QED
    BY <2>1, <2>2 DEF LastFocus, FocusAfter
<1>4. ASSUME ~IsFocus(m), LastFocus(q, w) PROVE LastFocus(r, w)
  <2> SUFFICES ASSUME Focuses(q)
               PROVE  \E i \in DOMAIN r : IsFocus(r[i]) /\ r[i].window = w
                                          /\ \A j \in DOMAIN r : IsFocus(r[j]) => j <= i
    BY <1>2, <1>4 DEF LastFocus
  <2>1. PICK i \in DOMAIN q : IsFocus(q[i]) /\ q[i].window = w
                              /\ \A j \in DOMAIN q : IsFocus(q[j]) => j <= i
    BY <1>4 DEF LastFocus
  <2>2. i \in DOMAIN r /\ r[i] = q[i]
    BY <1>1
  <2>3. \A j \in DOMAIN r : IsFocus(r[j]) => j <= i
    BY <1>1, <1>4, <2>1
  <2> QED
    BY <2>1, <2>2, <2>3
<1>5. ASSUME ~Changes(m, w), FocusAfter(q, w) PROVE FocusAfter(r, w)
  <2> SUFFICES ASSUME NEW i \in DOMAIN r, Changes(r[i], w)
               PROVE  \E j \in DOMAIN r : i < j /\ IsFocus(r[j])
    BY DEF FocusAfter
  <2>1. i \in DOMAIN q /\ r[i] = q[i]
    BY <1>1, <1>5
  <2>2. PICK j \in DOMAIN q : i < j /\ IsFocus(q[j])
    BY <1>5, <2>1 DEF FocusAfter
  <2> QED
    BY <2>2, <1>1
<1> QED
  BY <1>2, <1>3, <1>4, <1>5 DEF r

\* The first signal is handled: what was said last still is.
LEMMA TailChange ==
  ASSUME NEW S, NEW q \in Seq(S), q # <<>>, NEW w, NEW W
  PROVE  /\ Changed(q, w) <=> Changes(Head(q), w) \/ Changed(Tail(q), w)
         /\ LastChange(q, w, W) =>
              /\ LastChange(Tail(q), w, W)
              /\ Changes(Head(q), w) /\ ~Changed(Tail(q), w) => (Comes(Head(q)) <=> w \in W)
<1> DEFINE r == Tail(q)
<1>1. /\ 1 \in DOMAIN q /\ q[1] = Head(q)
      /\ \A i \in DOMAIN r : i \in Nat /\ i >= 1 /\ i + 1 \in DOMAIN q /\ r[i] = q[i + 1]
      /\ \A i \in DOMAIN q : i \in Nat
            /\ (i = 1 \/ (i - 1 \in DOMAIN r /\ r[i - 1] = q[i]))
  BY TailDomain
<1>2. Changed(q, w) <=> Changes(Head(q), w) \/ Changed(r, w)
  BY TailElements DEF Changed
<1> HIDE DEF r
<1>3. ASSUME LastChange(q, w, W) PROVE LastChange(r, w, W)
  <2> SUFFICES ASSUME NEW i \in DOMAIN r, Changes(r[i], w),
                      \A j \in DOMAIN r : Changes(r[j], w) => j <= i
               PROVE  Comes(r[i]) <=> w \in W
    BY DEF LastChange
  <2>1. i + 1 \in DOMAIN q /\ Changes(q[i + 1], w) /\ q[i + 1] = r[i]
    BY <1>1
  <2>2. ASSUME NEW j \in DOMAIN q, Changes(q[j], w) PROVE j <= i + 1
    <3>1. CASE j = 1
      BY <3>1, <1>1
    <3>2. CASE j # 1
      <4>1. j - 1 \in DOMAIN r /\ Changes(r[j - 1], w)
        BY <3>2, <2>2, <1>1
      <4>2. j - 1 <= i
        BY <4>1
      <4> QED
        BY <4>2, <1>1
    <3> QED
      BY <3>1, <3>2
  <2> QED
    BY <1>3, <2>1, <2>2 DEF LastChange
<1>4. ASSUME LastChange(q, w, W), Changes(Head(q), w), ~Changed(r, w)
      PROVE  Comes(Head(q)) <=> w \in W
  <2>1. ASSUME NEW j \in DOMAIN q, Changes(q[j], w) PROVE j <= 1
    <3>1. j \in Nat /\ ~(j - 1 \in DOMAIN r /\ r[j - 1] = q[j])
      BY <2>1, <1>1, <1>4 DEF Changed, Elements
    <3> QED
      BY <3>1, <1>1
  <2> QED
    BY <1>4, <1>1, <2>1 DEF LastChange
<1> QED
  BY <1>2, <1>3, <1>4 DEF r

LEMMA TailFocus ==
  ASSUME NEW S, NEW q \in Seq(S), q # <<>>, NEW w
  PROVE  /\ Focuses(q) <=> IsFocus(Head(q)) \/ Focuses(Tail(q))
         /\ LastFocus(q, w) =>
              /\ LastFocus(Tail(q), w)
              /\ IsFocus(Head(q)) /\ ~Focuses(Tail(q)) => Head(q).window = w
         /\ FocusAfter(q, w) =>
              /\ FocusAfter(Tail(q), w)
              /\ ~Focuses(Tail(q)) => ~Changed(q, w)
<1> DEFINE r == Tail(q)
<1>1. /\ 1 \in DOMAIN q /\ q[1] = Head(q)
      /\ \A i \in DOMAIN r : i \in Nat /\ i >= 1 /\ i + 1 \in DOMAIN q /\ r[i] = q[i + 1]
      /\ \A i \in DOMAIN q : i \in Nat
            /\ (i = 1 \/ (i - 1 \in DOMAIN r /\ r[i - 1] = q[i]))
  BY TailDomain
<1>2. Focuses(q) <=> IsFocus(Head(q)) \/ Focuses(r)
  BY TailElements DEF Focuses
<1> HIDE DEF r
<1>3. ASSUME LastFocus(q, w) PROVE LastFocus(r, w)
  <2> SUFFICES ASSUME NEW k \in DOMAIN r, IsFocus(r[k])
               PROVE  \E i \in DOMAIN r : IsFocus(r[i]) /\ r[i].window = w
                                          /\ \A j \in DOMAIN r : IsFocus(r[j]) => j <= i
    BY DEF LastFocus, Focuses, Elements
  <2>1. Focuses(q)
    BY <1>2 DEF Focuses, Elements
  <2>2. PICK i \in DOMAIN q : IsFocus(q[i]) /\ q[i].window = w
                              /\ \A j \in DOMAIN q : IsFocus(q[j]) => j <= i
    BY <1>3, <2>1 DEF LastFocus
  <2>3. k + 1 \in DOMAIN q /\ IsFocus(q[k + 1])
    BY <1>1
  <2>4. k + 1 <= i /\ k >= 1 /\ i \in Nat /\ k \in Nat
    BY <2>2, <2>3, <1>1
  <2>5. i # 1
    BY <2>4
  <2>6. i - 1 \in DOMAIN r /\ r[i - 1] = q[i]
    BY <2>5, <1>1
  <2>7. ASSUME NEW j \in DOMAIN r, IsFocus(r[j]) PROVE j <= i - 1
    <3>1. j + 1 \in DOMAIN q /\ IsFocus(q[j + 1]) /\ j \in Nat
      BY <2>7, <1>1
    <3>2. j + 1 <= i
      BY <3>1, <2>2
    <3> QED
      BY <3>1, <3>2, <2>4
  <2> QED
    BY <2>2, <2>6, <2>7
<1>4. ASSUME LastFocus(q, w), IsFocus(Head(q)), ~Focuses(r) PROVE Head(q).window = w
  <2>1. PICK i \in DOMAIN q : IsFocus(q[i]) /\ q[i].window = w
    BY <1>2, <1>4 DEF LastFocus
  <2>2. ~(i - 1 \in DOMAIN r /\ r[i - 1] = q[i])
    BY <2>1, <1>4 DEF Focuses, Elements
  <2> QED
    BY <2>1, <2>2, <1>1
<1>5. ASSUME FocusAfter(q, w) PROVE FocusAfter(r, w)
  <2> SUFFICES ASSUME NEW i \in DOMAIN r, Changes(r[i], w)
               PROVE  \E j \in DOMAIN r : i < j /\ IsFocus(r[j])
    BY DEF FocusAfter
  <2>1. i + 1 \in DOMAIN q /\ Changes(q[i + 1], w) /\ i \in Nat /\ i >= 1
    BY <1>1
  <2>2. PICK j \in DOMAIN q : i + 1 < j /\ IsFocus(q[j])
    BY <1>5, <2>1 DEF FocusAfter
  <2>3. j \in Nat /\ j # 1
    BY <2>1, <2>2, <1>1
  <2>4. j - 1 \in DOMAIN r /\ IsFocus(r[j - 1])
    BY <2>2, <2>3, <1>1
  <2>5. i < j - 1
    BY <2>1, <2>2, <2>3
  <2> QED
    BY <2>4, <2>5
<1>6. ASSUME FocusAfter(q, w), ~Focuses(r) PROVE ~Changed(q, w)
  <2> SUFFICES ASSUME NEW i \in DOMAIN q, Changes(q[i], w) PROVE FALSE
    BY DEF Changed, Elements
  <2>1. PICK j \in DOMAIN q : i < j /\ IsFocus(q[j])
    BY <1>6 DEF FocusAfter
  <2>2. i \in Nat /\ j \in Nat /\ (i = 1 \/ (i - 1 \in DOMAIN r))
    BY <1>1
  <2>3. j # 1
    BY <2>1, <2>2, <1>1
  <2>4. j - 1 \in DOMAIN r /\ r[j - 1] = q[j]
    BY <2>3, <1>1
  <2> QED
    BY <2>1, <2>4, <1>6 DEF Focuses, Elements
<1> QED
  BY <1>2, <1>3, <1>4, <1>5, <1>6 DEF r

\* A queue in which no focus is left says nothing after one.
LEMMA NoFocusNoChange ==
  ASSUME NEW q, NEW w, FocusAfter(q, w), ~Focuses(q)
  PROVE  ~Changed(q, w)
BY DEF FocusAfter, Focuses, Changed, Elements

LEMMA EmptyQueue ==
  ASSUME NEW q, q = <<>>
  PROVE  /\ Elements(q) = {} /\ ~Focuses(q)
         /\ \A w : ~Changed(q, w) /\ LastFocus(q, w) /\ FocusAfter(q, w)
         /\ \A w, W : LastChange(q, w, W)
BY DEF Elements, Focuses, Changed, LastFocus, FocusAfter, LastChange

-----------------------------------------------------------------------------
(* What the bridge knows of BAMF's windows.                                *)

\* BAMF's signals end with the truth about every window, and where there is none
\* the bridge knows it already, unless it could not read the window.
BridgeHears ==
  /\ bridge \in {"down", "connected", "running"}
  /\ bridge # "running" => windows = {}
  /\ bridge = "down" => bamfSignals = <<>>
  /\ \A w \in WindowIds : LastChange(bamfSignals, w, bamfWindows)
  /\ bridge = "running" =>
       \A w \in WindowIds \ lost :
         Changed(bamfSignals, w) \/ (w \in windows <=> w \in bamfWindows)

\* The last focus BAMF signals is the active window, which comes before it.
BridgeHearsFocus ==
  bamfActive # None =>
    LastFocus(bamfSignals, bamfActive) /\ FocusAfter(bamfSignals, bamfActive)

LEMMA ViewsSay ==
  ASSUME NEW w \in WindowIds
  PROVE  /\ \A t \in {"ViewOpened", "ViewClosed", "ActiveWindowChanged"} :
              /\ Stack!View(t, w) \in BamfSignals
              /\ Stack!View(t, w).type = t /\ Stack!View(t, w).window = w
         /\ Comes(Stack!View("ViewOpened", w)) /\ ~Comes(Stack!View("ViewClosed", w))
         /\ \A t \in {"ViewOpened", "ViewClosed"} :
              ~IsFocus(Stack!View(t, w)) /\ \A x : Changes(Stack!View(t, w), x) <=> x = w
         /\ IsFocus(Stack!View("ActiveWindowChanged", w))
         /\ \A x : ~Changes(Stack!View("ActiveWindowChanged", w), x)
BY DEF Stack!View, BamfSignals, Comes, IsFocus, Changes

LEMMA TellsSay ==
  ASSUME NEW w \in WindowIds
  PROVE  /\ \A t \in {"WindowCreated", "WindowDestroyed", "FocusedWindowChanged"} :
              /\ Stack!Tell(t, w) \in StackSignals
              /\ Stack!Tell(t, w).type = t /\ Stack!Tell(t, w).window = w
         /\ Comes(Stack!Tell("WindowCreated", w)) /\ ~Comes(Stack!Tell("WindowDestroyed", w))
         /\ \A t \in {"WindowCreated", "WindowDestroyed"} :
              ~IsFocus(Stack!Tell(t, w)) /\ \A x : Changes(Stack!Tell(t, w), x) <=> x = w
         /\ IsFocus(Stack!Tell("FocusedWindowChanged", w))
         /\ \A x : ~Changes(Stack!Tell("FocusedWindowChanged", w), x)
BY DEF Stack!Tell, StackSignals, Comes, IsFocus, Changes

\* What was once lost counts as lost for good.
LEMMA LostGrows ==
  ASSUME [TNext]_allVars
  PROVE  lost \subseteq lost'
<1>1. CASE BridgeStep
  BY <1>1 DEF BridgeStep, Stack!Next, Stack!Bamf, Stack!BamfOpen, Stack!BamfClose,
     Stack!BamfActivate, Stack!BamfSignal, Stack!Miss, Stack!Emit, Stack!Constructor,
     Stack!Connect, Stack!LoadWindows, Stack!Crash, Stack!GetWindowStack, Stack!ActiveWindow,
     Stack!Handle, Stack!ViewOpened, Stack!ViewOpenedError, Stack!ViewClosed,
     Stack!ActiveWindowChanged
<1>2. CASE StartServiceEmpty
  BY <1>2 DEF StartServiceEmpty
<1>3. CASE StartService \/ StartServiceDeaf \/ Dispatch \/ Client \/ UNCHANGED allVars
  BY <1>3 DEF StartService, StartServiceDeaf, Dispatch, Client, busVars, allVars
<1> QED
  BY <1>1, <1>2, <1>3 DEF TNext

LEMMA BamfHears ==
  ASSUME BusTypeOK, BridgeHears, BridgeHearsFocus, Stack!Bamf, lost \subseteq lost'
  PROVE  BridgeHears' /\ BridgeHearsFocus'
<1>1. PICK w \in WindowIds : Stack!BamfOpen(w) \/ Stack!BamfClose(w) \/ Stack!BamfActivate(w)
  BY DEF Stack!Bamf
<1>2. UNCHANGED <<bridge, windows>>
  BY <1>1 DEF Stack!BamfOpen, Stack!BamfClose, Stack!BamfActivate, Stack!bridgeVars
<1>3. bamfSignals \in Seq(BamfSignals) /\ bamfActive \in bamfWindows \cup {None}
  BY DEF BusTypeOK
<1>4. \A x \in WindowIds : LastChange(bamfSignals, x, bamfWindows)
  BY DEF BridgeHears
<1>5. CASE Stack!BamfOpen(w)
  <2> DEFINE m == Stack!View("ViewOpened", w)
  <2>1. /\ w \notin bamfWindows /\ bamfWindows' = bamfWindows \cup {w} /\ bamfActive' = bamfActive
        /\ bamfSignals' = IF bridge \in {"connected", "running"}
                          THEN Append(bamfSignals, m) ELSE bamfSignals
    BY <1>5 DEF Stack!BamfOpen, Stack!BamfSignal
  <2>2. m \in BamfSignals /\ Comes(m) /\ ~IsFocus(m) /\ \A x : Changes(m, x) <=> x = w
    BY ViewsSay
  <2> HIDE DEF m
  <2>3. CASE bridge = "down"
    <3>1. bamfSignals' = <<>> /\ windows' = {}
      BY <2>1, <2>3, <1>2 DEF BridgeHears
    <3> QED
      BY <2>3, <3>1, <1>2, EmptyQueue DEF BridgeHears, BridgeHearsFocus
  <2>4. CASE bridge # "down"
    <3>1. bamfSignals' = Append(bamfSignals, m)
      BY <2>1, <2>4 DEF BridgeHears
    <3>2. \A x : Changed(bamfSignals', x) <=> Changed(bamfSignals, x) \/ x = w
      BY <3>1, <1>3, <2>2, AppendChange
    <3>3. ASSUME NEW x \in WindowIds PROVE LastChange(bamfSignals', x, bamfWindows')
      <4>1. CASE x = w
        <5>1. Changes(m, w) /\ (Comes(m) <=> w \in bamfWindows')
          BY <2>1, <2>2
        <5>2. LastChange(Append(bamfSignals, m), w, bamfWindows')
          BY <5>1, <1>3, <2>2, AppendChange
        <5> QED
          BY <4>1, <5>2, <3>1
      <4>2. CASE x # w
        <5>1. LastChange(bamfSignals', x, bamfWindows)
          BY <4>2, <3>1, <1>3, <1>4, <2>2, AppendChange
        <5> QED
          BY <5>1, <4>2, <2>1 DEF LastChange
      <4> QED
        BY <4>1, <4>2
    <3>4. bridge = "running" => \A x \in WindowIds \ lost' :
            Changed(bamfSignals', x) \/ (x \in windows <=> x \in bamfWindows')
      BY <3>2, <2>1 DEF BridgeHears
    <3>5. BridgeHearsFocus'
      <4> SUFFICES ASSUME bamfActive # None
                   PROVE  LastFocus(bamfSignals', bamfActive) /\ FocusAfter(bamfSignals', bamfActive)
        BY <2>1 DEF BridgeHearsFocus
      <4>1. ~Changes(m, bamfActive)
        BY <1>3, <2>1, <2>2
      <4> QED
        BY <4>1, <3>1, <1>3, <2>2, AppendFocus DEF BridgeHearsFocus
    <3> QED
      BY <2>4, <3>3, <3>4, <3>5, <1>2 DEF BridgeHears
  <2> QED
    BY <2>3, <2>4
<1>6. CASE Stack!BamfClose(w)
  <2> DEFINE m == Stack!View("ViewClosed", w)
  <2>1. /\ w \in bamfWindows /\ bamfWindows' = bamfWindows \ {w}
        /\ bamfActive' = IF bamfActive = w THEN None ELSE bamfActive
        /\ bamfSignals' = IF bridge \in {"connected", "running"}
                          THEN Append(bamfSignals, m) ELSE bamfSignals
    BY <1>6 DEF Stack!BamfClose, Stack!BamfSignal
  <2>2. m \in BamfSignals /\ ~Comes(m) /\ ~IsFocus(m) /\ \A x : Changes(m, x) <=> x = w
    BY ViewsSay
  <2> HIDE DEF m
  <2>3. CASE bridge = "down"
    <3>1. bamfSignals' = <<>> /\ windows' = {}
      BY <2>1, <2>3, <1>2 DEF BridgeHears
    <3> QED
      BY <2>3, <3>1, <1>2, EmptyQueue DEF BridgeHears, BridgeHearsFocus
  <2>4. CASE bridge # "down"
    <3>1. bamfSignals' = Append(bamfSignals, m)
      BY <2>1, <2>4 DEF BridgeHears
    <3>2. \A x : Changed(bamfSignals', x) <=> Changed(bamfSignals, x) \/ x = w
      BY <3>1, <1>3, <2>2, AppendChange
    <3>3. ASSUME NEW x \in WindowIds PROVE LastChange(bamfSignals', x, bamfWindows')
      <4>1. CASE x = w
        <5>1. Changes(m, w) /\ (Comes(m) <=> w \in bamfWindows')
          BY <2>1, <2>2
        <5>2. LastChange(Append(bamfSignals, m), w, bamfWindows')
          BY <5>1, <1>3, <2>2, AppendChange
        <5> QED
          BY <4>1, <5>2, <3>1
      <4>2. CASE x # w
        <5>1. LastChange(bamfSignals', x, bamfWindows)
          BY <4>2, <3>1, <1>3, <1>4, <2>2, AppendChange
        <5> QED
          BY <5>1, <4>2, <2>1 DEF LastChange
      <4> QED
        BY <4>1, <4>2
    <3>4. bridge = "running" => \A x \in WindowIds \ lost' :
            Changed(bamfSignals', x) \/ (x \in windows <=> x \in bamfWindows')
      BY <3>2, <2>1 DEF BridgeHears
    <3>5. BridgeHearsFocus'
      <4> SUFFICES ASSUME bamfActive # None, bamfActive # w
                   PROVE  LastFocus(bamfSignals', bamfActive) /\ FocusAfter(bamfSignals', bamfActive)
        BY <2>1 DEF BridgeHearsFocus
      <4>1. ~Changes(m, bamfActive)
        BY <2>2
      <4> QED
        BY <4>1, <3>1, <1>3, <2>2, AppendFocus DEF BridgeHearsFocus
    <3> QED
      BY <2>4, <3>3, <3>4, <3>5, <1>2 DEF BridgeHears
  <2> QED
    BY <2>3, <2>4
<1>7. CASE Stack!BamfActivate(w)
  <2> DEFINE m == Stack!View("ActiveWindowChanged", w)
  <2>1. /\ bamfWindows' = bamfWindows /\ bamfActive' = w
        /\ bamfSignals' = IF bridge \in {"connected", "running"}
                          THEN Append(bamfSignals, m) ELSE bamfSignals
    BY <1>7 DEF Stack!BamfActivate, Stack!BamfSignal
  <2>2. m \in BamfSignals /\ IsFocus(m) /\ m.window = w /\ \A x : ~Changes(m, x)
    BY ViewsSay
  <2> HIDE DEF m
  <2>3. CASE bridge = "down"
    <3>1. bamfSignals' = <<>> /\ windows' = {}
      BY <2>1, <2>3, <1>2 DEF BridgeHears
    <3> QED
      BY <2>3, <3>1, <1>2, EmptyQueue DEF BridgeHears, BridgeHearsFocus
  <2>4. CASE bridge # "down"
    <3>1. bamfSignals' = Append(bamfSignals, m)
      BY <2>1, <2>4 DEF BridgeHears
    <3>2. \A x : Changed(bamfSignals', x) <=> Changed(bamfSignals, x)
      BY <3>1, <1>3, <2>2, AppendChange
    <3>3. \A x \in WindowIds : LastChange(bamfSignals', x, bamfWindows')
      BY <3>1, <1>3, <1>4, <2>1, <2>2, AppendChange
    <3>4. bridge = "running" => \A x \in WindowIds \ lost' :
            Changed(bamfSignals', x) \/ (x \in windows <=> x \in bamfWindows')
      BY <3>2, <2>1 DEF BridgeHears
    <3>5. BridgeHearsFocus'
      <4>1. LastFocus(Append(bamfSignals, m), m.window) /\ FocusAfter(Append(bamfSignals, m), w)
        BY <1>3, <2>2, AppendFocus
      <4> QED
        BY <4>1, <3>1, <2>1, <2>2 DEF BridgeHearsFocus
    <3> QED
      BY <2>4, <3>3, <3>4, <3>5, <1>2 DEF BridgeHears
  <2> QED
    BY <2>3, <2>4
<1> QED
  BY <1>1, <1>5, <1>6, <1>7

\* What a handler of the bridge takes from BAMF's queue.
LEMMA ReceiveTakes ==
  ASSUME BusTypeOK, NEW w \in WindowIds, NEW t, Stack!Receive(t, w)
  PROVE  /\ bridge = "running" /\ bamfSignals # <<>>
         /\ Head(bamfSignals) = Stack!View(t, w) /\ bamfSignals' = Tail(bamfSignals)
         /\ UNCHANGED <<bamfWindows, bamfActive, bridge, reply>>
         /\ Elements(bamfSignals) = {Stack!View(t, w)} \cup Elements(bamfSignals')
         /\ \A x : Changed(bamfSignals, x) <=> Changes(Stack!View(t, w), x) \/ Changed(bamfSignals', x)
         /\ Focuses(bamfSignals) <=> IsFocus(Stack!View(t, w)) \/ Focuses(bamfSignals')
<1>1. /\ bridge = "running" /\ bamfSignals # <<>>
      /\ Head(bamfSignals) = Stack!View(t, w) /\ bamfSignals' = Tail(bamfSignals)
      /\ UNCHANGED <<bamfWindows, bamfActive, bridge, reply>>
  BY DEF Stack!Receive, Stack!bamfVars
<1>2. bamfSignals \in Seq(BamfSignals)
  BY DEF BusTypeOK
<1>3. Elements(bamfSignals) = {Stack!View(t, w)} \cup Elements(bamfSignals')
  BY <1>1, <1>2, TailElements
<1> QED
  BY <1>1, <1>3 DEF Changed, Focuses

LEMMA HandleHears ==
  ASSUME BusTypeOK, BridgeHears, BridgeHearsFocus, Stack!Handle, lost \subseteq lost'
  PROVE  BridgeHears' /\ BridgeHearsFocus'
<1>1. PICK w \in WindowIds :
        Stack!ViewOpened(w) \/ Stack!ViewOpenedError(w) \/ Stack!ViewClosed(w)
          \/ Stack!ActiveWindowChanged(w)
  BY DEF Stack!Handle
<1>2. PICK t \in {"ViewOpened", "ViewClosed", "ActiveWindowChanged"} : Stack!Receive(t, w)
  BY <1>1 DEF Stack!ViewOpened, Stack!ViewOpenedError, Stack!ViewClosed, Stack!ActiveWindowChanged
<1> DEFINE m == Stack!View(t, w)
<1>3. /\ bridge = "running" /\ bamfSignals # <<>>
      /\ Head(bamfSignals) = m /\ bamfSignals' = Tail(bamfSignals)
      /\ UNCHANGED <<bamfWindows, bamfActive, bridge>>
      /\ \A x : Changed(bamfSignals, x) <=> Changes(m, x) \/ Changed(bamfSignals', x)
  BY <1>2, ReceiveTakes
<1>4. bamfSignals \in Seq(BamfSignals)
  BY DEF BusTypeOK
<1>5. \A x \in WindowIds :
        /\ LastChange(bamfSignals', x, bamfWindows)
        /\ Changes(m, x) /\ ~Changed(bamfSignals', x) => (Comes(m) <=> x \in bamfWindows)
  <2> SUFFICES ASSUME NEW x \in WindowIds
               PROVE  /\ LastChange(bamfSignals', x, bamfWindows)
                      /\ Changes(m, x) /\ ~Changed(bamfSignals', x) => (Comes(m) <=> x \in bamfWindows)
    OBVIOUS
  <2>1. LastChange(bamfSignals, x, bamfWindows)
    BY DEF BridgeHears
  <2> HIDE DEF m
  <2> QED
    BY <2>1, <1>3, <1>4, TailChange
<1>6. BridgeHearsFocus'
  BY <1>3, <1>4, TailFocus DEF BridgeHearsFocus
<1>7. ASSUME NEW x \in WindowIds \ lost', ~Changed(bamfSignals', x)
      PROVE  x \in windows' <=> x \in bamfWindows
  <2>1. x \notin lost
    BY <1>7
  <2>2. CASE Changes(m, x)
    <3>1. /\ x = w
          /\ (t = "ViewOpened" /\ Comes(m)) \/ (t = "ViewClosed" /\ ~Comes(m))
      <4>1. CASE t = "ViewOpened"
        BY <2>2, <4>1, ViewsSay
      <4>2. CASE t = "ViewClosed"
        BY <2>2, <4>2, ViewsSay
      <4>3. CASE t = "ActiveWindowChanged"
        BY <2>2, <4>3, ViewsSay
      <4> QED
        BY <4>1, <4>2, <4>3
    <3>2. Comes(m) <=> w \in bamfWindows
      BY <3>1, <2>2, <1>5, <1>7
    <3>3. CASE t = "ViewOpened"
      <4>1. ~Stack!ViewClosed(w) /\ ~Stack!ActiveWindowChanged(w)
        BY <3>3, <1>3, ViewsSay DEF Stack!ViewClosed, Stack!ActiveWindowChanged, Stack!Receive
      <4>2. w \in bamfWindows
        BY <3>1, <3>2, <3>3
      <4>3. CASE Stack!ViewOpened(w)
        BY <4>2, <4>3, <3>1 DEF Stack!ViewOpened
      <4>4. CASE Stack!ViewOpenedError(w)
        BY <4>2, <4>4, <3>1, <1>7 DEF Stack!ViewOpenedError
      <4> QED
        BY <4>1, <4>3, <4>4, <1>1
    <3>4. CASE t = "ViewClosed"
      <4>1. Stack!ViewClosed(w)
        BY <3>4, <1>1, <1>3, ViewsSay
           DEF Stack!ViewOpened, Stack!ViewOpenedError, Stack!ActiveWindowChanged, Stack!Receive
      <4> QED
        BY <4>1, <3>1, <3>2, <3>4 DEF Stack!ViewClosed
    <3> QED
      BY <3>1, <3>3, <3>4
  <2>3. CASE ~Changes(m, x)
    <3>1. x \in windows <=> x \in bamfWindows
      BY <2>1, <2>3, <1>3, <1>7 DEF BridgeHears
    <3>2. x \in windows' <=> x \in windows
      <4>1. CASE x # w
        BY <4>1, <1>1 DEF Stack!ViewOpened, Stack!ViewOpenedError, Stack!ViewClosed,
                          Stack!ActiveWindowChanged
      <4>2. CASE x = w
        <5>1. t = "ActiveWindowChanged"
          BY <4>2, <2>3, ViewsSay
        <5>2. Stack!ActiveWindowChanged(w)
          BY <5>1, <1>1, <1>3, ViewsSay
             DEF Stack!ViewOpened, Stack!ViewOpenedError, Stack!ViewClosed, Stack!Receive
        <5> QED
          BY <5>2 DEF Stack!ActiveWindowChanged
      <4> QED
        BY <4>1, <4>2
    <3> QED
      BY <3>1, <3>2
  <2> QED
    BY <2>2, <2>3
<1> HIDE DEF m
<1> QED
  BY <1>3, <1>5, <1>6, <1>7 DEF BridgeHears

LEMMA BridgeLifeHears ==
  ASSUME BusTypeOK, BridgeHears, BridgeHearsFocus, lost \subseteq lost',
         Stack!Constructor \/ Stack!Crash \/ Stack!GetWindowStack \/ Stack!ActiveWindow
  PROVE  BridgeHears' /\ BridgeHearsFocus'
<1>1. CASE Stack!Connect
  BY <1>1 DEF BridgeHears, BridgeHearsFocus, Stack!Connect, Stack!bamfVars
<1>2. CASE Stack!LoadWindows
  <2>1. /\ bridge' = "running" /\ UNCHANGED <<bamfWindows, bamfActive, bamfSignals>>
        /\ \A w \in WindowIds \ lost' : w \in windows' <=> w \in bamfWindows
    BY <1>2 DEF Stack!LoadWindows, Stack!bamfVars
  <2> QED
    BY <2>1 DEF BridgeHears, BridgeHearsFocus
<1>3. CASE Stack!Crash
  <2>1. /\ bridge' = "down" /\ windows' = {} /\ bamfSignals' = <<>>
        /\ UNCHANGED <<bamfWindows, bamfActive>>
    BY <1>3 DEF Stack!Crash, Stack!bamfVars
  <2> QED
    BY <2>1, EmptyQueue DEF BridgeHears, BridgeHearsFocus
<1>4. CASE Stack!GetWindowStack \/ Stack!ActiveWindow
  <2>1. UNCHANGED <<bamfWindows, bamfActive, bamfSignals, bridge, windows>>
    BY <1>4 DEF Stack!GetWindowStack, Stack!ActiveWindow, Stack!bamfVars
  <2> QED
    BY <2>1 DEF BridgeHears, BridgeHearsFocus
<1> QED
  BY <1>1, <1>2, <1>3, <1>4 DEF Stack!Constructor

LEMMA InitHears == TInit => BridgeHears /\ BridgeHearsFocus
BY EmptyQueue DEF TInit, Stack!Init, BridgeHears, BridgeHearsFocus

LEMMA NextHears ==
  ASSUME BusTypeOK, BridgeHears, BridgeHearsFocus, [TNext]_allVars
  PROVE  BridgeHears' /\ BridgeHearsFocus'
<1>1. lost \subseteq lost'
  BY LostGrows
<1>2. CASE BridgeStep
  BY <1>1, <1>2, BamfHears, HandleHears, BridgeLifeHears DEF BridgeStep, Stack!Next
<1>3. CASE UNCHANGED <<bamfWindows, bamfActive, bamfSignals, bridge, windows>>
  BY <1>1, <1>3 DEF BridgeHears, BridgeHearsFocus
<1> QED
  BY <1>2, <1>3 DEF stackVars, TNext, StartService, StartServiceEmpty, StartServiceDeaf, Dispatch, Client,
                    allVars

\* While GetWindowStack waits for the active window, its caller waits as well, and a
\* window of the bridge that is not in the stack it has read is gone or changes since.
AskedIsKnown ==
  asked # None =>
    /\ subscription # "connected" /\ reply = None
    /\ \A w \in windows \ lost : w \in asked \/ Changed(bamfSignals, w)

LEMMA InitAsked == TInit => AskedIsKnown
BY DEF TInit, Stack!Init, AskedIsKnown

LEMMA NextAsked ==
  ASSUME BusTypeOK, BridgeHears, AskedIsKnown, [TNext]_allVars
  PROVE  AskedIsKnown'
<1>1. lost \subseteq lost'
  BY LostGrows
<1> SUFFICES ASSUME asked' # None PROVE AskedIsKnown'
  BY DEF AskedIsKnown
<1>2. CASE BridgeStep
  <2>1. subscription' = subscription
    BY <1>2 DEF BridgeStep, vars
  <2>2. CASE Stack!Bamf
    <3>1. PICK v \in WindowIds : Stack!BamfOpen(v) \/ Stack!BamfClose(v) \/ Stack!BamfActivate(v)
      BY <2>2 DEF Stack!Bamf
    <3>2. UNCHANGED <<bridge, windows, asked, reply>>
      BY <3>1 DEF Stack!BamfOpen, Stack!BamfClose, Stack!BamfActivate, Stack!bridgeVars
    <3>3. PICK t \in {"ViewOpened", "ViewClosed", "ActiveWindowChanged"} :
            Stack!BamfSignal(Stack!View(t, v))
      BY <3>1 DEF Stack!BamfOpen, Stack!BamfClose, Stack!BamfActivate
    <3> DEFINE m == Stack!View(t, v)
    <3>4. m \in BamfSignals /\ bamfSignals' = Append(bamfSignals, m)
      BY <3>2, <3>3, ViewsSay DEF Stack!BamfSignal, BusTypeOK
    <3> HIDE DEF m
    <3>5. Elements(bamfSignals') = Elements(bamfSignals) \cup {m}
      BY <3>4, AppendElements DEF BusTypeOK
    <3> QED
      BY <1>1, <2>1, <3>2, <3>5 DEF AskedIsKnown, Changed
  <2>3. CASE Stack!GetWindowStack
    <3>1. /\ bridge = "running" /\ subscription # "connected" /\ reply = None
          /\ UNCHANGED <<windows, bamfSignals>>
          /\ \/ asked' = bamfWindows \cap windows /\ reply' = reply
             \/ asked' = None
      BY <2>3 DEF Stack!GetWindowStack
    <3>2. \A w \in windows \ lost : w \in bamfWindows \/ Changed(bamfSignals, w)
      BY <3>1 DEF BridgeHears, BusTypeOK
    <3> QED
      BY <1>1, <2>1, <3>1, <3>2 DEF AskedIsKnown, Changed
  <2>4. CASE Stack!Handle \/ Stack!Constructor \/ Stack!ActiveWindow \/ Stack!Crash
    BY <2>4 DEF BusTypeOK, Stack!Handle, Stack!ViewOpened, Stack!ViewOpenedError,
       Stack!ViewClosed, Stack!ActiveWindowChanged, Stack!Receive, Stack!Constructor,
       Stack!Connect, Stack!LoadWindows, Stack!ActiveWindow, Stack!Crash
  <2> QED
    BY <1>2, <2>2, <2>3, <2>4 DEF BridgeStep, Stack!Next
<1>3. CASE StartService \/ StartServiceEmpty
  BY <1>3 DEF StartService, StartServiceEmpty, stackVars, AskedIsKnown
<1>4. CASE Dispatch
  BY <1>4 DEF Dispatch, WindowCreated, WindowDestroyed, FocusedWindowChanged, stackVars,
     AskedIsKnown
<1>5. CASE StartServiceDeaf \/ Client \/ UNCHANGED allVars
  BY <1>5 DEF StartServiceDeaf, ConstructError, Client, OpenQuery, RefreshQuery, allVars, vars,
     stackVars, busVars, AskedIsKnown, Changed
<1> QED
  BY <1>2, <1>3, <1>4, <1>5 DEF TNext

-----------------------------------------------------------------------------
(* What the service is told of the bridge's windows.                       *)

\* The service has been answered, or has gone on without an answer.
Informed == subscription = "connected" \/ (subscription = "constructing" /\ reply # None)

\* The windows the service was told of.
Told(w) == w \in IF subscription = "connected" THEN reported[AppOf[w]] ELSE DOMAIN reply.stack

\* Told of w, when all signals are dispatched, as if the windows were W.
Believed(w, W) ==
  LastChange(signals, w, W) /\ (Changed(signals, w) \/ (Told(w) <=> w \in W))

\* The service comes to know of w what the bridge does, or of a window that has
\* closed and the bridge left out of its answer nothing; of a bridge that is not
\* running, what BAMF has.
Hears(w) ==
  IF bridge = "running"
  THEN Believed(w, windows) \/ (w \in windows /\ Believed(w, {}) /\ Changed(bamfSignals, w))
  ELSE Believed(w, bamfWindows)

ServiceHears ==
  Informed => \A w \in WindowIds \ lost : AppOf[w] \in Applications => Hears(w)

\* Signals only reach a service that listens, and the answer names applications by
\* their windows.
AnswersAreTrue ==
  /\ subscription # "connected" => signals = <<>>
  /\ reply # None => \A w \in DOMAIN reply.stack : reply.stack[w] = AppOf[w]

LEMMA InitAnswers == TInit => AnswersAreTrue /\ ServiceHears
BY DEF TInit, Init, Stack!Init, AnswersAreTrue, ServiceHears, Informed

LEMMA NextAnswers ==
  ASSUME AnswersAreTrue, [TNext]_allVars
  PROVE  AnswersAreTrue'
<1>1. CASE BridgeStep
  <2>1. subscription' = subscription
    BY <1>1 DEF BridgeStep, vars
  <2>2. subscription # "connected" => signals' = signals
    BY <1>1 DEF BridgeStep, Stack!Next, Stack!Bamf, Stack!BamfOpen, Stack!BamfClose,
       Stack!BamfActivate, Stack!Emit, Stack!Constructor, Stack!Connect, Stack!LoadWindows,
       Stack!Crash, Stack!Handle, Stack!GetWindowStack, Stack!ActiveWindow,
       Stack!ViewOpened, Stack!ViewOpenedError, Stack!ViewClosed, Stack!ActiveWindowChanged
  <2>3. \/ reply' = reply
        \/ reply'.stack = Stack!NoWindows
        \/ asked # None /\ reply'.stack = Stack!Entries(asked)
    BY <1>1 DEF BridgeStep, Stack!Next, Stack!Bamf, Stack!BamfOpen, Stack!BamfClose,
       Stack!BamfActivate, Stack!Constructor, Stack!Connect, Stack!LoadWindows,
       Stack!Crash, Stack!Handle, Stack!Receive, Stack!GetWindowStack, Stack!ActiveWindow,
       Stack!ViewOpened, Stack!ViewOpenedError, Stack!ViewClosed, Stack!ActiveWindowChanged
  <2>4. /\ DOMAIN Stack!NoWindows = {}
        /\ DOMAIN Stack!Entries(asked) = asked
        /\ \A w \in asked : Stack!Entries(asked)[w] = AppOf[w]
    BY DEF Stack!NoWindows, Stack!Entries
  <2>5. reply' # None => \A w \in DOMAIN reply'.stack : reply'.stack[w] = AppOf[w]
    BY <2>3, <2>4 DEF AnswersAreTrue
  <2> QED
    BY <2>1, <2>2, <2>5 DEF AnswersAreTrue
<1>2. CASE StartService \/ StartServiceEmpty \/ StartServiceDeaf
  BY <1>2 DEF StartService, StartServiceEmpty, StartServiceDeaf, Construct, ConstructError,
              busVars, AnswersAreTrue
<1>3. CASE Dispatch
  BY <1>3 DEF Dispatch, WindowCreated, WindowDestroyed, FocusedWindowChanged, AnswersAreTrue
<1>4. CASE Client
  BY <1>4 DEF Client, OpenQuery, RefreshQuery, busVars, AnswersAreTrue
<1>5. CASE UNCHANGED allVars
  BY <1>5 DEF allVars, vars, busVars, AnswersAreTrue
<1> QED
  BY <1>1, <1>2, <1>3, <1>4, <1>5 DEF TNext

\* What is believed of w is about w alone.
LEMMA BelievedOfOne ==
  ASSUME NEW w, NEW W, NEW V, Believed(w, W), w \in W <=> w \in V
  PROVE  Believed(w, V)
BY DEF Believed, LastChange

\* A signal of the bridge that is sent to the service is the last it hears, and one
\* that is not sent is lost.
LEMMA EmitTells ==
  ASSUME BusTypeOK, NEW m \in StackSignals, Stack!Emit(m), UNCHANGED <<subscription, reply, reported>>,
         Informed, NEW w \in WindowIds \ lost'
  PROVE  /\ m.window = w => subscription = "connected"
         /\ subscription = "connected" => signals' = Append(signals, m)
         /\ \A W : Changes(m, w) /\ (Comes(m) <=> w \in W)
                     => LastChange(signals', w, W) /\ Changed(signals', w)
         /\ \A W : ~Changes(m, w) /\ Believed(w, W)
                     => /\ LastChange(signals', w, W)
                        /\ Changed(signals', w) \/ (Told(w)' <=> w \in W)
<1>1. signals \in Seq(StackSignals)
  BY DEF BusTypeOK
<1>2. Told(w)' = Told(w)
  BY DEF Told
<1>3. CASE subscription = "connected"
  <2>1. signals' = Append(signals, m)
    BY <1>3 DEF Stack!Emit
  <2>2. ASSUME NEW W, Changes(m, w), Comes(m) <=> w \in W
        PROVE  LastChange(signals', w, W) /\ Changed(signals', w)
    BY <1>1, <2>1, <2>2, AppendChange
  <2>3. ASSUME NEW W, ~Changes(m, w), Believed(w, W)
        PROVE  /\ LastChange(signals', w, W)
               /\ Changed(signals', w) \/ (Told(w)' <=> w \in W)
    <3>1. LastChange(signals, w, W) /\ (Changed(signals, w) \/ (Told(w) <=> w \in W))
      BY <2>3 DEF Believed
    <3>2. LastChange(signals', w, W) /\ (Changed(signals', w) <=> Changed(signals, w))
      BY <1>1, <2>1, <2>3, <3>1, AppendChange
    <3> QED
      BY <3>1, <3>2, <1>2
  <2> QED
    BY <1>3, <2>1, <2>2, <2>3
<1>4. CASE subscription # "connected"
  <2>1. lost' = lost \cup {m.window} /\ signals' = signals
    BY <1>4 DEF Stack!Emit, Stack!Miss, Informed
  <2>2. ~Changes(m, w) /\ m.window # w
    BY <2>1 DEF Changes
  <2> QED
    BY <1>2, <1>4, <2>1, <2>2 DEF Believed
<1> QED
  BY <1>3, <1>4

LEMMA BamfTells ==
  ASSUME BusTypeOK, BridgeHears, ServiceHears, Stack!Bamf, UNCHANGED vars
  PROVE  ServiceHears'
<1>1. PICK v \in WindowIds : Stack!BamfOpen(v) \/ Stack!BamfClose(v) \/ Stack!BamfActivate(v)
  BY DEF Stack!Bamf
<1>2. UNCHANGED <<subscription, reported, reply, signals, bridge, windows>>
  BY <1>1 DEF vars, Stack!BamfOpen, Stack!BamfClose, Stack!BamfActivate, Stack!bridgeVars
<1>3. PICK t \in {"ViewOpened", "ViewClosed", "ActiveWindowChanged"} :
        Stack!BamfSignal(Stack!View(t, v))
  BY <1>1 DEF Stack!BamfOpen, Stack!BamfClose, Stack!BamfActivate
<1> SUFFICES ASSUME Informed', NEW w \in WindowIds \ lost', AppOf[w] \in Applications
             PROVE  Hears(w)'
  BY DEF ServiceHears
<1>4. Informed /\ lost \subseteq lost' /\ (bridge # "running" => v \in lost')
  <2>1. Informed
    BY <1>2 DEF Informed
  <2>2. Stack!View(t, v).window = v
    BY ViewsSay
  <2> QED
    BY <1>3, <2>1, <2>2 DEF Informed, Stack!BamfSignal, Stack!Miss
<1>5. Hears(w)
  BY <1>4 DEF ServiceHears
<1>6. \A W : Believed(w, W) => LastChange(signals', w, W) /\ (Changed(signals', w) \/ (Told(w)' <=> w \in W))
  BY <1>2 DEF Believed, Told
<1>7. CASE bridge = "running"
  <2> DEFINE m == Stack!View(t, v)
  <2>1. m \in BamfSignals
    BY ViewsSay
  <2>2. bamfSignals' = Append(bamfSignals, m)
    BY <1>3, <1>7 DEF Stack!BamfSignal
  <2> HIDE DEF m
  <2>3. Elements(bamfSignals') = Elements(bamfSignals) \cup {m}
    BY <2>1, <2>2, AppendElements DEF BusTypeOK
  <2>4. Changed(bamfSignals, w) => Changed(bamfSignals', w)
    BY <2>3 DEF Changed
  <2> QED
    BY <2>4, <1>2, <1>5, <1>6, <1>7 DEF Hears, Believed
<1>8. CASE bridge # "running"
  <2>1. w # v
    BY <1>4, <1>8
  <2>2. w \in bamfWindows' <=> w \in bamfWindows
    BY <2>1, <1>1 DEF Stack!BamfOpen, Stack!BamfClose, Stack!BamfActivate
  <2>3. Believed(w, bamfWindows')
    BY <2>2, <1>5, <1>8, BelievedOfOne DEF Hears
  <2> QED
    BY <2>3, <1>2, <1>6, <1>8 DEF Hears, Believed
<1> QED
  BY <1>7, <1>8

LEMMA HandleTells ==
  ASSUME BusTypeOK, BridgeHears, ServiceHears, Stack!Handle, UNCHANGED vars, lost \subseteq lost'
  PROVE  ServiceHears'
<1>1. PICK v \in WindowIds :
        Stack!ViewOpened(v) \/ Stack!ViewOpenedError(v) \/ Stack!ViewClosed(v)
          \/ Stack!ActiveWindowChanged(v)
  BY DEF Stack!Handle
<1>2. PICK t \in {"ViewOpened", "ViewClosed", "ActiveWindowChanged"} : Stack!Receive(t, v)
  BY <1>1 DEF Stack!ViewOpened, Stack!ViewOpenedError, Stack!ViewClosed, Stack!ActiveWindowChanged
<1>3. /\ bridge = "running" /\ bamfSignals # <<>>
      /\ Head(bamfSignals) = Stack!View(t, v) /\ bamfSignals' = Tail(bamfSignals)
      /\ UNCHANGED <<bamfWindows, bridge, reply>>
      /\ \A x : Changed(bamfSignals, x) <=> Changes(Stack!View(t, v), x) \/ Changed(bamfSignals', x)
  BY <1>2, ReceiveTakes
<1>4. UNCHANGED <<subscription, reported>>
  BY DEF vars
<1> SUFFICES ASSUME Informed', NEW w \in WindowIds \ lost', AppOf[w] \in Applications
             PROVE  Hears(w)'
  BY DEF ServiceHears
<1>5. Informed /\ w \notin lost
  BY <1>3, <1>4 DEF Informed
<1>6. Believed(w, windows) \/ (w \in windows /\ Believed(w, {}) /\ Changed(bamfSignals, w))
  BY <1>3, <1>5 DEF ServiceHears, Hears
<1>7. SUFFICES \/ LastChange(signals', w, windows') /\ (Changed(signals', w) \/ (Told(w)' <=> w \in windows'))
               \/ /\ w \in windows' /\ Changed(bamfSignals', w)
                  /\ LastChange(signals', w, {}) /\ (Changed(signals', w) \/ (Told(w)' <=> w \in {}))
  BY <1>3 DEF Hears, Believed
<1>8. Told(w)' = Told(w)
  BY <1>3, <1>4 DEF Told
<1>9. ASSUME NEW m \in StackSignals, Stack!Emit(m), ~Changes(m, w),
             w \in windows' <=> w \in windows, Changed(bamfSignals', w) <=> Changed(bamfSignals, w)
      PROVE  \/ LastChange(signals', w, windows') /\ (Changed(signals', w) \/ (Told(w)' <=> w \in windows'))
             \/ /\ w \in windows' /\ Changed(bamfSignals', w)
                /\ LastChange(signals', w, {}) /\ (Changed(signals', w) \/ (Told(w)' <=> w \in {}))
  <2>1. \A W : Believed(w, W)
           => LastChange(signals', w, W) /\ (Changed(signals', w) \/ (Told(w)' <=> w \in W))
    BY <1>3, <1>4, <1>5, <1>9, EmitTells
  <2>2. Believed(w, windows) => Believed(w, windows')
    BY <1>9, BelievedOfOne
  <2> QED
    BY <1>6, <1>9, <2>1, <2>2
<1>10. ASSUME UNCHANGED signals, w \in windows' <=> w \in windows,
              Changed(bamfSignals', w) <=> Changed(bamfSignals, w)
       PROVE  \/ LastChange(signals', w, windows') /\ (Changed(signals', w) \/ (Told(w)' <=> w \in windows'))
              \/ /\ w \in windows' /\ Changed(bamfSignals', w)
                 /\ LastChange(signals', w, {}) /\ (Changed(signals', w) \/ (Told(w)' <=> w \in {}))
  <2>1. Believed(w, windows) => Believed(w, windows')
    BY <1>10, BelievedOfOne
  <2> QED
    BY <1>6, <1>8, <1>10, <2>1 DEF Believed
<1>11. CASE Stack!ViewOpened(v)
  <2> DEFINE m == Stack!Tell("WindowCreated", v)
  <2>1. /\ Stack!Receive("ViewOpened", v) /\ windows' = windows \cup {v} /\ Stack!Emit(m)
    BY <1>11 DEF Stack!ViewOpened
  <2>2. m \in StackSignals /\ Comes(m) /\ \A x : Changes(m, x) <=> x = v
    BY TellsSay
  <2> HIDE DEF m
  <2>3. CASE w = v
    <3>1. Changes(m, w) /\ (Comes(m) <=> w \in windows')
      BY <2>1, <2>2, <2>3
    <3>2. LastChange(signals', w, windows') /\ Changed(signals', w)
      BY <3>1, <2>1, <2>2, <1>3, <1>4, <1>5, EmitTells
    <3> QED
      BY <3>2
  <2>4. CASE w # v
    <3>1. Changed(bamfSignals', w) <=> Changed(bamfSignals, w)
      BY <2>1, <2>4, ReceiveTakes, ViewsSay
    <3> QED
      BY <3>1, <1>9, <2>1, <2>2, <2>4
  <2> QED
    BY <2>3, <2>4
<1>12. CASE Stack!ViewOpenedError(v)
  <2>1. Stack!Receive("ViewOpened", v) /\ UNCHANGED <<windows, signals>>
    BY <1>12 DEF Stack!ViewOpenedError
  <2>2. CASE w # v
    <3>1. Changed(bamfSignals', w) <=> Changed(bamfSignals, w)
      BY <2>1, <2>2, ReceiveTakes, ViewsSay
    <3> QED
      BY <3>1, <1>10, <2>1
  <2>3. CASE w = v
    <3>1. w \notin bamfWindows
      BY <1>12, <2>3 DEF Stack!ViewOpenedError
    <3> DEFINE h == Stack!View("ViewOpened", v)
    <3>2. Head(bamfSignals) = h /\ Changes(h, w) /\ Comes(h)
      BY <2>1, <2>3, ReceiveTakes, ViewsSay
    <3>3. LastChange(bamfSignals, w, bamfWindows) /\ bamfSignals \in Seq(BamfSignals)
      BY DEF BridgeHears, BusTypeOK
    <3> HIDE DEF h
    <3>4. Changed(bamfSignals', w)
      BY <3>1, <3>2, <3>3, <1>3, TailChange
    <3>5. Changed(bamfSignals, w)
      BY <3>3, <3>2, <1>3, TailChange
    <3> QED
      BY <3>4, <3>5, <1>10, <2>1
  <2> QED
    BY <2>2, <2>3
<1>13. CASE Stack!ViewClosed(v)
  <2> DEFINE m == Stack!Tell("WindowDestroyed", v)
  <2>1. /\ Stack!Receive("ViewClosed", v) /\ windows' = windows \ {v}
        /\ IF v \in windows THEN Stack!Emit(m) ELSE signals' = signals
    BY <1>13 DEF Stack!ViewClosed
  <2>2. m \in StackSignals /\ ~Comes(m) /\ \A x : Changes(m, x) <=> x = v
    BY TellsSay
  <2> HIDE DEF m
  <2>3. CASE w = v /\ v \in windows
    <3>1. Changes(m, w) /\ (Comes(m) <=> w \in windows') /\ Stack!Emit(m)
      BY <2>1, <2>2, <2>3
    <3>2. LastChange(signals', w, windows') /\ Changed(signals', w)
      BY <3>1, <2>2, <1>3, <1>4, <1>5, EmitTells
    <3> QED
      BY <3>2
  <2>4. CASE w = v /\ v \notin windows
    <3>1. Believed(w, windows) /\ windows' = windows /\ signals' = signals
      BY <1>6, <2>1, <2>4
    <3> QED
      BY <3>1, <1>8 DEF Believed
  <2>5. CASE w # v
    <3>1. Changed(bamfSignals', w) <=> Changed(bamfSignals, w)
      BY <2>1, <2>5, ReceiveTakes, ViewsSay
    <3> QED
      BY <3>1, <1>9, <1>10, <2>1, <2>2, <2>5
  <2> QED
    BY <2>3, <2>4, <2>5
<1>14. CASE Stack!ActiveWindowChanged(v)
  <2> DEFINE m == Stack!Tell("FocusedWindowChanged", v)
  <2>1. /\ Stack!Receive("ActiveWindowChanged", v) /\ windows' = windows
        /\ IF v \in windows THEN Stack!Emit(m) ELSE signals' = signals
    BY <1>14 DEF Stack!ActiveWindowChanged
  <2>2. m \in StackSignals /\ \A x : ~Changes(m, x)
    BY TellsSay
  <2> HIDE DEF m
  <2>3. Changed(bamfSignals', w) <=> Changed(bamfSignals, w)
    BY <2>1, ReceiveTakes, ViewsSay
  <2> QED
    BY <2>3, <1>9, <1>10, <2>1, <2>2
<1> QED
  BY <1>1, <1>11, <1>12, <1>13, <1>14

LEMMA BridgeLifeTells ==
  ASSUME BusTypeOK, BridgeHears, AskedIsKnown, ServiceHears, AnswersAreTrue, AnswersAreTrue',
         Stack!Constructor \/ Stack!Crash \/ Stack!GetWindowStack \/ Stack!ActiveWindow,
         UNCHANGED vars, lost \subseteq lost'
  PROVE  ServiceHears'
<1>1. UNCHANGED <<subscription, reported, signals, bamfWindows>>
  BY DEF vars, Stack!Constructor, Stack!Connect, Stack!LoadWindows, Stack!Crash,
         Stack!GetWindowStack, Stack!ActiveWindow, Stack!bamfVars
<1> SUFFICES ASSUME Informed', NEW w \in WindowIds \ lost', AppOf[w] \in Applications
             PROVE  Hears(w)'
  BY DEF ServiceHears
<1>2. w \notin lost
  OBVIOUS
<1>3. CASE reply' = reply
  <2>1. Informed /\ Told(w)' = Told(w)
    BY <1>1, <1>3 DEF Informed, Told
  <2>2. Hears(w)
    BY <1>2, <2>1 DEF ServiceHears
  <2>3. CASE Stack!Connect
    <3>1. bridge = "down" /\ bridge' = "connected"
      BY <2>3 DEF Stack!Connect
    <3> QED
      BY <3>1, <2>1, <2>2, <1>1 DEF Hears, Believed
  <2>4. CASE Stack!LoadWindows
    <3>1. /\ bridge = "connected" /\ bridge' = "running"
          /\ w \in bamfWindows <=> w \in windows'
      BY <2>4 DEF Stack!LoadWindows
    <3>2. Believed(w, bamfWindows)
      BY <2>2, <3>1 DEF Hears
    <3>3. Believed(w, windows')
      BY <3>1, <3>2, BelievedOfOne
    <3> QED
      BY <3>1, <3>3, <2>1, <1>1 DEF Hears, Believed
  <2>5. CASE Stack!Crash
    <3>1. asked = None
      BY <2>1 DEF AskedIsKnown, Informed
    <3>2. /\ bridge = "running" /\ bridge' = "down"
          /\ lost' = lost \cup {bamfSignals[i].window : i \in DOMAIN bamfSignals}
      BY <2>1, <2>5, <3>1 DEF Stack!Crash, Stack!Miss, Informed
    <3>3. ~Changed(bamfSignals, w)
      BY <3>2 DEF Changed, Changes, Elements
    <3>4. Believed(w, windows)
      BY <2>2, <3>2, <3>3 DEF Hears
    <3>5. w \in windows <=> w \in bamfWindows
      BY <1>2, <3>2, <3>3 DEF BridgeHears
    <3>6. Believed(w, bamfWindows)
      BY <3>4, <3>5, BelievedOfOne
    <3> QED
      BY <3>2, <3>6, <2>1, <1>1 DEF Hears, Believed
  <2>6. CASE Stack!GetWindowStack \/ Stack!ActiveWindow
    <3>1. UNCHANGED <<bridge, windows, bamfSignals>>
      BY <2>6 DEF Stack!GetWindowStack, Stack!ActiveWindow
    <3> QED
      BY <3>1, <2>1, <2>2, <1>1 DEF Hears, Believed
  <2> QED
    BY <2>3, <2>4, <2>5, <2>6 DEF Stack!Constructor
<1>4. CASE reply' # reply
  <2>1. subscription # "connected"
    BY <1>4 DEF AskedIsKnown, Stack!Constructor, Stack!Connect, Stack!LoadWindows, Stack!Crash,
       Stack!GetWindowStack, Stack!ActiveWindow
  <2>2. signals' = <<>>
    BY <2>1, <1>1 DEF AnswersAreTrue
  <2>3. \A W : LastChange(signals', w, W)
    BY <2>2, EmptyQueue
  <2>4. Told(w)' <=> w \in DOMAIN reply'.stack
    BY <2>1, <1>1 DEF Told
  <2>5. DOMAIN Stack!NoWindows = {} /\ DOMAIN Stack!Entries(asked) = asked
    BY DEF Stack!NoWindows, Stack!Entries
  <2>6. CASE Stack!Crash
    <3>1. bridge' = "down" /\ w \notin bamfWindows /\ reply'.stack = Stack!NoWindows
      BY <1>4, <2>6 DEF Stack!Crash
    <3> QED
      BY <3>1, <2>3, <2>4, <2>5, <1>1 DEF Hears, Believed
  <2>7. CASE Stack!GetWindowStack
    <3>1. /\ bridge = "running" /\ UNCHANGED <<bridge, windows, bamfSignals>>
          /\ w \notin bamfWindows \cap windows /\ reply'.stack = Stack!NoWindows
      BY <1>4, <2>7 DEF Stack!GetWindowStack
    <3>2. w \in windows => Changed(bamfSignals, w)
      BY <1>2, <3>1 DEF BridgeHears
    <3> QED
      BY <3>1, <3>2, <2>3, <2>4, <2>5 DEF Hears, Believed
  <2>8. CASE Stack!ActiveWindow
    <3>1. /\ asked # None /\ UNCHANGED <<bridge, windows, bamfSignals>>
          /\ reply'.stack = Stack!Entries(asked)
      BY <2>8 DEF Stack!ActiveWindow
    <3>2. bridge = "running" /\ asked \subseteq windows
      BY <3>1 DEF BusTypeOK
    <3>3. w \in windows => w \in asked \/ Changed(bamfSignals, w)
      BY <1>2, <3>1 DEF AskedIsKnown
    <3> QED
      BY <3>1, <3>2, <3>3, <2>3, <2>4, <2>5 DEF Hears, Believed
  <2> QED
    BY <1>4, <2>6, <2>7, <2>8 DEF Stack!Constructor, Stack!Connect, Stack!LoadWindows
<1> QED
  BY <1>3, <1>4

\* The constructor of the list works off the answer, or none.
LEMMA StartTells ==
  ASSUME BridgeHears, ServiceHears, AnswersAreTrue,
         StartService \/ StartServiceEmpty \/ StartServiceDeaf
  PROVE  ServiceHears'
<1>1. /\ subscription = "constructing"
      /\ UNCHANGED <<signals, bridge, windows, bamfWindows, bamfSignals>>
  BY DEF StartService, StartServiceEmpty, StartServiceDeaf, Construct, ConstructError, stackVars,
         busVars
<1>2. signals = <<>>
  BY <1>1 DEF AnswersAreTrue
<1> SUFFICES ASSUME Informed', NEW w \in WindowIds \ lost', AppOf[w] \in Applications
             PROVE  Hears(w)'
  BY DEF ServiceHears
<1>3. CASE StartService
  <2>1. reply # None /\ Construct(reply.stack, reply.focus) /\ lost' = lost
    BY <1>3 DEF StartService
  <2>2. Informed
    BY <1>1, <2>1 DEF Informed
  <2>3. Hears(w)
    BY <2>1, <2>2 DEF ServiceHears
  <2>4. /\ subscription' = "connected"
        /\ reported'[AppOf[w]] = {x \in DOMAIN reply.stack : reply.stack[x] = AppOf[w]}
    BY <2>1 DEF Construct
  <2>5. Told(w)' <=> Told(w)
    BY <1>1, <2>1, <2>4 DEF Told, AnswersAreTrue
  <2> QED
    BY <1>1, <2>3, <2>5 DEF Hears, Believed
<1>4. CASE StartServiceEmpty
  <2>1. Construct(Stack!NoWindows, None) /\ lost' = lost \cup bamfWindows
    BY <1>4 DEF StartServiceEmpty
  <2>2. /\ subscription' = "connected"
        /\ reported'[AppOf[w]] = {x \in DOMAIN Stack!NoWindows : Stack!NoWindows[x] = AppOf[w]}
    BY <2>1 DEF Construct
  <2>3. ~Told(w)'
    BY <2>2 DEF Told, Stack!NoWindows
  <2>4. \A W : LastChange(signals', w, W)
    BY <1>1, <1>2, EmptyQueue
  <2>5. w \notin bamfWindows /\ w \notin lost
    BY <2>1
  <2>6. bridge = "running" /\ w \in windows => Changed(bamfSignals, w)
    BY <2>5 DEF BridgeHears
  <2> QED
    BY <1>1, <2>3, <2>4, <2>5, <2>6 DEF Hears, Believed
<1>5. CASE StartServiceDeaf
  BY <1>5 DEF StartServiceDeaf, ConstructError, Informed
<1> QED
  BY <1>3, <1>4, <1>5

\* What a signal the service dispatches does to what it was told.
LEMMA DispatchReports ==
  ASSUME BusTypeOK, TypeOK, Dispatch, NEW w \in WindowIds, AppOf[w] \in Applications
  PROVE  /\ subscription = "connected" /\ subscription' = "connected"
         /\ Head(signals) \in StackSignals
         /\ Changes(Head(signals), w) => (Told(w)' <=> Comes(Head(signals)))
         /\ ~Changes(Head(signals), w) => (Told(w)' <=> Told(w))
<1> DEFINE m == Head(signals)
           a == AppOf[w]
<1>1. /\ signals # <<>> /\ m \in StackSignals /\ m.app = AppOf[m.window]
  <2>1. signals # <<>> /\ signals \in Seq(StackSignals)
    BY DEF Dispatch, BusTypeOK
  <2>2. m = signals[1] /\ 1 \in DOMAIN signals /\ m \in StackSignals
    BY <2>1
  <2> QED
    BY <2>1, <2>2 DEF BusTypeOK
<1>2. m.window \in WindowIds /\ m.app \in AppIds
  BY <1>1 DEF StackSignals
<1>3. reported \in [Applications -> SUBSET WindowIds]
  BY DEF TypeOK
<1>4. subscription = "connected" /\ subscription' = subscription
  BY DEF Dispatch, WindowCreated, WindowDestroyed, FocusedWindowChanged
<1>5. CASE m.type = "WindowCreated" /\ WindowCreated(m.window, m.app)
  <2>1. ~IsFocus(m) /\ Comes(m)
    BY <1>5 DEF IsFocus, Comes
  <2>2. reported' = IF m.app \in Applications
                    THEN [reported EXCEPT ![m.app] = @ \cup {m.window}] ELSE reported
    BY <1>5 DEF WindowCreated
  <2> HIDE DEF m
  <2>3. m.window = w => w \in reported'[a]
    BY <2>2, <1>1, <1>3
  <2>4. m.window # w => (w \in reported'[a] <=> w \in reported[a])
    BY <2>2, <1>3
  <2> QED
    BY <1>1, <1>4, <2>1, <2>3, <2>4 DEF Changes, Told, m
<1>6. CASE m.type = "WindowDestroyed" /\ WindowDestroyed(m.window, m.app)
  <2>1. ~IsFocus(m) /\ ~Comes(m)
    BY <1>6 DEF IsFocus, Comes
  <2>2. reported' = IF m.app \in Applications
                    THEN [reported EXCEPT ![m.app] = @ \ {m.window}] ELSE reported
    BY <1>6 DEF WindowDestroyed
  <2> HIDE DEF m
  <2>3. m.window = w => w \notin reported'[a]
    BY <2>2, <1>1, <1>3
  <2>4. m.window # w => (w \in reported'[a] <=> w \in reported[a])
    BY <2>2, <1>3
  <2> QED
    BY <1>1, <1>4, <2>1, <2>3, <2>4 DEF Changes, Told, m
<1>7. CASE m.type = "FocusedWindowChanged" /\ FocusedWindowChanged(m.window, m.app)
  <2>1. IsFocus(m)
    BY <1>7 DEF IsFocus
  <2>2. reported' = reported
    BY <1>7 DEF FocusedWindowChanged
  <2> QED
    BY <1>1, <1>4, <2>1, <2>2 DEF Changes, Told
<1> QED
  BY <1>5, <1>6, <1>7 DEF Dispatch

LEMMA DispatchTells ==
  ASSUME BusTypeOK, TypeOK, ServiceHears, Dispatch
  PROVE  ServiceHears'
<1>1. /\ signals # <<>> /\ signals' = Tail(signals) /\ signals \in Seq(StackSignals)
      /\ UNCHANGED <<reply, lost, bridge, windows, bamfWindows, bamfSignals>>
  BY DEF Dispatch, stackVars, BusTypeOK
<1> SUFFICES ASSUME NEW w \in WindowIds \ lost, AppOf[w] \in Applications
             PROVE  Hears(w)'
  BY <1>1 DEF ServiceHears
<1> DEFINE m == Head(signals)
<1>2. /\ subscription = "connected"
      /\ Changes(m, w) => (Told(w)' <=> Comes(m))
      /\ ~Changes(m, w) => (Told(w)' <=> Told(w))
  BY DispatchReports
<1>3. Hears(w)
  BY <1>2 DEF ServiceHears, Informed
<1>4. ASSUME NEW W, Believed(w, W)
      PROVE  LastChange(signals', w, W) /\ (Changed(signals', w) \/ (Told(w)' <=> w \in W))
  <2>1. LastChange(signals, w, W) /\ (Changed(signals, w) \/ (Told(w) <=> w \in W))
    BY <1>4 DEF Believed
  <2>2. /\ LastChange(signals', w, W)
        /\ Changes(m, w) /\ ~Changed(signals', w) => (Comes(m) <=> w \in W)
        /\ Changed(signals, w) <=> Changes(m, w) \/ Changed(signals', w)
    BY <1>1, <2>1, TailChange
  <2> HIDE DEF m
  <2> QED
    BY <1>2, <2>1, <2>2
<1> QED
  BY <1>1, <1>3, <1>4 DEF Hears, Believed

LEMMA NextTells ==
  ASSUME BusTypeOK, TypeOK, BridgeHears, AskedIsKnown, AnswersAreTrue, ServiceHears,
         [TNext]_allVars
  PROVE  ServiceHears'
<1>1. lost \subseteq lost' /\ AnswersAreTrue'
  BY LostGrows, NextAnswers
<1>2. CASE BridgeStep
  BY <1>1, <1>2, BamfTells, HandleTells, BridgeLifeTells DEF BridgeStep, Stack!Next
<1>3. CASE StartService \/ StartServiceEmpty \/ StartServiceDeaf
  BY <1>3, StartTells
<1>4. CASE Dispatch
  BY <1>4, DispatchTells
<1>5. CASE Client \/ UNCHANGED allVars
  BY <1>5 DEF Client, OpenQuery, RefreshQuery, allVars, vars, stackVars, busVars, ServiceHears,
     Informed, Hears, Believed, Told
<1> QED
  BY <1>2, <1>3, <1>4, <1>5 DEF TNext

-----------------------------------------------------------------------------
(* What the service is told of the focus.                                  *)

HasFocus(w) ==
  IF subscription = "connected"
  THEN focusedWindowId = w /\ focusedApplication = AppOf[w]
  ELSE reply.focus = w

\* The focus of BAMF that the bridge has worked off and nobody has missed.
FocusIsTold ==
  /\ Informed /\ ~Focuses(bamfSignals)
  /\ bamfActive # None /\ bamfActive \notin lost /\ AppOf[bamfActive] \in Applications

\* Such a focus is the last the service hears of, after its window, or it has it.
FocusReaches ==
  FocusIsTold =>
    /\ LastFocus(signals, bamfActive) /\ FocusAfter(signals, bamfActive)
    /\ Focuses(signals) \/ HasFocus(bamfActive)

\* The window that has such a focus is known to the bridge, and to the service when
\* it has dispatched what it was sent of it.
LEMMA FocusedIsKnown ==
  ASSUME BusTypeOK, BridgeHears, BridgeHearsFocus, bamfActive # None, ~Focuses(bamfSignals)
  PROVE  /\ bamfActive \in WindowIds /\ bamfActive \in bamfWindows
         /\ ~Changed(bamfSignals, bamfActive)
         /\ bridge = "running" /\ bamfActive \notin lost => bamfActive \in windows
         /\ FocusIsTold /\ ServiceHears => Changed(signals, bamfActive) \/ Told(bamfActive)
<1> DEFINE w == bamfActive
<1>1. w \in WindowIds /\ w \in bamfWindows
  BY DEF BusTypeOK
<1>2. ~Changed(bamfSignals, w)
  BY NoFocusNoChange DEF BridgeHearsFocus
<1>3. bridge = "running" /\ w \notin lost => w \in windows
  BY <1>1, <1>2 DEF BridgeHears
<1>4. ASSUME FocusIsTold, ServiceHears PROVE Changed(signals, w) \/ Told(w)
  <2>1. Hears(w) /\ w \notin lost
    BY <1>1, <1>4 DEF FocusIsTold, ServiceHears
  <2>2. CASE bridge = "running"
    BY <2>1, <2>2, <1>2, <1>3 DEF Hears, Believed
  <2>3. CASE bridge # "running"
    BY <2>1, <2>3, <1>1 DEF Hears, Believed
  <2> QED
    BY <2>2, <2>3
<1> QED
  BY <1>1, <1>2, <1>3, <1>4

LEMMA BamfFocuses ==
  ASSUME BusTypeOK, BridgeHears, FocusReaches, Stack!Bamf, UNCHANGED vars, lost \subseteq lost'
  PROVE  FocusReaches'
<1>1. PICK v \in WindowIds : Stack!BamfOpen(v) \/ Stack!BamfClose(v) \/ Stack!BamfActivate(v)
  BY DEF Stack!Bamf
<1>2. UNCHANGED <<subscription, focusedWindowId, focusedApplication, reply, signals, bridge>>
  BY <1>1 DEF vars, listVars, Stack!BamfOpen, Stack!BamfClose, Stack!BamfActivate,
              Stack!bridgeVars
<1>3. PICK t \in {"ViewOpened", "ViewClosed", "ActiveWindowChanged"} :
        Stack!BamfSignal(Stack!View(t, v)) /\ (Stack!BamfActivate(v) => t = "ActiveWindowChanged")
  BY <1>1 DEF Stack!BamfOpen, Stack!BamfClose, Stack!BamfActivate
<1> SUFFICES ASSUME FocusIsTold'
             PROVE  /\ LastFocus(signals, bamfActive') /\ FocusAfter(signals, bamfActive')
                    /\ Focuses(signals) \/ HasFocus(bamfActive)'
  BY <1>2 DEF FocusReaches
<1> DEFINE m == Stack!View(t, v)
<1>4. m \in BamfSignals /\ m.window = v /\ (t = "ActiveWindowChanged" => IsFocus(m))
  BY ViewsSay
<1>5. /\ bamfSignals' = IF bridge \in {"connected", "running"}
                        THEN Append(bamfSignals, m) ELSE bamfSignals
      /\ bridge # "running" /\ Informed => v \in lost'
  BY <1>3, <1>4 DEF Stack!BamfSignal, Stack!Miss, Informed
<1>6. Informed /\ ~Focuses(bamfSignals')
  BY <1>2 DEF FocusIsTold, Informed
<1> HIDE DEF m
<1>7. bridge \in {"connected", "running"} => ~IsFocus(m) /\ ~Focuses(bamfSignals)
  BY <1>4, <1>5, <1>6, AppendFocus DEF BusTypeOK
<1>8. ~Stack!BamfActivate(v)
  <2> SUFFICES ASSUME Stack!BamfActivate(v) PROVE FALSE
    OBVIOUS
  <2>1. bamfActive' = v
    BY DEF Stack!BamfActivate
  <2>2. bridge # "running"
    BY <1>3, <1>4, <1>7
  <2> QED
    BY <2>1, <2>2, <1>5, <1>6 DEF FocusIsTold
<1>9. bamfActive' = bamfActive
  BY <1>1, <1>8 DEF Stack!BamfOpen, Stack!BamfClose, FocusIsTold
<1>10. ~Focuses(bamfSignals)
  BY <1>5, <1>6, <1>7
<1>11. FocusIsTold
  BY <1>6, <1>9, <1>10 DEF FocusIsTold
<1> QED
  BY <1>2, <1>9, <1>11 DEF FocusReaches, HasFocus

LEMMA HandleFocuses ==
  ASSUME BusTypeOK, BridgeHears, BridgeHearsFocus, ServiceHears, FocusReaches, Stack!Handle,
         UNCHANGED vars, lost \subseteq lost'
  PROVE  FocusReaches'
<1>1. PICK v \in WindowIds :
        Stack!ViewOpened(v) \/ Stack!ViewOpenedError(v) \/ Stack!ViewClosed(v)
          \/ Stack!ActiveWindowChanged(v)
  BY DEF Stack!Handle
<1>2. PICK t \in {"ViewOpened", "ViewClosed", "ActiveWindowChanged"} : Stack!Receive(t, v)
  BY <1>1 DEF Stack!ViewOpened, Stack!ViewOpenedError, Stack!ViewClosed, Stack!ActiveWindowChanged
<1>3. /\ bridge = "running" /\ bamfSignals # <<>>
      /\ Head(bamfSignals) = Stack!View(t, v) /\ bamfSignals' = Tail(bamfSignals)
      /\ UNCHANGED <<bamfWindows, bamfActive, bridge, reply>>
      /\ \A x : Changed(bamfSignals, x) <=> Changes(Stack!View(t, v), x) \/ Changed(bamfSignals', x)
      /\ Focuses(bamfSignals) <=> IsFocus(Stack!View(t, v)) \/ Focuses(bamfSignals')
  BY <1>2, ReceiveTakes
<1>4. UNCHANGED <<subscription, focusedWindowId, focusedApplication, reported>>
  BY DEF vars, listVars
<1> DEFINE w == bamfActive
<1> SUFFICES ASSUME FocusIsTold'
             PROVE  /\ LastFocus(signals', w) /\ FocusAfter(signals', w)
                    /\ Focuses(signals') \/ HasFocus(w)
  BY <1>3, <1>4 DEF FocusReaches, HasFocus
<1>5. /\ Informed /\ ~Focuses(bamfSignals') /\ w # None /\ w \in WindowIds \ lost' /\ w \notin lost
      /\ AppOf[w] \in Applications /\ signals \in Seq(StackSignals) /\ bamfSignals \in Seq(BamfSignals)
  BY <1>3, <1>4 DEF FocusIsTold, Informed, BusTypeOK
<1>6. CASE Stack!ActiveWindowChanged(v)
  <2>1. Stack!Receive("ActiveWindowChanged", v)
    BY <1>6 DEF Stack!ActiveWindowChanged
  <2> DEFINE h == Stack!View("ActiveWindowChanged", v)
  <2>2. h.window = v /\ IsFocus(h) /\ Head(bamfSignals) = h
    BY <2>1, ViewsSay, ReceiveTakes
  <2> HIDE DEF h
  <2>3. v = w /\ ~Changed(bamfSignals, w)
    BY <2>2, <1>3, <1>5, TailFocus DEF BridgeHearsFocus
  <2>4. w \in windows
    BY <2>3, <1>3, <1>5 DEF BridgeHears, BusTypeOK
  <2> DEFINE m == Stack!Tell("FocusedWindowChanged", w)
  <2>5. Stack!Emit(m)
    BY <1>6, <2>3, <2>4 DEF Stack!ActiveWindowChanged
  <2>6. m \in StackSignals /\ m.window = w /\ IsFocus(m)
    BY <1>5, TellsSay
  <2> HIDE DEF m
  <2>7. signals' = Append(signals, m)
    BY <2>5, <2>6, <1>3, <1>4, <1>5, EmitTells
  <2>8. LastFocus(Append(signals, m), m.window) /\ FocusAfter(Append(signals, m), w)
        /\ Focuses(Append(signals, m))
    BY <2>6, <1>5, AppendFocus
  <2> QED
    BY <2>6, <2>7, <2>8
<1>7. CASE ~Stack!ActiveWindowChanged(v)
  <2>1. t \in {"ViewOpened", "ViewClosed"}
    BY <1>1, <1>2, <1>7, <1>3, ViewsSay
       DEF Stack!ViewOpened, Stack!ViewOpenedError, Stack!ViewClosed, Stack!Receive
  <2>2. ~IsFocus(Stack!View(t, v)) /\ Changes(Stack!View(t, v), v)
    BY <2>1, ViewsSay
  <2>3. ~Focuses(bamfSignals) /\ Changed(bamfSignals, v)
    BY <2>2, <1>3, <1>5
  <2>4. v # w
    BY <2>3, <1>5, FocusedIsKnown
  <2>5. /\ LastFocus(signals, w) /\ FocusAfter(signals, w)
        /\ Focuses(signals) \/ HasFocus(w)
    BY <2>3, <1>5 DEF FocusReaches, FocusIsTold
  <2>6. signals' = signals \/ \E k \in {"WindowCreated", "WindowDestroyed"} :
                                signals' = Append(signals, Stack!Tell(k, v))
    BY <1>1, <1>7 DEF Stack!ViewOpened, Stack!ViewOpenedError, Stack!ViewClosed, Stack!Emit
  <2>7. ASSUME NEW k \in {"WindowCreated", "WindowDestroyed"}, signals' = Append(signals, Stack!Tell(k, v))
        PROVE  /\ LastFocus(signals', w) /\ FocusAfter(signals', w)
               /\ Focuses(signals) => Focuses(signals')
    <3> DEFINE m == Stack!Tell(k, v)
    <3>1. m \in StackSignals /\ ~IsFocus(m) /\ ~Changes(m, w)
      BY <2>4, TellsSay
    <3>2. signals' = Append(signals, m)
      BY <2>7
    <3> HIDE DEF m
    <3> QED
      BY <3>1, <3>2, <2>5, <1>5, AppendFocus
  <2> QED
    BY <2>5, <2>6, <2>7
<1> QED
  BY <1>6, <1>7

\* A bridge that dies loses the focus it was not told of yet; the answer it gives
\* marks the active window, or the focus counts as lost.
LEMMA BridgeLifeFocuses ==
  ASSUME BusTypeOK, BridgeHears, BridgeHearsFocus, AskedIsKnown, FocusReaches, AnswersAreTrue',
         Stack!Constructor \/ Stack!Crash \/ Stack!GetWindowStack \/ Stack!ActiveWindow,
         UNCHANGED vars, lost \subseteq lost'
  PROVE  FocusReaches'
<1>1. /\ UNCHANGED <<subscription, focusedWindowId, focusedApplication>>
      /\ UNCHANGED <<signals, bamfWindows, bamfActive>>
  BY DEF vars, listVars, Stack!Constructor, Stack!Connect, Stack!LoadWindows, Stack!Crash,
         Stack!GetWindowStack, Stack!ActiveWindow, Stack!bamfVars
<1> DEFINE w == bamfActive
<1> SUFFICES ASSUME FocusIsTold'
             PROVE  /\ LastFocus(signals, w) /\ FocusAfter(signals, w)
                    /\ Focuses(signals) \/ HasFocus(w)'
  BY <1>1 DEF FocusReaches, HasFocus
<1>2. /\ Informed' /\ ~Focuses(bamfSignals')
      /\ w # None /\ w \notin lost' /\ w \notin lost /\ AppOf[w] \in Applications
      /\ w \in bamfWindows
  BY <1>1 DEF FocusIsTold, BusTypeOK
<1>3. CASE reply' = reply
  <2>1. Informed /\ HasFocus(w)' = HasFocus(w)
    BY <1>1, <1>2, <1>3 DEF Informed, HasFocus
  <2>2. ~Focuses(bamfSignals)
    <3>1. CASE Stack!Crash
      <4>1. asked = None
        BY <2>1 DEF AskedIsKnown, Informed
      <4>2. lost' = lost \cup {bamfSignals[i].window : i \in DOMAIN bamfSignals}
        BY <2>1, <3>1, <4>1 DEF Stack!Crash, Stack!Miss, Informed
      <4> QED
        BY <4>2, <1>2 DEF BridgeHearsFocus, LastFocus
    <3>2. CASE ~Stack!Crash
      BY <3>2, <1>2 DEF Stack!Constructor, Stack!Connect, Stack!LoadWindows,
         Stack!GetWindowStack, Stack!ActiveWindow
    <3> QED
      BY <3>1, <3>2
  <2> QED
    BY <1>2, <2>1, <2>2 DEF FocusReaches, FocusIsTold
<1>4. CASE reply' # reply
  <2>1. subscription # "connected"
    BY <1>4 DEF AskedIsKnown, Stack!Constructor, Stack!Connect, Stack!LoadWindows, Stack!Crash,
       Stack!GetWindowStack, Stack!ActiveWindow
  <2>2. signals = <<>>
    BY <2>1, <1>1 DEF AnswersAreTrue
  <2>3. ~Stack!Crash
    BY <1>2, <1>4 DEF Stack!Crash
  <2>4. bridge = "running" /\ bamfSignals' = bamfSignals
    BY <1>4, <2>3 DEF BusTypeOK, Stack!Constructor, Stack!Connect, Stack!LoadWindows,
       Stack!GetWindowStack, Stack!ActiveWindow
  <2>5. w \in windows /\ ~Changed(bamfSignals, w)
    BY <1>2, <2>4, FocusedIsKnown
  <2>6. ~Stack!GetWindowStack
    BY <1>2, <1>4, <2>5 DEF Stack!GetWindowStack
  <2>7. Stack!ActiveWindow
    BY <1>4, <2>3, <2>6 DEF Stack!Constructor, Stack!Connect, Stack!LoadWindows
  <2>8. w \in asked
    BY <1>2, <2>5, <2>7 DEF AskedIsKnown, Stack!ActiveWindow
  <2>9. reply'.focus = w
    BY <1>2, <2>7, <2>8 DEF Stack!ActiveWindow
  <2> QED
    BY <1>1, <2>1, <2>2, <2>9, EmptyQueue DEF HasFocus
<1> QED
  BY <1>3, <1>4

\* The constructor of the list takes the focus from the answer.
LEMMA StartFocuses ==
  ASSUME BusTypeOK, AnswersAreTrue, FocusReaches,
         StartService \/ StartServiceEmpty \/ StartServiceDeaf
  PROVE  FocusReaches'
<1>1. /\ subscription = "constructing"
      /\ UNCHANGED <<signals, bamfWindows, bamfActive, bamfSignals>>
  BY DEF StartService, StartServiceEmpty, StartServiceDeaf, Construct, ConstructError, stackVars,
         busVars
<1>2. signals = <<>>
  BY <1>1 DEF AnswersAreTrue
<1> DEFINE w == bamfActive
<1> SUFFICES ASSUME FocusIsTold'
             PROVE  /\ LastFocus(signals, w) /\ FocusAfter(signals, w)
                    /\ Focuses(signals) \/ HasFocus(w)'
  BY <1>1 DEF FocusReaches, HasFocus
<1>3. /\ Informed' /\ ~Focuses(bamfSignals)
      /\ w # None /\ w \notin lost' /\ AppOf[w] \in Applications
      /\ w \in bamfWindows
  BY <1>1 DEF FocusIsTold, BusTypeOK
<1>4. LastFocus(signals, w) /\ FocusAfter(signals, w) /\ ~Focuses(signals)
  BY <1>2, EmptyQueue
<1>5. CASE StartService
  <2>1. reply # None /\ Construct(reply.stack, reply.focus) /\ lost' = lost
    BY <1>5 DEF StartService
  <2>2. Informed
    BY <1>1, <2>1 DEF Informed
  <2>3. reply.focus = w
    BY <1>1, <1>3, <1>4, <2>1, <2>2 DEF FocusReaches, FocusIsTold, HasFocus
  <2>4. reply.stack[w] = AppOf[w]
    BY <1>3, <2>1, <2>3 DEF BusTypeOK, AnswersAreTrue
  <2>5. focusedApplication' = AppOf[w] /\ focusedWindowId' = w /\ subscription' = "connected"
    BY <1>3, <2>1, <2>3, <2>4 DEF Construct
  <2> QED
    BY <1>1, <1>4, <2>5 DEF HasFocus
<1>6. CASE StartServiceEmpty
  BY <1>3, <1>6 DEF StartServiceEmpty
<1>7. CASE StartServiceDeaf
  BY <1>3, <1>7 DEF StartServiceDeaf, ConstructError, Informed
<1> QED
  BY <1>5, <1>6, <1>7

\* The last focus finds its window, and no later signal takes it away.
LEMMA DispatchFocuses ==
  ASSUME BusTypeOK, IInv, BridgeHears, BridgeHearsFocus, ServiceHears, FocusReaches, Dispatch
  PROVE  FocusReaches'
<1> DEFINE w == bamfActive
           m == Head(signals)
           a == AppOf[w]
<1>1. /\ signals # <<>> /\ signals' = Tail(signals) /\ signals \in Seq(StackSignals)
      /\ UNCHANGED <<reply, lost, bamfActive, bamfSignals>>
      /\ subscription = "connected" /\ subscription' = "connected"
  BY DEF Dispatch, stackVars, BusTypeOK, WindowCreated, WindowDestroyed, FocusedWindowChanged
<1> SUFFICES ASSUME FocusIsTold
             PROVE  /\ LastFocus(Tail(signals), w) /\ FocusAfter(Tail(signals), w)
                    /\ Focuses(Tail(signals)) \/ HasFocus(w)'
  BY <1>1 DEF FocusReaches, FocusIsTold, Informed, HasFocus
<1>2. /\ LastFocus(signals, w) /\ FocusAfter(signals, w)
      /\ Focuses(signals) \/ HasFocus(w)
  BY DEF FocusReaches
<1>3. /\ LastFocus(Tail(signals), w) /\ FocusAfter(Tail(signals), w)
      /\ Focuses(signals) <=> IsFocus(m) \/ Focuses(Tail(signals))
      /\ IsFocus(m) /\ ~Focuses(Tail(signals)) => m.window = w
      /\ ~Focuses(Tail(signals)) => ~Changed(signals, w)
  BY <1>1, <1>2, TailFocus
<1> SUFFICES ASSUME ~Focuses(Tail(signals)) PROVE HasFocus(w)'
  BY <1>3
<1>4. /\ w \in WindowIds /\ a \in Applications
      /\ Changed(signals, w) \/ Told(w)
  BY FocusedIsKnown DEF FocusIsTold
<1>5. w \in reported[a]
  BY <1>1, <1>3, <1>4 DEF Told
<1>6. a \in applications /\ w \in keys[a]
  BY <1>4, <1>5 DEF IInv, ListInv, ReportedWindowsAreTracked
<1>7. m.app = AppOf[m.window]
  <2>1. m = signals[1] /\ 1 \in DOMAIN signals
    BY <1>1
  <2> QED
    BY <2>1 DEF BusTypeOK
<1>8. m \in Elements(signals)
  BY <1>1 DEF Elements
<1>9. ~IsFocus(m) => m.window # w /\ HasFocus(w)
  BY <1>2, <1>3, <1>8 DEF Changed, Changes
<1>10. CASE m.type = "WindowCreated" /\ WindowCreated(m.window, m.app)
  BY <1>1, <1>9, <1>10 DEF IsFocus, WindowCreated, HasFocus
<1>11. CASE m.type = "WindowDestroyed" /\ WindowDestroyed(m.window, m.app)
  <2>1. m.window # w /\ focusedWindowId = w /\ focusedApplication = a
    BY <1>1, <1>9, <1>11 DEF IsFocus, HasFocus
  <2>2. keys \in [Applications -> SUBSET WindowIds] /\ applications \subseteq Applications
    BY DEF IInv, TypeOK
  <2> HIDE DEF m
  <2>3. m.app = a => [keys EXCEPT ![m.app] = @ \ {m.window}][m.app] # {}
    BY <1>4, <1>6, <2>1, <2>2
  <2>4. UNCHANGED <<focusedApplication, focusedWindowId>>
    BY <1>11, <2>1, <2>3 DEF WindowDestroyed, RemoveWindow, listVars
  <2> QED
    BY <1>1, <2>1, <2>4 DEF HasFocus
<1>12. CASE m.type = "FocusedWindowChanged" /\ FocusedWindowChanged(m.window, m.app)
  <2>1. m.window = w
    BY <1>3, <1>12 DEF IsFocus
  <2>2. m.app = a
    BY <1>7, <2>1
  <2>3. SetFocusedWindow(keys, a, w)
    BY <1>12, <2>1, <2>2, <1>4, <1>6 DEF FocusedWindowChanged
  <2>4. focusedApplication' = a /\ focusedWindowId' = w
    BY <2>3 DEF SetFocusedWindow
  <2> QED
    BY <1>1, <2>4 DEF HasFocus
<1> QED
  BY <1>10, <1>11, <1>12 DEF Dispatch

LEMMA NextFocuses ==
  ASSUME BusTypeOK, IInv, BridgeHears, BridgeHearsFocus, AskedIsKnown, AnswersAreTrue,
         ServiceHears, FocusReaches, [TNext]_allVars
  PROVE  FocusReaches'
<1>1. lost \subseteq lost' /\ AnswersAreTrue'
  BY LostGrows, NextAnswers
<1>2. CASE BridgeStep
  BY <1>1, <1>2, BamfFocuses, HandleFocuses, BridgeLifeFocuses DEF BridgeStep, Stack!Next
<1>3. CASE StartService \/ StartServiceEmpty \/ StartServiceDeaf
  BY <1>3, StartFocuses
<1>4. CASE Dispatch
  BY <1>4, DispatchFocuses
<1>5. CASE Client \/ UNCHANGED allVars
  BY <1>5 DEF Client, OpenQuery, RefreshQuery, Refresh, allVars, vars, listVars, stackVars, busVars,
     FocusReaches, FocusIsTold, Informed, HasFocus
<1> QED
  BY <1>2, <1>3, <1>4, <1>5 DEF TNext

LEMMA InitFocuses == TInit => FocusReaches
BY DEF TInit, Init, Stack!Init, FocusReaches, FocusIsTold, Informed

-----------------------------------------------------------------------------
(* What both processes know of each other, taken together.                 *)

TrackingInv ==
  /\ BusTypeOK
  /\ IInv
  /\ BridgeHears /\ BridgeHearsFocus /\ AskedIsKnown
  /\ AnswersAreTrue /\ ServiceHears
  /\ FocusReaches

LEMMA InitTracking == TInit => TrackingInv
BY InitBusTypeOK, InitIInv, InitHears, InitAsked, InitAnswers, InitFocuses DEF TInit, TrackingInv

LEMMA NextTracking == TrackingInv /\ [TNext]_allVars => TrackingInv'
<1> SUFFICES ASSUME TrackingInv, [TNext]_allVars PROVE TrackingInv'
  OBVIOUS
<1>1. BusTypeOK /\ IInv /\ TypeOK
  BY DEF TrackingInv, IInv
<1>2. BusTypeOK'
  BY <1>1, NextBusTypeOK
<1>3. IInv'
  BY <1>1, StepIsListStep, NextIInv
<1>4. BridgeHears' /\ BridgeHearsFocus' /\ AskedIsKnown'
  BY <1>1, NextHears, NextAsked DEF TrackingInv
<1>5. AnswersAreTrue' /\ ServiceHears'
  BY <1>1, NextAnswers, NextTells DEF TrackingInv
<1>6. FocusReaches'
  BY <1>1, NextFocuses DEF TrackingInv
<1> QED
  BY <1>2, <1>3, <1>4, <1>5, <1>6 DEF TrackingInv

\* When nothing is under way, what was last said of a window is what holds of it.
LEMMA QuietServiceKnows == TrackingInv => QuietServiceKnowsTheOpenWindows
<1> SUFFICES ASSUME TrackingInv, Quiet, subscription = "connected",
                    NEW w \in WindowIds \ lost, AppOf[w] \in Applications
             PROVE  w \in reported[AppOf[w]] <=> w \in bamfWindows
  BY DEF QuietServiceKnowsTheOpenWindows
<1>1. bridge = "running" /\ ~Changed(bamfSignals, w) /\ ~Changed(signals, w)
  BY EmptyQueue DEF Quiet
<1>2. w \in windows <=> w \in bamfWindows
  BY <1>1 DEF TrackingInv, BridgeHears
<1>3. Told(w) <=> w \in windows
  BY <1>1 DEF TrackingInv, ServiceHears, Informed, Hears, Believed
<1> QED
  BY <1>2, <1>3 DEF Told

LEMMA QuietFocusIsActive == TrackingInv => QuietFocusIsTheActiveWindow
<1> SUFFICES ASSUME TrackingInv, Quiet, subscription = "connected", bamfActive \notin lost,
                    bamfActive # None, AppOf[bamfActive] \notin IgnoredIds
             PROVE  focusedWindowId = bamfActive /\ focusedApplication = AppOf[bamfActive]
  BY DEF QuietFocusIsTheActiveWindow
<1>1. AppOf[bamfActive] \in Applications
  BY DEF TrackingInv, BusTypeOK, Applications
<1>2. ~Focuses(bamfSignals) /\ ~Focuses(signals)
  BY EmptyQueue DEF Quiet
<1>3. FocusIsTold
  BY <1>1, <1>2 DEF FocusIsTold, Informed
<1> QED
  BY <1>2, <1>3 DEF TrackingInv, FocusReaches, HasFocus

\* When no message is under way, the windows announced to the service are BAMF's open
\* windows, but for those something went unreported of: neither the order in which the
\* bridge asks and is told, nor windows that close while they are announced, nor a
\* service that asks while BAMF's signals wait, leaves another (BamfWindowStack's
\* ViewOpened and ViewClosed, the constructor of ApplicationListImpl).
THEOREM OpenWindowsAreKnown == TSpec => []QuietServiceKnowsTheOpenWindows
BY InitTracking, NextTracking, QuietServiceKnows, PTL DEF TSpec

\* When no message is under way, the service's focus is BAMF's active window if its
\* application is not ignored: the window is always announced before its focus is, and
\* what is destroyed after it never takes the focus along (FocusedWindowChanged and
\* removeWindow of ApplicationListImpl).
THEOREM FocusIsActive == TSpec => []QuietFocusIsTheActiveWindow
BY InitTracking, NextTracking, QuietFocusIsActive, PTL DEF TSpec
=============================================================================
