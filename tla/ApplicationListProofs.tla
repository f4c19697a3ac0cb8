----------------------- MODULE ApplicationListProofs -----------------------
(***************************************************************************)
(* Proofs about ApplicationList and about CommandUsage, which adds to it   *)
(* what a query runs, for any sets of applications and windows.            *)
(*                                                                         *)
(* The safety properties are proved together: dropping an application that *)
(* is not listed is harmless only because an application that holds a      *)
(* Window object is listed, which is ReportedWindowsAreTracked applied to  *)
(* WindowObjectsAreReported.                                               *)
(*                                                                         *)
(* The uses of a month are a sum over its days.  That one use more is one  *)
(* more in the sum is proved by taking the least number of days for which  *)
(* it were not so: a set of numbers has a least element (WFMin).           *)
(***************************************************************************)
EXTENDS CommandUsage, FiniteSetTheorems, WellFoundedInduction, TLAPS

\* Nobody has a list to ask for its focus before its constructor has run.
NoFocusBeforeConstruction ==
  subscription = "constructing" => focusedApplication = None /\ ~queryOpen

ListInv ==
  /\ NoFocusBeforeConstruction
  /\ FocusedApplicationIsListed
  /\ ReportedWindowsAreTracked
  /\ WindowObjectsAreReported
  /\ AppstackShowsFocusedApplication

IInv == TypeOK /\ ListInv

-----------------------------------------------------------------------------
(* What a lookup and a focus change do.                                    *)

\* A lookup only ever adds keys (QMap::operator[]).
LEMMA LookupAddsKeys ==
  ASSUME NEW k \in [Applications -> SUBSET WindowIds],
         NEW a \in Applications \cup {None}, NEW w \in WindowIds \cup {None}
  PROVE  /\ KeysAfterLookup(k, a, w) \in [Applications -> SUBSET WindowIds]
         /\ \A b \in Applications : k[b] \subseteq KeysAfterLookup(k, a, w)[b]
BY NoneIsNoId DEF KeysAfterLookup, Applications

\* setFocusedWindow sets the pair, keeps every key, and leaves an open query
\* showing the new application.
LEMMA SetFocusedWindowEffect ==
  ASSUME NEW k \in [Applications -> SUBSET WindowIds],
         NEW a \in Applications \cup {None}, NEW w \in WindowIds \cup {None},
         queryOpen \in BOOLEAN, appstack \in Applications \cup {None},
         SetFocusedWindow(k, a, w)
  PROVE  /\ focusedApplication' = a
         /\ focusedWindowId' = w
         /\ keys' \in [Applications -> SUBSET WindowIds]
         /\ \A b \in Applications : k[b] \subseteq keys'[b]
         /\ queryOpen' = queryOpen
         /\ appstack' \in Applications \cup {None}
         /\ queryOpen => appstack' = a
<1>1. focusedApplication' = a /\ focusedWindowId' = w
  BY DEF SetFocusedWindow
<1>2. CASE queryOpen
  <2>1. keys' = KeysAfterLookup(k, a, w) /\ appstack' = a /\ queryOpen' = queryOpen
    BY <1>2 DEF SetFocusedWindow, Refresh
  <2> QED
    BY <1>1, <2>1, LookupAddsKeys
<1>3. CASE ~queryOpen
  BY <1>1, <1>3 DEF SetFocusedWindow, queryVars
<1> QED
  BY <1>2, <1>3

-----------------------------------------------------------------------------
(* Each step keeps the invariant.                                          *)

\* The constructor lists exactly the applications of the windows it was told of.
LEMMA ConstructKeepsIInv ==
  ASSUME IInv, NEW stack \in StackReplies, NEW focus \in DOMAIN stack \cup {None},
         Construct(stack, focus)
  PROVE  IInv'
<1> DEFINE Of(a) == {w \in DOMAIN stack : stack[w] = a}
<1>1. PICK W \in SUBSET WindowIds : stack \in [W -> AppIds]
  BY DEF StackReplies
<1>2. \A a \in Applications : Of(a) \subseteq WindowIds
  BY <1>1
<1>3. /\ subscription = "constructing"
      /\ subscription' = "connected"
      /\ live' = [a \in Applications |-> Of(a)]
      /\ keys' = live'
      /\ reported' = live'
      /\ applications' = {a \in Applications : Of(a) # {}}
      /\ UNCHANGED <<queryOpen, appstack>>
  BY DEF Construct, queryVars
<1>4. focusedApplication = None /\ ~queryOpen
  BY <1>3 DEF IInv, ListInv, NoFocusBeforeConstruction
<1> HIDE DEF Of
<1>5. TypeOK'
  <2>1. keys' \in [Applications -> SUBSET WindowIds]
    BY <1>2, <1>3
  <2>2. focusedApplication' \in Applications \cup {None}
        /\ focusedWindowId' \in WindowIds \cup {None}
    BY <1>1 DEF Construct, IInv, TypeOK
  <2> QED
    BY <1>3, <2>1, <2>2 DEF IInv, TypeOK
<1>6. FocusedApplicationIsListed'
  <2>1. CASE focus # None /\ stack[focus] \in Applications
    <3>1. focus \in Of(stack[focus]) /\ focusedApplication' = stack[focus]
      BY <2>1 DEF Construct, Of
    <3> QED
      BY <2>1, <3>1, <1>3 DEF FocusedApplicationIsListed
  <2>2. CASE ~(focus # None /\ stack[focus] \in Applications)
    BY <2>2, <1>4 DEF Construct, FocusedApplicationIsListed
  <2> QED
    BY <2>1, <2>2
<1>7. ReportedWindowsAreTracked' /\ WindowObjectsAreReported'
  BY <1>3 DEF ReportedWindowsAreTracked, WindowObjectsAreReported
<1>8. NoFocusBeforeConstruction' /\ AppstackShowsFocusedApplication'
  BY <1>3, <1>4 DEF NoFocusBeforeConstruction, AppstackShowsFocusedApplication
<1> QED
  BY <1>5, <1>6, <1>7, <1>8 DEF IInv, ListInv

\* An announced window is listed with its application, in the same step.
LEMMA WindowCreatedKeepsIInv ==
  ASSUME IInv, NEW w \in WindowIds, NEW a \in AppIds, WindowCreated(w, a)
  PROVE  IInv'
<1> USE DEF IInv, ListInv, TypeOK, WindowCreated, queryVars
<1>1. TypeOK'
  OBVIOUS
<1>2. NoFocusBeforeConstruction' /\ FocusedApplicationIsListed'
      /\ AppstackShowsFocusedApplication'
  BY DEF NoFocusBeforeConstruction, FocusedApplicationIsListed,
         AppstackShowsFocusedApplication
<1>3. ReportedWindowsAreTracked'
  BY DEF ReportedWindowsAreTracked
<1>4. WindowObjectsAreReported'
  BY DEF WindowObjectsAreReported
<1> QED
  BY <1>1, <1>2, <1>3, <1>4

\* Removing a window of a listed application: the case that can close the
\* application and, with it, reset the focus.
LEMMA RemoveWindowKeepsIInv ==
  ASSUME IInv, NEW w \in WindowIds, NEW a \in AppIds,
         WindowDestroyed(w, a), a \in applications
  PROVE  IInv'
<1> DEFINE rest == [keys EXCEPT ![a] = @ \ {w}]
           closes == rest[a] = {}
<1>1. /\ a \in Applications
      /\ rest \in [Applications -> SUBSET WindowIds]
      /\ rest[a] = keys[a] \ {w}
      /\ \A b \in Applications \ {a} : rest[b] = keys[b]
  BY DEF IInv, TypeOK
<1>2. /\ subscription = "connected"
      /\ subscription' = subscription
      /\ live' = [live EXCEPT ![a] = @ \ {w}]
      /\ reported' = [reported EXCEPT ![a] = @ \ {w}]
      /\ applications' = IF closes THEN applications \ {a} ELSE applications
  BY <1>1 DEF WindowDestroyed, RemoveWindow
<1>3. /\ keys' \in [Applications -> SUBSET WindowIds]
      /\ \A b \in Applications : rest[b] \subseteq keys'[b]
      /\ queryOpen' = queryOpen
      /\ appstack' \in Applications \cup {None}
      /\ \/ /\ closes /\ a = focusedApplication
            /\ focusedApplication' = None /\ focusedWindowId' = None
            /\ queryOpen => appstack' = None
         \/ /\ ~(closes /\ a = focusedApplication)
            /\ UNCHANGED <<focusedApplication, focusedWindowId, appstack>>
  <2>1. CASE closes /\ a = focusedApplication
    <3>1. SetFocusedWindow(rest, None, None)
      BY <1>2, <2>1 DEF WindowDestroyed, RemoveWindow
    <3> HIDE DEF rest
    <3> QED
      BY <1>1, <2>1, <3>1, SetFocusedWindowEffect DEF IInv, TypeOK
  <2>2. CASE ~(closes /\ a = focusedApplication)
    BY <1>1, <2>2 DEF WindowDestroyed, RemoveWindow, queryVars, IInv, TypeOK
  <2> QED
    BY <2>1, <2>2
<1> HIDE DEF rest
<1>4. TypeOK'
  BY <1>1, <1>2, <1>3 DEF IInv, TypeOK
<1>5. NoFocusBeforeConstruction' /\ AppstackShowsFocusedApplication'
  BY <1>2, <1>3
  DEF IInv, ListInv, NoFocusBeforeConstruction, AppstackShowsFocusedApplication
<1>6. FocusedApplicationIsListed'
  BY <1>2, <1>3 DEF IInv, ListInv, FocusedApplicationIsListed
<1>7. ReportedWindowsAreTracked'
  BY <1>1, <1>2, <1>3 DEF IInv, ListInv, TypeOK, ReportedWindowsAreTracked
<1>8. WindowObjectsAreReported'
  BY <1>1, <1>2 DEF IInv, ListInv, TypeOK, WindowObjectsAreReported
<1> QED
  BY <1>4, <1>5, <1>6, <1>7, <1>8 DEF IInv, ListInv

\* WindowDestroyed, for an application that is listed and for one that is not.
LEMMA WindowDestroyedKeepsIInv ==
  ASSUME IInv, NEW w \in WindowIds, NEW a \in AppIds, WindowDestroyed(w, a)
  PROVE  IInv'
<1>1. CASE a \in applications
  BY <1>1, RemoveWindowKeepsIInv
<1>2. CASE a \notin applications
  \* An application that is not listed has neither a window nor an object.
  <2>1. /\ UNCHANGED <<subscription, listVars, queryVars>>
        /\ \A b \in Applications : b # a => reported'[b] = reported[b]
        /\ reported' \in [Applications -> SUBSET WindowIds]
        /\ \A b \in Applications : reported'[b] \subseteq reported[b]
    BY <1>2 DEF WindowDestroyed, IInv, TypeOK
  <2>2. a \in Applications => live[a] = {}
    BY <1>2 DEF IInv, ListInv, ReportedWindowsAreTracked, WindowObjectsAreReported
  <2>3. TypeOK'
    BY <2>1 DEF IInv, TypeOK, listVars, queryVars
  <2>4. NoFocusBeforeConstruction' /\ FocusedApplicationIsListed'
        /\ AppstackShowsFocusedApplication'
    BY <2>1 DEF IInv, ListInv, listVars, queryVars, NoFocusBeforeConstruction,
                FocusedApplicationIsListed, AppstackShowsFocusedApplication
  <2>5. ReportedWindowsAreTracked'
    BY <2>1 DEF IInv, ListInv, listVars, ReportedWindowsAreTracked
  <2>6. WindowObjectsAreReported'
    BY <2>1, <2>2 DEF IInv, ListInv, listVars, WindowObjectsAreReported
  <2> QED
    BY <2>3, <2>4, <2>5, <2>6 DEF IInv, ListInv
<1> QED
  BY <1>1, <1>2

\* FocusedWindowChanged: the focus is a listed application or null.
LEMMA FocusedWindowChangedKeepsIInv ==
  ASSUME IInv, NEW w \in WindowIds, NEW a \in AppIds, FocusedWindowChanged(w, a)
  PROVE  IInv'
<1> DEFINE app == IF a \in applications THEN a ELSE None
<1>1. /\ subscription = "connected"
      /\ UNCHANGED <<subscription, applications, live, reported>>
  BY DEF FocusedWindowChanged
<1>2. CASE a \in Applications
  <2>1. SetFocusedWindow(keys, app, w) /\ app \in Applications \cup {None}
    BY <1>2 DEF FocusedWindowChanged
  <2>2. app # None => app \in applications
    OBVIOUS
  <2> HIDE DEF app
  <2>3. /\ focusedApplication' = app /\ focusedWindowId' = w
        /\ keys' \in [Applications -> SUBSET WindowIds]
        /\ \A b \in Applications : keys[b] \subseteq keys'[b]
        /\ queryOpen' = queryOpen
        /\ appstack' \in Applications \cup {None}
        /\ queryOpen => appstack' = app
    BY <2>1, SetFocusedWindowEffect DEF IInv, TypeOK
  <2>4. TypeOK'
    BY <1>1, <2>1, <2>3 DEF IInv, TypeOK
  <2>5. FocusedApplicationIsListed' /\ AppstackShowsFocusedApplication'
        /\ NoFocusBeforeConstruction'
    BY <1>1, <2>2, <2>3 DEF FocusedApplicationIsListed, NoFocusBeforeConstruction,
                            AppstackShowsFocusedApplication
  <2>6. ReportedWindowsAreTracked' /\ WindowObjectsAreReported'
    BY <1>1, <2>3 DEF IInv, ListInv, ReportedWindowsAreTracked, WindowObjectsAreReported
  <2> QED
    BY <2>4, <2>5, <2>6 DEF IInv, ListInv
<1>3. CASE a \notin Applications
  <2>1. UNCHANGED <<keys, focusedApplication, focusedWindowId, queryOpen, appstack>>
    BY <1>3 DEF FocusedWindowChanged, queryVars
  <2> QED
    BY <1>1, <2>1
    DEF IInv, ListInv, TypeOK, NoFocusBeforeConstruction, FocusedApplicationIsListed,
        ReportedWindowsAreTracked, WindowObjectsAreReported,
        AppstackShowsFocusedApplication
<1> QED
  BY <1>2, <1>3

\* A client call changes none of the windows and none of the focus: it lists an
\* application, adds keys, or opens, refreshes or closes the query.
LEMMA ClientCallKeepsIInv ==
  ASSUME IInv, ClientCall
  PROVE  IInv'
<1>1. /\ UNCHANGED <<subscription, live, reported, focusedApplication, focusedWindowId>>
      /\ applications \subseteq applications' /\ applications' \subseteq Applications
      /\ keys' \in [Applications -> SUBSET WindowIds]
      /\ \A b \in Applications : keys[b] \subseteq keys'[b]
      /\ queryOpen' \in BOOLEAN
      /\ appstack' \in Applications \cup {None}
      /\ queryOpen' => appstack' = focusedApplication
      /\ queryOpen' => queryOpen \/ subscription # "constructing"
  <2> USE DEF IInv, ListInv, TypeOK, listVars, queryVars
  <2>1. ASSUME NEW a \in AppIds, RegisterApplication(a)
        PROVE  <1>1!:
    BY <2>1 DEF RegisterApplication, AppstackShowsFocusedApplication
  <2>2. ASSUME NEW a \in Applications, NEW w \in WindowIds, LookupWindowContext(a, w)
        PROVE  <1>1!:
    BY <2>2, LookupAddsKeys DEF LookupWindowContext, AppstackShowsFocusedApplication
  <2>3. CASE OpenQuery
    BY <2>3, LookupAddsKeys DEF OpenQuery
  <2>4. CASE RefreshQuery
    BY <2>4, LookupAddsKeys DEF RefreshQuery, Refresh
  <2>5. CASE CloseQuery
    BY <2>5 DEF CloseQuery
  <2> QED
    BY <2>1, <2>2, <2>3, <2>4, <2>5 DEF ClientCall
<1>2. TypeOK'
  BY <1>1 DEF IInv, TypeOK
<1>3. NoFocusBeforeConstruction'
  BY <1>1 DEF IInv, ListInv, TypeOK, NoFocusBeforeConstruction
<1>4. FocusedApplicationIsListed' /\ AppstackShowsFocusedApplication'
  BY <1>1 DEF IInv, ListInv, FocusedApplicationIsListed, AppstackShowsFocusedApplication
<1>5. ReportedWindowsAreTracked' /\ WindowObjectsAreReported'
  BY <1>1 DEF IInv, ListInv, ReportedWindowsAreTracked, WindowObjectsAreReported
<1> QED
  BY <1>2, <1>3, <1>4, <1>5 DEF IInv, ListInv

-----------------------------------------------------------------------------
\* The list starts out empty, without focus and without query.
LEMMA InitIInv == Init => IInv
BY DEF Init, IInv, ListInv, TypeOK, NoFocusBeforeConstruction,
       FocusedApplicationIsListed, ReportedWindowsAreTracked,
       WindowObjectsAreReported, AppstackShowsFocusedApplication

\* Every step of the list keeps the invariant.
LEMMA NextIInv == IInv /\ [Next]_vars => IInv'
<1> SUFFICES ASSUME IInv, [Next]_vars
             PROVE  IInv'
  OBVIOUS
<1>1. ASSUME NEW stack \in StackReplies, NEW focus \in DOMAIN stack \cup {None},
             Construct(stack, focus)
      PROVE  IInv'
  BY <1>1, ConstructKeepsIInv
<1>2. CASE StackSignal
  BY <1>2, WindowCreatedKeepsIInv, WindowDestroyedKeepsIInv,
     FocusedWindowChangedKeepsIInv DEF StackSignal
<1>3. CASE ClientCall
  BY <1>3, ClientCallKeepsIInv
<1>4. CASE ConstructError \/ UNCHANGED vars
  BY <1>4 DEF ConstructError, vars, listVars, queryVars, IInv, ListInv, TypeOK,
              NoFocusBeforeConstruction, FocusedApplicationIsListed,
              ReportedWindowsAreTracked, WindowObjectsAreReported,
              AppstackShowsFocusedApplication
<1> QED
  BY <1>1, <1>2, <1>3, <1>4 DEF Next

\* The inductive invariant holds in every reachable state.
THEOREM Invariant == Spec => []IInv
BY InitIInv, NextIInv, PTL DEF Spec

\* Every variable keeps its type; in particular no ignored application (compiz,
\* hud-gui, ...) is ever listed or focused.
THEOREM TypeCorrect == Spec => []TypeOK
BY Invariant, PTL DEF IInv

\* m_focusedApplication is null or one of m_applications, whatever the window
\* stack and the clients do.
THEOREM FocusIsListed == Spec => []FocusedApplicationIsListed
BY Invariant, PTL DEF IInv, ListInv

\* An application with an announced window is in the list, its window in the map, and
\* no Window object outlives the window it stands for.
THEOREM WindowsAreTracked == Spec => []WindowsMatchTheReports
<1>1. IInv => WindowsMatchTheReports
  BY DEF IInv, ListInv, WindowsMatchTheReports
<1> QED
  BY <1>1, Invariant, PTL

\* An open query shows the focused application after every step.
THEOREM AppstackFollowsFocus == Spec => []AppstackShowsFocusedApplication
BY Invariant, PTL DEF IInv, ListInv

-----------------------------------------------------------------------------
(* Sums over finite sets.                                                  *)

\* One step of the library's sum: of g over s, when h has the sums of smaller sets.
Some(s) == CHOOSE x \in s : TRUE
SumStep(g, h, s) == IF s = {} THEN 0 ELSE g[Some(s)] + h[s \ {Some(s)}]

\* h has the sums of g over the subsets of S with at most n elements.
Small(S, n) == {s \in SUBSET S : Cardinality(s) <= n}
SumsUpTo(h, g, S, n) == h = [s \in Small(S, n) |-> SumStep(g, h, s)]

Sums(g, S) == CHOOSE h : h = [s \in SUBSET S |-> SumStep(g, h, s)]

LEMMA SumIsSums ==
  ASSUME NEW g, NEW S
  PROVE  MapThenSumSet(LAMBDA d : g[d], S) = Sums(g, S)[S]
BY DEF MapThenSumSet, MapThenFoldSet, Sums, SumStep, Some

\* A set of numbers has a least element: what induction is made of here.
LEMMA LeastNumber ==
  ASSUME NEW T \in SUBSET Nat, T # {}
  PROVE  \E n \in T : \A m \in T : n <= m
<1>1. PICK n \in T : \A m \in T : <<m, n>> \notin OpToRel(<, Nat)
  BY NatLessThanWellFounded, WFMin
<1>2. \A m \in T : ~(m < n)
  BY <1>1 DEF OpToRel
<1> QED
  BY <1>2

LEMMA SmallerSet ==
  ASSUME NEW S, IsFiniteSet(S), NEW s \in SUBSET S, s # {}
  PROVE  /\ Some(s) \in s /\ s \ {Some(s)} \in SUBSET S
         /\ Cardinality(s) \in Nat /\ Cardinality(s \ {Some(s)}) = Cardinality(s) - 1
<1>1. Some(s) \in s
  BY DEF Some
<1>2. IsFiniteSet(s)
  BY FS_Subset
<1> QED
  BY <1>1, <1>2, FS_RemoveElement, FS_CardinalityType

LEMMA SumsExist ==
  ASSUME NEW g, NEW S, IsFiniteSet(S), NEW n \in Nat
  PROVE  \E h : SumsUpTo(h, g, S, n)
<1> DEFINE T == {m \in Nat : ~\E h : SumsUpTo(h, g, S, m)}
<1> SUFFICES ASSUME T # {} PROVE FALSE
  OBVIOUS
<1>1. PICK m \in T : \A k \in T : m <= k
  BY LeastNumber
<1>2. m \in Nat /\ ~\E h : SumsUpTo(h, g, S, m)
  OBVIOUS
<1>3. \A s \in SUBSET S : Cardinality(s) \in Nat /\ (Cardinality(s) = 0 <=> s = {})
  BY FS_Subset, FS_CardinalityType, FS_EmptySet
<1>4. ASSUME m = 0 PROVE FALSE
  <2> DEFINE h == [s \in Small(S, 0) |-> 0]
  <2>1. \A s \in Small(S, 0) : s = {}
    BY <1>3 DEF Small
  <2>2. SumsUpTo(h, g, S, 0)
    BY <2>1 DEF SumsUpTo, SumStep
  <2> QED
    BY <2>2, <1>2, <1>4
<1>5. ASSUME m # 0 PROVE FALSE
  <2>1. m - 1 \in Nat /\ m - 1 \notin T
    BY <1>1, <1>2, <1>5
  <2>2. PICK h : SumsUpTo(h, g, S, m - 1)
    BY <2>1
  <2> DEFINE k == [s \in Small(S, m) |-> SumStep(g, h, s)]
  <2>3. \A s \in Small(S, m - 1) : s \in Small(S, m) /\ k[s] = h[s]
    <3> SUFFICES ASSUME NEW s \in Small(S, m - 1) PROVE s \in Small(S, m) /\ k[s] = h[s]
      OBVIOUS
    <3>1. s \in Small(S, m)
      BY <1>2, <1>3 DEF Small
    <3>2. h[s] = SumStep(g, h, s)
      BY <2>2 DEF SumsUpTo
    <3> QED
      BY <3>1, <3>2
  <2>4. ASSUME NEW s \in Small(S, m) PROVE SumStep(g, k, s) = SumStep(g, h, s)
    <3>1. CASE s = {}
      BY <3>1 DEF SumStep
    <3>2. CASE s # {}
      <4>1. s \ {Some(s)} \in SUBSET S /\ Cardinality(s) \in Nat
            /\ Cardinality(s \ {Some(s)}) = Cardinality(s) - 1 /\ Cardinality(s) <= m
        BY <3>2, SmallerSet DEF Small
      <4>2. Cardinality(s \ {Some(s)}) <= m - 1
        BY <4>1, <1>2
      <4>3. s \ {Some(s)} \in Small(S, m - 1)
        BY <4>1, <4>2 DEF Small
      <4> HIDE DEF k
      <4> QED
        BY <2>3, <4>3 DEF SumStep
    <3> QED
      BY <3>1, <3>2
  <2>5. SumsUpTo(k, g, S, m)
    <3>1. [s \in Small(S, m) |-> SumStep(g, h, s)] = [s \in Small(S, m) |-> SumStep(g, k, s)]
      BY <2>4
    <3> QED
      BY <3>1 DEF SumsUpTo
  <2> QED
    BY <2>5, <1>2
<1> QED
  BY <1>4, <1>5

\* h has the sums of g over the subsets of S.
HasSums(h, g, S) ==
  /\ h[{}] = 0
  /\ \A s \in SUBSET S : s # {} => h[s] = g[Some(s)] + h[s \ {Some(s)}]

LEMMA SumsAreSums ==
  ASSUME NEW g, NEW S, IsFiniteSet(S)
  PROVE  HasSums(Sums(g, S), g, S)
<1>1. Cardinality(S) \in Nat /\ \A s \in SUBSET S : Cardinality(s) <= Cardinality(S)
  BY FS_CardinalityType, FS_Subset
<1>2. Small(S, Cardinality(S)) = SUBSET S
  BY <1>1 DEF Small
<1>3. \E h : h = [s \in SUBSET S |-> SumStep(g, h, s)]
  <2>1. PICK h : SumsUpTo(h, g, S, Cardinality(S))
    BY <1>1, SumsExist
  <2>2. h = [s \in SUBSET S |-> SumStep(g, h, s)]
    BY <1>2, <2>1 DEF SumsUpTo
  <2> QED
    BY <2>2
<1>4. Sums(g, S) = [s \in SUBSET S |-> SumStep(g, Sums(g, S), s)]
  BY <1>3 DEF Sums
<1>5. \A s \in SUBSET S : Sums(g, S)[s] = SumStep(g, Sums(g, S), s)
  BY <1>4
<1> QED
  BY <1>5 DEF SumStep, HasSums

\* One more of x is one more in all, if x is counted.
LEMMA SumOfOneMore ==
  ASSUME NEW g, NEW k, NEW S, IsFiniteSet(S), NEW x,
         \A d \in S : g[d] \in Nat /\ k[d] = g[d] + (IF d = x THEN 1 ELSE 0)
  PROVE  /\ Sums(g, S)[S] \in Nat
         /\ Sums(k, S)[S] = Sums(g, S)[S] + (IF x \in S THEN 1 ELSE 0)
<1> DEFINE G == Sums(g, S)
           K == Sums(k, S)
           Good(s) == G[s] \in Nat /\ K[s] = G[s] + (IF x \in s THEN 1 ELSE 0)
           T == {n \in Nat : \E s \in SUBSET S : Cardinality(s) = n /\ ~Good(s)}
<1>1. /\ G[{}] = 0 /\ K[{}] = 0
      /\ \A s \in SUBSET S : s # {} =>
           /\ G[s] = g[Some(s)] + G[s \ {Some(s)}]
           /\ K[s] = k[Some(s)] + K[s \ {Some(s)}]
  <2>1. HasSums(G, g, S) /\ HasSums(K, k, S)
    BY SumsAreSums
  <2> QED
    BY <2>1 DEF HasSums
<1> HIDE DEF G, K, T
<1>2. ASSUME T # {} PROVE FALSE
  <2>1. PICK n \in T : \A m \in T : n <= m
    BY <1>2, LeastNumber DEF T
  <2>2. PICK s \in SUBSET S : Cardinality(s) = n /\ ~Good(s)
    BY DEF T
  <2>3. s # {}
    <3>1. Good({})
      BY <1>1
    <3> QED
      BY <2>2, <3>1
  <2> DEFINE c == Some(s)
             r == s \ {c}
  <2>4. c \in s /\ r \in SUBSET S /\ n \in Nat /\ Cardinality(r) = n - 1 /\ Cardinality(r) \in Nat
    <3>1. c \in s /\ r \in SUBSET S /\ Cardinality(s) \in Nat /\ Cardinality(r) = Cardinality(s) - 1
      BY <2>3, SmallerSet
    <3>2. Cardinality(r) \in Nat
      BY <3>1, FS_Subset, FS_CardinalityType
    <3> QED
      BY <2>2, <3>1, <3>2 DEF T
  <2>5. Good(r)
    <3>1. ~(n <= Cardinality(r))
      BY <2>4
    <3>2. Cardinality(r) \notin T
      BY <2>1, <3>1
    <3> QED
      BY <2>4, <3>2 DEF T
  <2>6. G[s] = g[c] + G[r] /\ K[s] = k[c] + K[r]
    BY <1>1, <2>3
  <2>7. g[c] \in Nat /\ k[c] = g[c] + (IF c = x THEN 1 ELSE 0)
    BY <2>4
  <2>8. x \in s <=> c = x \/ x \in r
    BY <2>4
  <2>9. c = x => x \notin r
    OBVIOUS
  <2> HIDE DEF c, r
  <2> QED
    BY <2>2, <2>5, <2>6, <2>7, <2>8, <2>9
<1>3. Good(S)
  <2>1. Cardinality(S) \in Nat /\ S \in SUBSET S
    BY FS_CardinalityType
  <2>2. Cardinality(S) \notin T
    BY <1>2
  <2> QED
    BY <2>1, <2>2 DEF T
<1> QED
  BY <1>3 DEF G, K

-----------------------------------------------------------------------------
(* The uses, and the list behind a service that may end and start again.   *)

Later(day) == {d \in Days : d > day}

LEMMA UsesAreSums ==
  ASSUME NEW db, NEW a, NEW day
  PROVE  UsesAfter(db, a, day) = Sums(db[a], Later(day))[Later(day)]
<1> DEFINE S == Later(day)
<1>1. UsesAfter(db, a, day) = MapThenSumSet(LAMBDA d : db[a][d], S)
  BY DEF UsesAfter, Later
<1> HIDE DEF S
<1>2. MapThenSumSet(LAMBDA d : db[a][d], S) = Sums(db[a], S)[S]
  BY DEF MapThenSumSet, MapThenFoldSet, Sums, SumStep, Some
<1> QED
  BY <1>1, <1>2 DEF S

\* An application with one use more, or none, on a day has one more in all, or none.
LEMMA UsesOfOneMore ==
  ASSUME NEW db \in [Applications -> [Days -> Nat]], NEW new, NEW a \in Applications,
         NEW day \in Int, NEW x,
         \A d \in Later(day) : new[a][d] = db[a][d] + (IF d = x THEN 1 ELSE 0)
  PROVE  /\ UsesAfter(db, a, day) \in Nat
         /\ UsesAfter(new, a, day) = UsesAfter(db, a, day) + (IF x \in Later(day) THEN 1 ELSE 0)
<1> DEFINE S == Later(day)
           g == db[a]
           k == new[a]
<1>1. IsFiniteSet(S)
  <2>1. IsFiniteSet(1..MaxDays)
    BY FS_Interval, UsageAssumption
  <2> QED
    BY <2>1, FS_Subset DEF Later, Days
<1>2. \A d \in S : g[d] \in Nat /\ k[d] = g[d] + (IF d = x THEN 1 ELSE 0)
  BY DEF Later
<1>3. UsesAfter(db, a, day) = Sums(g, S)[S] /\ UsesAfter(new, a, day) = Sums(k, S)[S]
  BY UsesAreSums
<1> HIDE DEF S, g, k
<1>4. /\ Sums(g, S)[S] \in Nat
      /\ Sums(k, S)[S] = Sums(g, S)[S] + (IF x \in S THEN 1 ELSE 0)
  BY <1>1, <1>2, SumOfOneMore
<1> QED
  BY <1>3, <1>4 DEF S

UsageTypeOK ==
  /\ today \in Days
  /\ loaded \in Nat /\ loaded <= today
  /\ database \in [Applications -> [Days -> Nat]]
  /\ usage \in [Applications -> Nat]
  /\ unwritten \in [Applications -> Nat]
  /\ unread \in [Applications -> Nat]

UsageInv == UsageTypeOK /\ UsageIsTheMonths

LEMMA InitUsage == UInit => UsageInv
BY UsageAssumption DEF UInit, UsageInv, UsageTypeOK, UsageIsTheMonths, NoUses, Empty, Days

\* The cache and what was not read are what the database has of the month, of whose
\* days the database keeps all uses.
LEMMA LoadKeepsUsage ==
  ASSUME UsageInv, LoadFromDatabase, today' = today
  PROVE  UsageInv'
<1>1. /\ today \in Days /\ today \in Nat /\ database \in [Applications -> [Days -> Nat]]
      /\ Month \in Nat \ {0} /\ today - Month \in Int
  BY UsageAssumption DEF UsageInv, UsageTypeOK, Days
<1> DEFINE day == today - Month
           uses == MonthsUses
<1>0. PICK read \in SUBSET {a \in Applications : uses[a] # 0} :
        /\ usage' = [a \in Applications |-> IF a \in read THEN uses[a] ELSE 0]
        /\ unread' = [a \in Applications |-> IF a \in read THEN 0 ELSE uses[a]]
  BY DEF LoadFromDatabase
<1>2. /\ loaded' = today
      /\ \/ database' = [a \in Applications |-> [d \in Days |-> IF d < day THEN 0 ELSE database[a][d]]]
         \/ database' = database
      /\ unwritten' = [a \in Applications |-> 0]
      /\ uses = [a \in Applications |-> UsesAfter(database, a, day)]
  BY DEF LoadFromDatabase, NoUses, DeleteOldUses, MonthsUses
<1> HIDE DEF uses
<1>3. database' \in [Applications -> [Days -> Nat]]
  BY <1>1, <1>2
<1>4. ASSUME NEW a \in Applications
      PROVE  /\ UsesAfter(database, a, day) \in Nat
             /\ UsesAfter(database', a, day) = UsesAfter(database, a, day)
  <2>1. 0 \notin Days
    BY DEF Days
  <2>2. \A d \in Later(day) : database'[a][d] = database[a][d] + (IF d = 0 THEN 1 ELSE 0)
    <3> SUFFICES ASSUME NEW d \in Later(day)
                 PROVE  database'[a][d] = database[a][d] + (IF d = 0 THEN 1 ELSE 0)
      OBVIOUS
    <3>1. d \in Days /\ d # 0 /\ ~(d < day)
      BY <1>1, <2>1 DEF Later, Days
    <3>2. database[a][d] \in Nat
      BY <1>1, <3>1
    <3> QED
      BY <1>2, <3>1, <3>2
  <2>3. 0 \notin Later(day)
    BY <2>1 DEF Later
  <2> DEFINE new == database'
  <2>4. \A d \in Later(day) : new[a][d] = database[a][d] + (IF d = 0 THEN 1 ELSE 0)
    BY <2>2
  <2>5. day \in Int
    BY <1>1
  <2> HIDE DEF day, new
  <2>6. /\ UsesAfter(database, a, day) \in Nat
        /\ UsesAfter(new, a, day)
             = UsesAfter(database, a, day) + (IF 0 \in Later(day) THEN 1 ELSE 0)
    BY <1>1, <2>4, <2>5, UsesOfOneMore
  <2> QED
    BY <2>3, <2>6 DEF new
<1>5. uses \in [Applications -> Nat]
  BY <1>2, <1>4
<1>6. UsageTypeOK'
  BY <1>0, <1>1, <1>2, <1>3, <1>5 DEF UsageTypeOK
<1>7. UsageIsTheMonths'
  <2> SUFFICES ASSUME NEW a \in Applications
               PROVE  usage'[a] + unread'[a] = UsesAfter(database', a, day) + unwritten'[a]
    BY <1>2 DEF UsageIsTheMonths
  <2>1. usage'[a] + unread'[a] = uses[a] /\ uses[a] \in Nat /\ unwritten'[a] = 0
    BY <1>0, <1>2, <1>5
  <2>2. uses[a] = UsesAfter(database', a, day)
    BY <1>2, <1>4
  <2> QED
    BY <2>1, <2>2
<1> QED
  BY <1>6, <1>7 DEF UsageInv

\* A use counts for today, which is later than a month before any load.
LEMMA MarkKeepsUsage ==
  ASSUME UsageInv, NEW a \in Applications, MarkUsage(a), today' = today
  PROVE  UsageInv'
<1> DEFINE day == loaded - Month
<1>1. /\ database \in [Applications -> [Days -> Nat]] /\ usage \in [Applications -> Nat]
      /\ unwritten \in [Applications -> Nat] /\ unread \in [Applications -> Nat]
      /\ today \in Days /\ loaded \in Nat /\ loaded <= today /\ day \in Int /\ today \in Nat
      /\ day < today
  BY UsageAssumption DEF UsageInv, UsageTypeOK, Days
<1>2. /\ loaded' = loaded /\ unread' = unread
      /\ usage' = [usage EXCEPT ![a] = @ + 1]
      /\ \/ database' = [database EXCEPT ![a][today] = @ + 1] /\ unwritten' = unwritten
         \/ unwritten' = [unwritten EXCEPT ![a] = @ + 1] /\ database' = database
  BY DEF MarkUsage
<1>3. UsageTypeOK'
  <2>1. database' \in [Applications -> [Days -> Nat]]
    <3>1. database[a] \in [Days -> Nat]
      BY <1>1
    <3>2. [database[a] EXCEPT ![today] = @ + 1] \in [Days -> Nat]
      BY <1>1, <3>1
    <3>3. [database EXCEPT ![a] = [database[a] EXCEPT ![today] = @ + 1]]
            \in [Applications -> [Days -> Nat]]
      BY <1>1, <3>2
    <3> QED
      BY <1>1, <1>2, <3>3
  <2>2. usage' \in [Applications -> Nat] /\ unwritten' \in [Applications -> Nat]
    BY <1>1, <1>2
  <2> QED
    BY <1>1, <1>2, <2>1, <2>2 DEF UsageTypeOK
<1>4. ASSUME NEW b \in Applications, loaded # 0
      PROVE  usage'[b] + unread'[b] = UsesAfter(database', b, day) + unwritten'[b]
  <2>1. /\ usage[b] + unread[b] = UsesAfter(database, b, day) + unwritten[b]
        /\ usage[b] \in Nat /\ unwritten[b] \in Nat /\ unread[b] \in Nat
    BY <1>1, <1>4 DEF UsageInv, UsageIsTheMonths
  <2> DEFINE new == database'
             x == IF b = a /\ database' # database THEN today ELSE 0
  <2>2. \A d \in Later(day) : new[b][d] = database[b][d] + (IF d = x THEN 1 ELSE 0)
    <3> SUFFICES ASSUME NEW d \in Later(day)
                 PROVE  new[b][d] = database[b][d] + (IF d = x THEN 1 ELSE 0)
      OBVIOUS
    <3>1. d \in Days /\ d # 0 /\ database[b][d] \in Nat
      <4>1. d \in Days /\ d # 0
        BY DEF Later, Days
      <4> QED
        BY <1>1, <4>1
    <3>2. CASE database' = database
      BY <3>1, <3>2
    <3>3. CASE database' # database
      BY <1>1, <1>2, <3>1, <3>3
    <3> QED
      BY <3>2, <3>3
  <2>3. x \in Later(day) <=> b = a /\ database' # database
    BY <1>1 DEF Later, Days
  <2> HIDE DEF day, new
  <2>4. /\ UsesAfter(database, b, day) \in Nat
        /\ UsesAfter(new, b, day)
             = UsesAfter(database, b, day) + (IF x \in Later(day) THEN 1 ELSE 0)
    <3>1. database \in [Applications -> [Days -> Nat]] /\ day \in Int
      BY <1>1
    <3> HIDE DEF x
    <3>2. \A d \in Later(day) : new[b][d] = database[b][d] + (IF d = x THEN 1 ELSE 0)
      BY <2>2
    <3> QED
      BY <3>1, <3>2, UsesOfOneMore
  <2>5. UsesAfter(new, b, day) \in Nat
        /\ UsesAfter(new, b, day) = UsesAfter(database, b, day)
             + (IF b = a /\ database' # database THEN 1 ELSE 0)
    BY <2>3, <2>4
  <2>6. usage'[b] = usage[b] + (IF b = a THEN 1 ELSE 0)
    BY <1>1, <1>2, <2>1
  <2>7. unwritten'[b] = unwritten[b] + (IF b = a /\ database' = database THEN 1 ELSE 0)
    <3>1. database' = database =>
            unwritten' = [unwritten EXCEPT ![a] = @ + 1]
      <4>1. [database EXCEPT ![a][today] = @ + 1] # database
        <5>1. database[a][today] \in Nat
          BY <1>1
        <5>2. [database EXCEPT ![a][today] = @ + 1][a][today] = database[a][today] + 1
          BY <1>1
        <5> QED
          BY <5>1, <5>2
      <4> QED
        BY <1>2, <4>1
    <3>2. database' # database => unwritten' = unwritten
      BY <1>2
    <3> QED
      BY <1>1, <2>1, <3>1, <3>2
  <2>8. unread'[b] = unread[b]
    BY <1>2
  <2> QED
    BY <2>1, <2>4, <2>5, <2>6, <2>7, <2>8 DEF new
<1>5. UsageIsTheMonths'
  BY <1>2, <1>4 DEF UsageIsTheMonths
<1> QED
  BY <1>3, <1>5 DEF UsageInv

TokenOK == token \in Applications \cup {None}

\* The service that starts again has an empty list, and no counts before it loads them.
LEMMA RestartIsClean ==
  ASSUME UsageInv, Restart
  PROVE  IInv' /\ TokenOK' /\ UsageInv'
<1>1. Init'
  BY DEF Restart, Init
<1>2. IInv'
  BY <1>1 DEF Init, IInv, ListInv, TypeOK, NoFocusBeforeConstruction,
     FocusedApplicationIsListed, ReportedWindowsAreTracked, WindowObjectsAreReported,
     AppstackShowsFocusedApplication
<1>3. /\ today' = today /\ loaded' = 0 /\ token' = None
      /\ usage' = [a \in Applications |-> 0] /\ unwritten' = [a \in Applications |-> 0]
      /\ unread' = [a \in Applications |-> 0]
      /\ database' = database \/ database' = [a \in Applications |-> [d \in Days |-> 0]]
  BY DEF Restart, NoUses, Empty
<1>4. UsageInv'
  BY <1>3 DEF UsageInv, UsageTypeOK, UsageIsTheMonths, Days
<1> QED
  BY <1>2, <1>3, <1>4 DEF TokenOK

\* What else happens is a step of the list or leaves it alone.
LEMMA UsageStepIsListStep ==
  ASSUME [UNext]_serviceVars, ~Restart
  PROVE  [Next]_vars
<1>1. CASE ListStep
  <2>1. ASSUME NEW w \in WindowIds, NEW a \in IgnoredIds, FocusedWindowChanged(w, a)
        PROVE  UNCHANGED vars
    BY <2>1 DEF FocusedWindowChanged, Applications, vars, listVars, queryVars
  <2>2. ASSUME NEW w \in WindowIds, NEW a \in AppIds, WindowCreated(w, a) \/ WindowDestroyed(w, a)
        PROVE  Next
    BY <2>2 DEF Next, StackSignal
  <2>3. ASSUME \/ \E a \in AppIds : RegisterApplication(a)
               \/ \E a \in Applications, w \in WindowIds : LookupWindowContext(a, w)
        PROVE  Next
    BY <2>3 DEF Next, ClientCall
  <2>4. ASSUME \/ ConstructError
               \/ \E stack \in StackReplies : \E focus \in DOMAIN stack \cup {None} :
                    Construct(stack, focus)
        PROVE  Next
    BY <2>4 DEF Next
  <2> QED
    BY <1>1, <2>1, <2>2, <2>3, <2>4 DEF ListStep
<1>2. CASE FocusStep
  BY <1>2 DEF FocusStep, Next, StackSignal, Applications
<1>3. CASE QueryStep \/ CloseStep
  BY <1>3 DEF QueryStep, CloseStep, Next, ClientCall
<1>4. CASE ExecuteCommand \/ ExecuteToolbar \/ Timeout \/ Midnight \/ UNCHANGED serviceVars
  BY <1>4 DEF ExecuteCommand, ExecuteToolbar, ExecuteItem, Timeout, Midnight, serviceVars
<1> QED
  BY <1>1, <1>2, <1>3, <1>4 DEF UNext

LEMMA NextUsage ==
  IInv /\ TokenOK /\ UsageInv /\ [UNext]_serviceVars => IInv' /\ TokenOK' /\ UsageInv'
<1> SUFFICES ASSUME IInv, TokenOK, UsageInv, [UNext]_serviceVars
             PROVE  IInv' /\ TokenOK' /\ UsageInv'
  OBVIOUS
<1>1. CASE Restart
  BY <1>1, RestartIsClean
<1>2. CASE ~Restart
  <2>1. IInv'
    BY <1>2, UsageStepIsListStep, NextIInv
  <2>2. CASE UNCHANGED <<token, today, usageVars>>
    BY <2>1, <2>2 DEF usageVars, TokenOK, UsageInv, UsageTypeOK, UsageIsTheMonths
  <2>3. CASE UpdateToken /\ today' = today
    <3>1. TokenOK'
      BY <2>1, <2>3 DEF UpdateToken, TokenOK, IInv, TypeOK
    <3>2. UNCHANGED usageVars \/ LoadFromDatabase
      BY <2>3 DEF UpdateToken
    <3>3. UsageInv'
      <4>1. CASE UNCHANGED usageVars
        BY <2>3, <4>1 DEF usageVars, UsageInv, UsageTypeOK, UsageIsTheMonths
      <4>2. CASE LoadFromDatabase
        BY <2>3, <4>2, LoadKeepsUsage
      <4> QED
        BY <3>2, <4>1, <4>2
    <3> QED
      BY <2>1, <3>1, <3>3
  <2>4. CASE ExecuteItem
    <3>1. token \in Applications /\ MarkUsage(token) /\ today' = today /\ token' = token
      BY <2>4 DEF ExecuteItem, TokenOK
    <3> QED
      BY <2>1, <3>1, MarkKeepsUsage DEF TokenOK
  <2>5. CASE Timeout
    BY <2>1, <2>5, LoadKeepsUsage DEF Timeout, TokenOK
  <2>6. CASE Midnight
    <3>1. /\ today' = today + 1 /\ today' \in Days /\ today \in Nat
          /\ UNCHANGED <<token, loaded, usage, database, unwritten, unread>>
      BY <2>6, UsageAssumption DEF Midnight, usageVars, UsageInv, UsageTypeOK, Days
    <3>2. UsageTypeOK'
      BY <3>1 DEF UsageInv, UsageTypeOK
    <3> QED
      BY <2>1, <3>1, <3>2 DEF TokenOK, UsageInv, UsageIsTheMonths
  <2>7. CASE CloseStep
    BY <2>1, <2>7 DEF CloseStep, usageVars, TokenOK, UsageInv, UsageTypeOK, UsageIsTheMonths
  <2> QED
    BY <1>2, <2>2, <2>3, <2>4, <2>5, <2>6, <2>7
       DEF UNext, ListStep, FocusStep, QueryStep, ExecuteCommand, ExecuteToolbar, serviceVars
<1> QED
  BY <1>1, <1>2

\* What the list keeps it keeps when the service ends and starts again, and whatever
\* commands are run.
THEOREM RestartsKeepListInvariants ==
  USpec => [](TypeOK /\ FocusedApplicationIsListed /\ WindowsMatchTheReports
                /\ AppstackShowsFocusedApplication)
<1>1. UInit => IInv /\ TokenOK /\ UsageInv
  BY InitIInv, InitUsage DEF UInit, TokenOK
<1>2. IInv => TypeOK /\ FocusedApplicationIsListed /\ WindowsMatchTheReports
                /\ AppstackShowsFocusedApplication
  BY DEF IInv, ListInv, WindowsMatchTheReports
<1> QED
  BY <1>1, <1>2, NextUsage, PTL DEF USpec

\* The cache of the usage tracker and what its last load could not read are, for each
\* application, what the database has of the month before that load, and what could not
\* be written since: a reload of any day, uses of any query's commands, statements the
\* database fails and a service that ends never take the two apart (SqliteUsageTracker's
\* markUsage and loadFromDatabase).
THEOREM CacheIsTheMonths == USpec => []UsageIsTheMonths
<1>1. UInit => IInv /\ TokenOK /\ UsageInv
  BY InitIInv, InitUsage DEF UInit, TokenOK
<1>2. UsageInv => UsageIsTheMonths
  BY DEF UsageInv
<1> QED
  BY <1>1, <1>2, NextUsage, PTL DEF USpec
=============================================================================
