--------------------------- MODULE WindowMenusProofs ---------------------------
(***************************************************************************)
(* What the queries of hud-service search, for any windows, menus and      *)
(* queries: always the focused window, and, as soon as nothing is under    *)
(* way, the contents and the contexts its menus have now.                  *)
(***************************************************************************)
EXTENDS WindowMenus, DBusMenu, FiniteSetTheorems, WellFoundedInduction, TLAPS

USE WindowsAssumption, MenusAssumption

\* The tokens queries hold.
Held == {tokenOf[q] : q \in Queries} \ {0}

\* The name NewToken takes.
Unused == CHOOSE n \in Tokens : \A r \in Queries : tokenOf[r] # n

\* There is one token more than queries: one that no query holds.
LEMMA SomeTokenIsUnused ==
  ASSUME TypeOK
  PROVE  Unused \in Tokens /\ \A r \in Queries : tokenOf[r] # Unused
<1> DEFINE n == Cardinality(Queries)
<1>1. n \in Nat
  BY FS_CardinalityType
<1>2. IsFiniteSet(Tokens) /\ Cardinality(Tokens) = n + 1
  BY <1>1, FS_Interval DEF Tokens
<1>3. \E t \in Tokens : \A r \in Queries : tokenOf[r] # t
  <2> SUFFICES ASSUME \A t \in Tokens : \E r \in Queries : tokenOf[r] = t
               PROVE  FALSE
    OBVIOUS
  <2> DEFINE f == [t \in Tokens |-> CHOOSE r \in Queries : tokenOf[r] = t]
  <2>1. f \in [Tokens -> Queries] /\ \A t \in Tokens : tokenOf[f[t]] = t
    OBVIOUS
  <2>2. Cardinality(Queries) < Cardinality(Tokens)
    BY <1>1, <1>2
  <2> HIDE DEF f
  <2>3. \E x, y \in Tokens : x # y /\ f[x] = f[y]
    BY <1>2, <2>1, <2>2, FS_PigeonHole
  <2> QED
    BY <2>1, <2>3
<1> QED
  BY <1>3 DEF Unused

LEMMA SourcesType ==
  ASSUME TypeOK, NEW w \in WindowIds
  PROVE  Sources(w) \subseteq Menus \cup DBusMenus
<1>1. active[w] \in {0} \cup Registered /\ active[AppOf[w]] \in {0} \cup Registered
  BY DEF TypeOK, Scopes
<1> QED
  BY <1>1 DEF Sources, DBusSources, GMenuSources, ActiveCollectors, Menus

LEMMA TokenType ==
  ASSUME TypeOK, NEW w \in WindowIds
  PROVE  /\ Token(w) \in WindowTokens
         /\ Token(w).outdated = {} /\ Token(w).window = w /\ Token(w).holds = Sources(w)
BY SourcesType DEF Token, WindowTokens

LEMMA DeadType == Dead \in WindowTokens
BY DEF Dead, WindowTokens

\* The variables of tokens are of their types.
TokensOK ==
  /\ tokenOf \in [Queries -> {0} \cup Tokens]
  /\ connected \in [Queries -> SUBSET Tokens]
  /\ tokens \in [Tokens -> WindowTokens]
  /\ \A t \in Tokens : tokens[t].outdated \subseteq tokens[t].holds
  /\ latest \in [WindowIds -> {0} \cup Tokens]
  /\ hears \in [Menus -> {0} \cup Tokens]
  /\ timers \subseteq Tokens

\* What is held stays as it was given; weak pointers lead to what is held.
LEMMA HoldTokensType ==
  ASSUME NEW of \in [Queries -> {0} \cup Tokens],
         NEW conn \in [Queries -> SUBSET Tokens],
         NEW toks \in [Tokens -> WindowTokens],
         \A t \in Tokens : toks[t].outdated \subseteq toks[t].holds,
         NEW lat \in [WindowIds -> {0} \cup Tokens],
         NEW hrs \in [Menus -> {0} \cup Tokens],
         timers \subseteq Tokens,
         HoldTokens(of, conn, toks, lat, hrs)
  PROVE  TokensOK'
<1> DEFINE held == {of[q] : q \in Queries} \ {0}
<1>1. held \subseteq Tokens
  OBVIOUS
<1>2. /\ tokenOf' = of
      /\ connected' = [q \in Queries |-> conn[q] \cap held]
      /\ tokens' = [t \in Tokens |-> IF t \in held THEN toks[t] ELSE Dead]
      /\ latest' = [w \in WindowIds |-> IF lat[w] \in held THEN lat[w] ELSE 0]
      /\ hears' = [m \in Menus |-> IF hrs[m] \in held THEN hrs[m] ELSE 0]
      /\ timers' = timers \cap held
  BY DEF HoldTokens
<1> HIDE DEF held
<1>3. /\ tokenOf' \in [Queries -> {0} \cup Tokens]
      /\ connected' \in [Queries -> SUBSET Tokens]
      /\ latest' \in [WindowIds -> {0} \cup Tokens]
      /\ hears' \in [Menus -> {0} \cup Tokens]
      /\ timers' \subseteq Tokens
  BY <1>1, <1>2
<1>4. tokens' \in [Tokens -> WindowTokens]
  BY <1>2, DeadType
<1>5. \A t \in Tokens : tokens'[t].outdated \subseteq tokens'[t].holds
  BY <1>2 DEF Dead
<1> QED
  BY <1>3, <1>4, <1>5 DEF TokensOK

LEMMA InitTypeOK == Init => TypeOK
<1> SUFFICES ASSUME Init PROVE TypeOK
  OBVIOUS
<1>1. tokens \in [Tokens -> WindowTokens]
  BY DeadType DEF Init
<1>2. \A t \in Tokens : tokens[t].outdated \subseteq tokens[t].holds
  BY DEF Init, Dead
<1>3. /\ context \in [Scopes -> Contexts]
      /\ collectors \in [Scopes -> [Contexts -> {0} \cup Registered]]
      /\ active \in [Scopes -> {0} \cup Registered]
      /\ count \in 0..MaxMenus /\ appMenus \subseteq WindowIds
      /\ focus \in WindowIds \cup {None} /\ open \subseteq Queries /\ todo \subseteq open
  BY DEF Init, ConstructDBusMenus
<1>4. /\ tokenOf \in [Queries -> {0} \cup Tokens]
      /\ connected \in [Queries -> SUBSET Tokens]
      /\ latest \in [WindowIds -> {0} \cup Tokens]
      /\ hears \in [Menus -> {0} \cup Tokens]
      /\ timers \subseteq Tokens
  BY DEF Init
<1> QED
  BY <1>1, <1>2, <1>3, <1>4 DEF TypeOK

\* A query takes the token t of the focused window: the one it has, or a new one.
LEMMA SameTokenType ==
  ASSUME TypeOK, NEW q \in Queries, NEW w \in WindowIds, SameToken(q, w)
  PROVE  TokensOK'
<1> DEFINE of == [tokenOf EXCEPT ![q] = latest[w]]
           conn == [connected EXCEPT ![q] = @ \cup {latest[w]}]
<1>1. latest[w] \in Tokens
  BY DEF SameToken, Reusable, TypeOK
<1>2. of \in [Queries -> {0} \cup Tokens] /\ conn \in [Queries -> SUBSET Tokens]
  BY <1>1 DEF TypeOK
<1>3. HoldTokens(of, conn, tokens, latest, hears)
  BY DEF SameToken, UpdateToken
<1> HIDE DEF of, conn
<1> QED
  BY <1>2, <1>3, HoldTokensType DEF TypeOK

LEMMA NewTokenType ==
  ASSUME TypeOK, NEW q \in Queries, NEW w \in WindowIds, NewToken(q, w)
  PROVE  TokensOK'
<1> DEFINE t == Unused
           of == [tokenOf EXCEPT ![q] = t]
           conn == [connected EXCEPT ![q] = @ \cup {t}]
           toks == [tokens EXCEPT ![t] = Token(w)]
           lat == [latest EXCEPT ![w] = t]
           hrs == [m \in Menus |-> IF m \in Sources(w) THEN t ELSE hears[m]]
<1>1. t \in Tokens
  BY SomeTokenIsUnused
<1>2. HoldTokens(of, conn, toks, lat, hrs)
  BY DEF NewToken, UpdateToken, Unused
<1> HIDE DEF t
<1>3. /\ of \in [Queries -> {0} \cup Tokens] /\ conn \in [Queries -> SUBSET Tokens]
      /\ lat \in [WindowIds -> {0} \cup Tokens] /\ hrs \in [Menus -> {0} \cup Tokens]
  BY <1>1 DEF TypeOK
<1>4. /\ toks \in [Tokens -> WindowTokens]
      /\ \A n \in Tokens : toks[n].outdated \subseteq toks[n].holds
  BY <1>1, TokenType DEF TypeOK
<1> HIDE DEF of, conn, toks, lat, hrs
<1> QED
  BY <1>2, <1>3, <1>4, HoldTokensType DEF TypeOK

LEMMA RefreshTypeOK ==
  ASSUME TypeOK, NEW q \in Queries, Refresh(q)
  PROVE  TypeOK'
<1>1. todo' \subseteq open'
  BY DEF Refresh, TypeOK
<1>2. UNCHANGED tokenVars => TokensOK'
  BY DEF tokenVars, TypeOK, TokensOK
<1>3. TokensOK'
  <2>1. CASE focus = None
    BY <2>1, <1>2 DEF Refresh
  <2>2. CASE focus # None
    <3>1. focus \in WindowIds
      BY <2>2 DEF TypeOK
    <3> QED
      BY <2>2, <3>1, SameTokenType, NewTokenType DEF Refresh
  <2> QED
    BY <2>1, <2>2
<1> QED
  BY <1>1, <1>3 DEF TypeOK, TokensOK, Refresh, contextVars

LEMMA CloseQueryTypeOK ==
  ASSUME TypeOK, NEW q \in Queries, CloseQuery(q)
  PROVE  TypeOK'
<1> DEFINE of == [tokenOf EXCEPT ![q] = 0]
           conn == [connected EXCEPT ![q] = {}]
<1>1. of \in [Queries -> {0} \cup Tokens] /\ conn \in [Queries -> SUBSET Tokens]
  BY DEF TypeOK
<1>2. HoldTokens(of, conn, tokens, latest, hears)
  BY DEF CloseQuery
<1> HIDE DEF of, conn
<1>3. TokensOK'
  BY <1>1, <1>2, HoldTokensType DEF TypeOK
<1>4. todo' \subseteq open' /\ open' \subseteq Queries
  BY DEF CloseQuery, TypeOK, Idle
<1> QED
  BY <1>3, <1>4 DEF TypeOK, TokensOK, CloseQuery, contextVars

LEMMA MenuItemsChangedTypeOK ==
  ASSUME TypeOK, NEW m \in Menus, MenuItemsChanged(m)
  PROVE  TypeOK'
<1>1. tokens' = [t \in Tokens |->
                   IF m \in tokens[t].holds
                   THEN [tokens[t] EXCEPT !.outdated = @ \cup {m}] ELSE tokens[t]]
  BY DEF MenuItemsChanged
<1>2. ASSUME NEW t \in Tokens
      PROVE  tokens'[t] \in WindowTokens /\ tokens'[t].outdated \subseteq tokens'[t].holds
  <2>1. tokens[t] \in WindowTokens /\ tokens[t].outdated \subseteq tokens[t].holds
    BY DEF TypeOK
  <2>2. CASE m \in tokens[t].holds
    <3>1. tokens'[t] = [tokens[t] EXCEPT !.outdated = @ \cup {m}]
      BY <1>1, <2>2
    <3> QED
      BY <2>1, <2>2, <3>1 DEF WindowTokens
  <2>3. CASE m \notin tokens[t].holds
    BY <1>1, <2>1, <2>3
  <2> QED
    BY <2>2, <2>3
<1>3. tokens' \in [Tokens -> WindowTokens]
  BY <1>1, <1>2
<1>4. timers' \subseteq Tokens
  BY DEF MenuItemsChanged, ChildChanged, TypeOK
<1> QED
  BY <1>2, <1>3, <1>4 DEF TypeOK, MenuItemsChanged, ChildChanged, contextVars

LEMMA NextTypeOK == ASSUME TypeOK, [Next]_vars PROVE TypeOK'
<1>1. ASSUME NEW q \in Queries, OpenQuery(q) \/ UpdateQuery(q) PROVE TypeOK'
  BY <1>1 DEF TypeOK, OpenQuery, UpdateQuery, contextVars, tokenVars
<1>2. ASSUME NEW q \in Queries, CloseQuery(q) \/ Refresh(q) PROVE TypeOK'
  BY <1>2, CloseQueryTypeOK, RefreshTypeOK
<1>3. ASSUME NEW s \in Scopes, NEW c \in Contexts, SetWindowContext(s, c) PROVE TypeOK'
  <2>1. /\ context' \in [Scopes -> Contexts]
        /\ active' \in [Scopes -> {0} \cup Registered]
    BY <1>3 DEF TypeOK, SetWindowContext
  <2>2. timers' \subseteq Tokens
    BY <1>3 DEF TypeOK, SetWindowContext, ChildChanged, Listening
  <2> QED
    BY <1>3, <2>1, <2>2 DEF TypeOK, SetWindowContext, ChildChanged
<1>4. ASSUME NEW s \in Scopes, NEW c \in Contexts, AddSources(s, c) PROVE TypeOK'
  <2>1. count' \in 0..MaxMenus /\ count' \in Registered
    BY <1>4 DEF TypeOK, AddSources, Registered
  <2>2. collectors' \in [Scopes -> [Contexts -> {0} \cup Registered]]
    BY <1>4, <2>1 DEF TypeOK, AddSources, AddMenu
  <2> QED
    BY <1>4, <2>1, <2>2 DEF TypeOK, AddSources, tokenVars
<1>5. ASSUME NEW w \in WindowIds, WindowRegistered(w) PROVE TypeOK'
  BY <1>5 DEF TypeOK, WindowRegistered, tokenVars
<1>6. ASSUME NEW m \in Menus, MenuItemsChanged(m) PROVE TypeOK'
  BY <1>6, MenuItemsChangedTypeOK
<1>7. ASSUME NEW t \in Tokens, Timeout(t) PROVE TypeOK'
  BY <1>7 DEF TypeOK, Timeout, contextVars
<1>8. ASSUME NEW w \in WindowIds \cup {None}, SetFocusedWindow(w) PROVE TypeOK'
  BY <1>8 DEF TypeOK, SetFocusedWindow, contextVars, tokenVars
<1>9. CASE UNCHANGED vars
  BY <1>9 DEF TypeOK, vars, contextVars, tokenVars
<1> QED
  BY <1>1, <1>2, <1>3, <1>4, <1>5, <1>6, <1>7, <1>8, <1>9 DEF Next, QueryStep, MenuStep

\* A query only ever holds a token there is, and a token indexes only menus there
\* are, whatever windows, contexts and menus come, change and go.
THEOREM TypeCorrect == Spec => []TypeOK
BY InitTypeOK, NextTypeOK, PTL DEF Spec

-----------------------------------------------------------------------------
(* The queries act on the focused window.                                  *)

\* The sources of a window's token as they are, and the last to be told of them.
Current(w, t) ==
  /\ tokens[t].outdated = {}
  /\ tokens[t].holds \ DBusMenus = Sources(w) \ DBusMenus
  /\ \A m \in tokens[t].holds \ DBusMenus : hears[m] = t

\* What makes both invariants inductive.  While a signal is emitted, the queries in
\* todo may hold a token of another window, or one that is out of date.
QueriesOK ==
  /\ \A w \in WindowIds :
       latest[w] # 0 => latest[w] \in Held /\ tokens[latest[w]].window = w
  /\ \A q \in Queries : tokenOf[q] # 0 => q \in open /\ tokenOf[q] \in connected[q]
  /\ timers \subseteq Held
  /\ focus # None =>
       \A q \in open \ todo : tokenOf[q] # 0 /\ tokens[tokenOf[q]].window = focus
  /\ focus # None /\ latest[focus] \notin timers \cup {0} =>
       \/ Current(focus, latest[focus])
       \/ \A q \in Queries : tokenOf[q] = latest[focus] => q \in todo

LEMMA InitQueriesOK == Init => QueriesOK
BY DEF Init, QueriesOK

\* A step that leaves the tokens, and the sources but for DBusMenus, alone, and
\* takes no query off todo.
LEMMA AsideQueriesOK ==
  ASSUME TypeOK, QueriesOK, UNCHANGED <<focus, tokenVars, active>>,
         open \subseteq open', todo \subseteq todo', open' \ todo' \subseteq open
  PROVE  QueriesOK'
<1>1. ASSUME NEW w \in WindowIds PROVE Sources(w)' \ DBusMenus = Sources(w) \ DBusMenus
  <2>1. DBusSources(w) \subseteq DBusMenus /\ DBusSources(w)' \subseteq DBusMenus
    BY DEF DBusSources
  <2>2. ActiveCollectors(w)' = ActiveCollectors(w) /\ GMenuSources(w)' = GMenuSources(w)
    BY DEF ActiveCollectors, GMenuSources
  <2> QED
    BY <2>1, <2>2 DEF Sources
<1>2. Held' = Held
  BY DEF Held, tokenVars
<1>3. ASSUME NEW t, NEW w \in WindowIds, Current(w, t) PROVE Current(w, t)'
  BY <1>1, <1>3 DEF Current, tokenVars
<1>4. focus' # None => focus' \in WindowIds /\ focus = focus'
  BY DEF TypeOK
<1> QED
  BY <1>2, <1>3, <1>4 DEF QueriesOK, tokenVars

\* A query that takes the last token of the focused window shares the sources that
\* are never out of date.
LEMMA SameTokenQueriesOK ==
  ASSUME TypeOK, QueriesOK, NEW q \in todo, focus # None, todo' = todo \ {q},
         SameToken(q, focus), UNCHANGED <<contextVars, focus, open>>
  PROVE  QueriesOK'
<1> DEFINE t == latest[focus]
           of == [tokenOf EXCEPT ![q] = t]
           held == {of[r] : r \in Queries} \ {0}
<1>1. q \in Queries /\ q \in open /\ focus \in WindowIds
  BY DEF TypeOK
<1>2. /\ t \in Tokens /\ t # 0 /\ t \in Held /\ tokens[t].window = focus
      /\ Sources(focus) \subseteq DBusMenus /\ tokens[t].holds = Sources(focus)
  BY <1>1 DEF SameToken, Reusable, QueriesOK, TypeOK
<1>3. /\ tokenOf' = of
      /\ connected' = [r \in Queries |-> [connected EXCEPT ![q] = @ \cup {t}][r] \cap held]
      /\ tokens' = [n \in Tokens |-> IF n \in held THEN tokens[n] ELSE Dead]
      /\ latest' = [w \in WindowIds |-> IF latest[w] \in held THEN latest[w] ELSE 0]
      /\ timers' = timers \cap held
  BY DEF SameToken, UpdateToken, HoldTokens
<1>4. /\ of[q] = t /\ t \in held /\ held \subseteq Tokens
      /\ \A r \in Queries \ {q} : of[r] = tokenOf[r] /\ (of[r] # 0 => of[r] \in held)
  <2>1. of \in [Queries -> {0} \cup Tokens] /\ of[q] = t
    BY <1>1, <1>2 DEF TypeOK
  <2>2. \A r \in Queries \ {q} : of[r] = tokenOf[r]
    BY DEF TypeOK
  <2> HIDE DEF of
  <2> QED
    BY <1>1, <1>2, <2>1, <2>2
<1>5. Held' = held
  BY <1>3 DEF Held
<1> HIDE DEF of, held
<1>6. ASSUME NEW w \in WindowIds
      PROVE  latest'[w] # 0 => latest'[w] \in Held' /\ tokens'[latest'[w]].window = w
  <2>1. latest'[w] # 0 => latest'[w] = latest[w] /\ latest[w] \in held
    BY <1>3
  <2>2. latest'[w] # 0 => tokens'[latest[w]] = tokens[latest[w]]
    BY <1>3, <1>4, <2>1
  <2> QED
    BY <1>5, <2>1, <2>2 DEF QueriesOK
<1>7. ASSUME NEW r \in Queries
      PROVE  tokenOf'[r] # 0 => r \in open' /\ tokenOf'[r] \in connected'[r]
  <2>1. CASE r = q
    BY <1>1, <1>3, <1>4, <2>1 DEF TypeOK
  <2>2. CASE r # q
    BY <1>1, <1>3, <1>4, <2>2 DEF TypeOK, QueriesOK
  <2> QED
    BY <2>1, <2>2
<1>8. ASSUME NEW r \in open' \ todo'
      PROVE  tokenOf'[r] # 0 /\ tokens'[tokenOf'[r]].window = focus'
  <2>1. CASE r = q
    <3>1. tokenOf'[r] = t /\ tokens'[t] = tokens[t]
      BY <1>2, <1>3, <1>4, <2>1
    <3> QED
      BY <1>2, <3>1
  <2>2. CASE r # q
    <3>1. tokenOf[r] # 0 /\ tokens[tokenOf[r]].window = focus /\ r \in Queries
      BY <1>8, <2>2 DEF QueriesOK, TypeOK
    <3>2. tokenOf'[r] = tokenOf[r] /\ tokens'[tokenOf[r]] = tokens[tokenOf[r]]
      BY <1>3, <1>4, <2>2, <3>1
    <3> QED
      BY <3>1, <3>2
  <2> QED
    BY <2>1, <2>2
<1>9. Current(focus, latest[focus])'
  <2>1. latest'[focus] = t /\ tokens'[t] = tokens[t]
    BY <1>1, <1>2, <1>3, <1>4
  <2>2. Sources(focus)' = Sources(focus)
    BY DEF Sources, DBusSources, GMenuSources, ActiveCollectors, contextVars
  <2>3. tokens[t].outdated \subseteq Menus /\ tokens[t].outdated \subseteq tokens[t].holds
    BY <1>2 DEF TypeOK, WindowTokens
  <2>4. tokens[t].outdated = {} /\ tokens[t].holds \ DBusMenus = {}
    BY <1>2, <2>3
  <2> QED
    BY <1>2, <2>1, <2>2, <2>4 DEF Current
<1>10. timers' \subseteq Held'
  BY <1>3, <1>5
<1> QED
  BY <1>6, <1>7, <1>8, <1>9, <1>10 DEF QueriesOK

\* A query that takes a new token has a current one, and takes no other's.
LEMMA NewTokenQueriesOK ==
  ASSUME TypeOK, QueriesOK, NEW q \in todo, focus # None, todo' = todo \ {q},
         NewToken(q, focus), UNCHANGED <<contextVars, focus, open>>
  PROVE  QueriesOK'
<1> DEFINE t == Unused
           of == [tokenOf EXCEPT ![q] = t]
           conn == [connected EXCEPT ![q] = @ \cup {t}]
           toks == [tokens EXCEPT ![t] = Token(focus)]
           lat == [latest EXCEPT ![focus] = t]
           hrs == [m \in Menus |-> IF m \in Sources(focus) THEN t ELSE hears[m]]
           held == {of[r] : r \in Queries} \ {0}
<1>1. q \in Queries /\ q \in open /\ focus \in WindowIds
  BY DEF TypeOK
<1>2. t \in Tokens /\ t # 0 /\ t \notin Held /\ \A r \in Queries : tokenOf[r] # t
  BY SomeTokenIsUnused DEF Tokens, Held
<1>3. /\ tokenOf' = of
      /\ connected' = [r \in Queries |-> conn[r] \cap held]
      /\ tokens' = [n \in Tokens |-> IF n \in held THEN toks[n] ELSE Dead]
      /\ latest' = [w \in WindowIds |-> IF lat[w] \in held THEN lat[w] ELSE 0]
      /\ hears' = [m \in Menus |-> IF hrs[m] \in held THEN hrs[m] ELSE 0]
      /\ timers' = timers \cap held
  BY DEF NewToken, UpdateToken, HoldTokens, Unused
<1> HIDE DEF t
<1>4. /\ of[q] = t /\ t \in held /\ held \subseteq Tokens
      /\ \A r \in Queries \ {q} : of[r] = tokenOf[r] /\ (of[r] # 0 => of[r] \in held)
  <2>1. of \in [Queries -> {0} \cup Tokens] /\ of[q] = t
    BY <1>1, <1>2 DEF TypeOK
  <2>2. \A r \in Queries \ {q} : of[r] = tokenOf[r]
    BY DEF TypeOK
  <2> HIDE DEF of
  <2> QED
    BY <1>1, <1>2, <2>1, <2>2
<1>5. Held' = held
  BY <1>3 DEF Held
<1>6. /\ tokens'[t] = Token(focus)
      /\ \A n \in held \ {t} : tokens'[n] = tokens[n]
  BY <1>2, <1>3, <1>4 DEF TypeOK
<1>7. /\ q \in DOMAIN connected /\ t \in conn[q]
      /\ \A r \in Queries \ {q} : conn[r] = connected[r]
  BY <1>1 DEF TypeOK
<1>8. /\ lat[focus] = t
      /\ \A w \in WindowIds \ {focus} : lat[w] = latest[w]
  BY <1>1 DEF TypeOK
<1> HIDE DEF of, conn, lat, toks, held
<1>9. ASSUME NEW w \in WindowIds
      PROVE  latest'[w] # 0 => latest'[w] \in Held' /\ tokens'[latest'[w]].window = w
  <2>1. CASE w = focus
    BY <1>1, <1>3, <1>4, <1>5, <1>6, <1>8, <2>1, TokenType
  <2>2. CASE w # focus
    <3>1. latest'[w] # 0 => latest'[w] = latest[w] /\ latest[w] \in held
      BY <1>3, <1>8, <2>2
    <3>2. latest[w] # 0 => latest[w] # t /\ tokens[latest[w]].window = w
      BY <1>2 DEF QueriesOK
    <3> QED
      BY <1>5, <1>6, <3>1, <3>2
  <2> QED
    BY <2>1, <2>2
<1>10. ASSUME NEW r \in Queries
      PROVE  tokenOf'[r] # 0 => r \in open' /\ tokenOf'[r] \in connected'[r]
  <2>1. CASE r = q
    BY <1>1, <1>3, <1>4, <1>7, <2>1
  <2>2. CASE r # q
    BY <1>1, <1>3, <1>4, <1>7, <2>2 DEF QueriesOK
  <2> QED
    BY <2>1, <2>2
<1>11. ASSUME NEW r \in open' \ todo'
      PROVE  tokenOf'[r] # 0 /\ tokens'[tokenOf'[r]].window = focus'
  <2>1. CASE r = q
    BY <1>1, <1>2, <1>3, <1>4, <1>6, <2>1, TokenType
  <2>2. CASE r # q
    <3>1. tokenOf[r] # 0 /\ tokens[tokenOf[r]].window = focus /\ r \in Queries
      BY <1>11, <2>2 DEF QueriesOK, TypeOK
    <3>2. tokenOf'[r] = tokenOf[r] /\ tokenOf[r] \in held \ {t}
      BY <1>2, <1>3, <1>4, <2>2, <3>1
    <3> QED
      BY <1>6, <3>1, <3>2
  <2> QED
    BY <2>1, <2>2
<1>12. Current(focus, latest[focus])'
  <2>1. latest'[focus] = t
    BY <1>1, <1>3, <1>4, <1>8
  <2>2. Sources(focus)' = Sources(focus)
    BY DEF Sources, DBusSources, GMenuSources, ActiveCollectors, contextVars
  <2>3. tokens'[t].outdated = {} /\ tokens'[t].holds = Sources(focus)
    BY <1>1, <1>6, TokenType
  <2>4. ASSUME NEW m \in Sources(focus) \ DBusMenus PROVE hears'[m] = t
    <3>1. m \in Menus
      BY <1>1, SourcesType
    <3> QED
      BY <1>3, <1>4, <3>1
  <2> QED
    BY <2>1, <2>2, <2>3, <2>4 DEF Current
<1>13. timers' \subseteq Held'
  BY <1>3, <1>5
<1> QED
  BY <1>9, <1>10, <1>11, <1>12, <1>13 DEF QueriesOK

LEMMA RefreshQueriesOK ==
  ASSUME TypeOK, QueriesOK, NEW q \in Queries, Refresh(q)
  PROVE  QueriesOK'
<1>1. /\ q \in todo /\ todo' = todo \ {q}
      /\ UNCHANGED <<contextVars, focus, open>>
  BY DEF Refresh
<1>2. CASE focus = None
  <2>1. UNCHANGED <<tokenVars, focus, open>>
    BY <1>1, <1>2 DEF Refresh
  <2>2. Held' = Held
    BY <2>1 DEF Held, tokenVars
  <2> QED
    BY <1>2, <2>1, <2>2 DEF QueriesOK, tokenVars
<1>3. CASE focus # None
  BY <1>1, <1>3, SameTokenQueriesOK, NewTokenQueriesOK DEF Refresh
<1> QED
  BY <1>2, <1>3

\* The tokens of a query that goes may go, those of the others stay.
LEMMA CloseQueryQueriesOK ==
  ASSUME TypeOK, QueriesOK, NEW q \in Queries, CloseQuery(q)
  PROVE  QueriesOK'
<1> DEFINE of == [tokenOf EXCEPT ![q] = 0]
           held == {of[r] : r \in Queries} \ {0}
<1>1. /\ tokenOf' = of
      /\ connected' = [r \in Queries |-> [connected EXCEPT ![q] = {}][r] \cap held]
      /\ tokens' = [n \in Tokens |-> IF n \in held THEN tokens[n] ELSE Dead]
      /\ latest' = [w \in WindowIds |-> IF latest[w] \in held THEN latest[w] ELSE 0]
      /\ hears' = [m \in Menus |-> IF hears[m] \in held THEN hears[m] ELSE 0]
      /\ timers' = timers \cap held
      /\ open' = open \ {q} /\ todo = {} /\ todo' = {}
      /\ UNCHANGED <<contextVars, focus>>
  BY DEF CloseQuery, HoldTokens, Idle
<1>2. /\ of[q] = 0 /\ held \subseteq Tokens
      /\ \A r \in Queries \ {q} : of[r] = tokenOf[r] /\ (of[r] # 0 => of[r] \in held)
  <2>1. of \in [Queries -> {0} \cup Tokens] /\ of[q] = 0
    BY DEF TypeOK
  <2>2. \A r \in Queries \ {q} : of[r] = tokenOf[r]
    BY DEF TypeOK
  <2> HIDE DEF of
  <2> QED
    BY <2>1, <2>2
<1>3. Held' = held
  BY <1>1 DEF Held
<1> HIDE DEF of, held
<1>4. ASSUME NEW w \in WindowIds, latest'[w] # 0
      PROVE  latest'[w] = latest[w] /\ latest[w] # 0 /\ latest[w] \in held
             /\ tokens'[latest[w]] = tokens[latest[w]]
  BY <1>1, <1>2, <1>4
<1>5. ASSUME NEW w \in WindowIds
      PROVE  latest'[w] # 0 => latest'[w] \in Held' /\ tokens'[latest'[w]].window = w
  BY <1>3, <1>4 DEF QueriesOK
<1>6. ASSUME NEW r \in Queries
      PROVE  tokenOf'[r] # 0 => r \in open' /\ tokenOf'[r] \in connected'[r]
  <2>1. CASE r = q
    BY <1>1, <1>2, <2>1
  <2>2. CASE r # q
    BY <1>1, <1>2, <2>2 DEF QueriesOK, TypeOK
  <2> QED
    BY <2>1, <2>2
<1>7. ASSUME focus' # None, NEW r \in open' \ todo'
      PROVE  tokenOf'[r] # 0 /\ tokens'[tokenOf'[r]].window = focus'
  <2>1. r \in Queries \ {q} /\ tokenOf[r] # 0 /\ tokens[tokenOf[r]].window = focus
    BY <1>1, <1>7 DEF QueriesOK, TypeOK
  <2>2. tokenOf'[r] = tokenOf[r] /\ tokens'[tokenOf[r]] = tokens[tokenOf[r]]
    BY <1>1, <1>2, <2>1
  <2> QED
    BY <1>1, <2>1, <2>2
<1>8. ASSUME focus' # None, latest'[focus'] \notin timers' \cup {0}
      PROVE  Current(focus, latest[focus])'
  <2>1. focus' = focus /\ focus \in WindowIds
    BY <1>1, <1>8 DEF TypeOK
  <2> DEFINE t == latest[focus]
  <2>2. /\ latest'[focus] = t /\ t # 0 /\ t \in held /\ tokens'[t] = tokens[t]
        /\ t \notin timers
    BY <1>1, <1>4, <1>8, <2>1
  <2>3. t \in Held
    BY <2>1, <2>2 DEF QueriesOK
  <2>4. Current(focus, t)
    BY <1>1, <1>8, <2>1, <2>2, <2>3 DEF QueriesOK, Held
  <2>5. Sources(focus)' = Sources(focus)
    BY <1>1 DEF Sources, DBusSources, GMenuSources, ActiveCollectors, contextVars
  <2>6. tokens[t].holds \ DBusMenus \subseteq Menus
    BY <1>2, <2>2 DEF TypeOK, WindowTokens
  <2>7. \A m \in tokens[t].holds \ DBusMenus : hears'[m] = t
    BY <1>1, <2>2, <2>4, <2>6 DEF Current
  <2> QED
    BY <2>1, <2>2, <2>4, <2>5, <2>7 DEF Current
<1>9. timers' \subseteq Held'
  BY <1>1, <1>3
<1> QED
  BY <1>5, <1>6, <1>7, <1>8, <1>9 DEF QueriesOK

\* The window that gets the focus has all open queries refreshed.
LEMMA FocusQueriesOK ==
  ASSUME TypeOK, QueriesOK, NEW w \in WindowIds \cup {None}, SetFocusedWindow(w)
  PROVE  QueriesOK'
<1>1. focus' = w /\ todo' = open /\ UNCHANGED <<contextVars, open, tokenVars>>
  BY DEF SetFocusedWindow
<1>2. Held' = Held
  BY <1>1 DEF Held, tokenVars
<1> QED
  BY <1>1, <1>2 DEF QueriesOK, tokenVars

\* Between two events somebody holds the last token and waits for no signal, so the
\* token is current if its timer does not run.
LEMMA IdleCurrent ==
  ASSUME TypeOK, QueriesOK, Idle, focus # None, latest[focus] \notin timers \cup {0}
  PROVE  /\ Current(focus, latest[focus])
         /\ latest[focus] \in Tokens /\ tokens[latest[focus]].window = focus
<1>1. focus \in WindowIds
  BY DEF TypeOK
<1>2. PICK q \in Queries : tokenOf[q] = latest[focus]
  BY <1>1 DEF QueriesOK, Held
<1> QED
  BY <1>1, <1>2 DEF QueriesOK, Idle, TypeOK

\* A timer that ends refreshes the queries that hold the token.
LEMMA TimeoutQueriesOK ==
  ASSUME TypeOK, QueriesOK, NEW t \in Tokens, Timeout(t)
  PROVE  QueriesOK'
<1>1. /\ timers' = timers \ {t} /\ Idle
      /\ {q \in open : tokenOf[q] = t} \subseteq todo' /\ todo' \subseteq open
      /\ UNCHANGED <<contextVars, focus, open, tokenOf, connected, tokens, latest, hears>>
  BY DEF Timeout
<1>2. Held' = Held
  BY <1>1 DEF Held
<1>3. ASSUME focus' # None, latest'[focus'] \notin timers' \cup {0}
      PROVE  \/ Current(focus, latest[focus])'
             \/ \A q \in Queries : tokenOf'[q] = latest'[focus'] => q \in todo'
  <2>1. CASE latest[focus] \notin timers
    <3>1. Current(focus, latest[focus])
      BY <1>1, <1>3, <2>1, IdleCurrent
    <3> QED
      BY <1>1, <3>1 DEF Current, Sources, DBusSources, GMenuSources, ActiveCollectors, contextVars
  <2>2. CASE latest[focus] \in timers
    <3>1. latest[focus] = t
      BY <1>1, <1>3, <2>2
    <3>2. \A q \in Queries : tokenOf[q] = t => q \in todo'
      BY <1>1, <1>3, <3>1 DEF QueriesOK
    <3> QED
      BY <1>1, <3>1, <3>2
  <2> QED
    BY <2>1, <2>2
<1> QED
  BY <1>1, <1>2, <1>3 DEF QueriesOK, Idle

\* The tokens in T start their timers; the focused window's last one is among them,
\* or stays current.
LEMMA ChangeQueriesOK ==
  ASSUME TypeOK, QueriesOK, NEW T \in SUBSET Held, Idle, ChildChanged(T),
         UNCHANGED <<focus, open, todo>>,
         \A t \in Tokens : tokens'[t].window = tokens[t].window,
         focus # None /\ latest[focus] \notin timers \cup T \cup {0} =>
           Current(focus, latest[focus])'
  PROVE  QueriesOK'
<1>1. timers' = timers \cup T /\ UNCHANGED <<tokenOf, connected, latest, hears>>
  BY DEF ChildChanged
<1>2. Held' = Held
  BY <1>1 DEF Held
<1>3. ASSUME NEW w \in WindowIds, latest[w] # 0
      PROVE  latest'[w] \in Held' /\ tokens'[latest'[w]].window = w
  <2>1. latest[w] \in Tokens
    BY <1>3 DEF TypeOK
  <2> QED
    BY <1>1, <1>2, <1>3, <2>1 DEF QueriesOK
<1>4. ASSUME focus # None, NEW q \in open \ todo
      PROVE  tokenOf'[q] # 0 /\ tokens'[tokenOf'[q]].window = focus
  <2>1. tokenOf[q] # 0 /\ tokenOf[q] \in Tokens
    BY <1>4 DEF QueriesOK, TypeOK
  <2> QED
    BY <1>1, <1>4, <2>1 DEF QueriesOK
<1> QED
  BY <1>1, <1>2, <1>3, <1>4 DEF QueriesOK

\* The tokens that are not held are dead.
TokensAreHeld == \A t \in Tokens \ Held : tokens[t] = Dead

LEMMA InitTokensAreHeld == Init => TokensAreHeld
BY DEF Init, TokensAreHeld

\* Whatever holds tokens deletes the others.
LEMMA HoldTokensAreHeld ==
  ASSUME NEW of, NEW conn, NEW toks, NEW lat, NEW hrs, HoldTokens(of, conn, toks, lat, hrs)
  PROVE  TokensAreHeld'
<1> DEFINE held == {of[q] : q \in Queries} \ {0}
<1>1. tokenOf' = of /\ tokens' = [t \in Tokens |-> IF t \in held THEN toks[t] ELSE Dead]
  BY DEF HoldTokens
<1>2. Held' = held
  BY <1>1 DEF Held
<1> HIDE DEF held
<1> QED
  BY <1>1, <1>2 DEF TokensAreHeld

LEMMA NextTokensAreHeld ==
  ASSUME TypeOK, TokensAreHeld, [Next]_vars
  PROVE  TokensAreHeld'
<1>1. ASSUME UNCHANGED <<tokenOf, tokens>> PROVE TokensAreHeld'
  BY <1>1 DEF TokensAreHeld, Held
<1>2. ASSUME NEW q \in Queries, Refresh(q) PROVE TokensAreHeld'
  BY <1>1, <1>2, HoldTokensAreHeld DEF Refresh, tokenVars, SameToken, NewToken, UpdateToken
<1>3. ASSUME NEW q \in Queries, OpenQuery(q) \/ UpdateQuery(q) \/ CloseQuery(q)
      PROVE  TokensAreHeld'
  BY <1>1, <1>3, HoldTokensAreHeld DEF OpenQuery, UpdateQuery, CloseQuery, tokenVars
<1>4. ASSUME NEW s \in Scopes, NEW c \in Contexts, SetWindowContext(s, c) \/ AddSources(s, c)
      PROVE  TokensAreHeld'
  BY <1>1, <1>4 DEF SetWindowContext, AddSources, ChildChanged, tokenVars
<1>5. ASSUME NEW w \in WindowIds, WindowRegistered(w) PROVE TokensAreHeld'
  BY <1>1, <1>5 DEF WindowRegistered, tokenVars
<1>6. ASSUME NEW m \in Menus, MenuItemsChanged(m) PROVE TokensAreHeld'
  <2>1. tokenOf' = tokenOf
    BY <1>6 DEF MenuItemsChanged, ChildChanged
  <2>2. ASSUME NEW t \in Tokens \ Held PROVE tokens'[t] = Dead
    <3>1. tokens[t] = Dead
      BY DEF TokensAreHeld
    <3>2. Dead.holds = {}
      BY DEF Dead
    <3> QED
      BY <1>6, <3>1, <3>2 DEF MenuItemsChanged
  <2> QED
    BY <2>1, <2>2 DEF TokensAreHeld, Held
<1>7. ASSUME NEW t \in Tokens, Timeout(t) PROVE TokensAreHeld'
  BY <1>1, <1>7 DEF Timeout
<1>8. ASSUME NEW w \in WindowIds \cup {None}, SetFocusedWindow(w) PROVE TokensAreHeld'
  BY <1>1, <1>8 DEF SetFocusedWindow, tokenVars
<1>9. CASE UNCHANGED vars
  BY <1>1, <1>9 DEF vars, tokenVars
<1> QED
  BY <1>2, <1>3, <1>4, <1>5, <1>6, <1>7, <1>8, <1>9 DEF Next, QueryStep, MenuStep

\* A GMenu that changes starts the timer of the last token that has it, if current.
LEMMA MenuItemsQueriesOK ==
  ASSUME TypeOK, QueriesOK, TokensAreHeld, NEW m \in Menus, MenuItemsChanged(m),
         hears[m] \in Held \cup {0}
  PROVE  QueriesOK'
<1> DEFINE T == IF hears[m] = 0 THEN {} ELSE {hears[m]}
<1>1. /\ Idle /\ ChildChanged(T) /\ UNCHANGED <<contextVars, focus, open, todo>>
      /\ tokens' = [t \in Tokens |->
                      IF m \in tokens[t].holds
                      THEN [tokens[t] EXCEPT !.outdated = @ \cup {m}] ELSE tokens[t]]
  BY DEF MenuItemsChanged
<1>2. T \subseteq Held
  OBVIOUS
<1>3. ASSUME NEW t \in Tokens
      PROVE  /\ tokens'[t].window = tokens[t].window
             /\ m \notin tokens[t].holds => tokens'[t] = tokens[t]
  BY <1>1 DEF TypeOK, WindowTokens
<1>4. ASSUME focus # None, latest[focus] \notin timers \cup T \cup {0}
      PROVE  Current(focus, latest[focus])'
  <2> DEFINE t == latest[focus]
  <2>1. Current(focus, t) /\ t \in Tokens
    BY <1>1, <1>4, IdleCurrent
  <2>2. m \notin tokens[t].holds
    <3>1. m \notin DBusMenus
      OBVIOUS
    <3>2. m \in tokens[t].holds => hears[m] = t
      BY <2>1, <3>1 DEF Current
    <3> QED
      BY <1>4, <3>2
  <2>3. tokens'[t] = tokens[t] /\ UNCHANGED <<latest, hears, focus>>
    BY <1>1, <1>3, <2>1, <2>2 DEF ChildChanged
  <2> QED
    BY <1>1, <2>1, <2>3
       DEF Current, Sources, DBusSources, GMenuSources, ActiveCollectors, contextVars
<1> HIDE DEF T
<1> QED
  BY <1>1, <1>2, <1>3, <1>4, ChangeQueriesOK

\* A context that changes starts the timers of the tokens of its windows.
LEMMA SetWindowContextQueriesOK ==
  ASSUME TypeOK, QueriesOK, TokensAreHeld, NEW s \in Scopes, NEW c \in Contexts,
         SetWindowContext(s, c)
  PROVE  QueriesOK'
<1>1. /\ Idle /\ ChildChanged(Listening(s))
      /\ active' = [active EXCEPT ![s] = collectors[s][c]]
      /\ UNCHANGED <<appMenus, focus, open, todo, tokens>>
  BY DEF SetWindowContext
<1>2. Listening(s) \subseteq Held
  BY DEF Listening, TokensAreHeld
<1>3. ASSUME focus # None, latest[focus] \notin timers \cup Listening(s) \cup {0}
      PROVE  Current(focus, latest[focus])'
  <2> DEFINE t == latest[focus]
  <2>1. Current(focus, t) /\ t \in Tokens /\ tokens[t].window = focus /\ focus \in WindowIds
    BY <1>1, <1>3, IdleCurrent DEF TypeOK
  <2>2. tokens[t] # Dead
    BY <2>1 DEF Dead
  <2>3. s \notin {focus, AppOf[focus]}
    BY <1>3, <2>1, <2>2 DEF Listening
  <2>4. active'[focus] = active[focus] /\ active'[AppOf[focus]] = active[AppOf[focus]]
    BY <1>1, <2>1, <2>3 DEF TypeOK, Scopes
  <2>5. Sources(focus)' = Sources(focus)
    BY <1>1, <2>4 DEF Sources, DBusSources, GMenuSources, ActiveCollectors
  <2> QED
    BY <1>1, <2>1, <2>5 DEF Current, ChildChanged
<1> QED
  BY <1>1, <1>2, <1>3, ChangeQueriesOK

\* The weak pointers of the collectors lead to tokens that are held.
HeardAreHeld == \A m \in Menus : hears[m] \in Held \cup {0}

LEMMA InitHeardAreHeld == Init => HeardAreHeld
BY DEF Init, HeardAreHeld

LEMMA NextHeardAreHeld ==
  ASSUME HeardAreHeld, [Next]_vars
  PROVE  HeardAreHeld'
<1>1. ASSUME UNCHANGED <<tokenOf, hears>> PROVE HeardAreHeld'
  BY <1>1 DEF HeardAreHeld, Held
<1>2. ASSUME NEW of, NEW conn, NEW toks, NEW lat, NEW hrs, HoldTokens(of, conn, toks, lat, hrs)
      PROVE  HeardAreHeld'
  <2> DEFINE held == {of[q] : q \in Queries} \ {0}
  <2>1. tokenOf' = of /\ hears' = [m \in Menus |-> IF hrs[m] \in held THEN hrs[m] ELSE 0]
    BY <1>2 DEF HoldTokens
  <2>2. Held' = held
    BY <2>1 DEF Held
  <2> HIDE DEF held
  <2> QED
    BY <2>1, <2>2 DEF HeardAreHeld
<1>3. ASSUME NEW q \in Queries, Refresh(q) PROVE HeardAreHeld'
  BY <1>1, <1>2, <1>3 DEF Refresh, tokenVars, SameToken, NewToken, UpdateToken
<1>4. ASSUME NEW q \in Queries, OpenQuery(q) \/ UpdateQuery(q) \/ CloseQuery(q)
      PROVE  HeardAreHeld'
  BY <1>1, <1>2, <1>4 DEF OpenQuery, UpdateQuery, CloseQuery, tokenVars
<1>5. CASE MenuStep
  BY <1>1, <1>5 DEF MenuStep, SetWindowContext, AddSources, WindowRegistered, MenuItemsChanged,
                    Timeout, ChildChanged, tokenVars
<1>6. ASSUME NEW w \in WindowIds \cup {None}, SetFocusedWindow(w) PROVE HeardAreHeld'
  BY <1>1, <1>6 DEF SetFocusedWindow, tokenVars
<1>7. CASE UNCHANGED vars
  BY <1>1, <1>7 DEF vars, tokenVars
<1> QED
  BY <1>3, <1>4, <1>5, <1>6, <1>7 DEF Next, QueryStep

TokensInv == TypeOK /\ QueriesOK /\ TokensAreHeld /\ HeardAreHeld

LEMMA NextQueriesOK ==
  ASSUME TokensInv, [Next]_vars
  PROVE  QueriesOK'
<1> USE DEF TokensInv
<1>1. ASSUME NEW q \in Queries, OpenQuery(q) \/ UpdateQuery(q) PROVE QueriesOK'
  <2>1. /\ UNCHANGED <<focus, tokenVars, active>> /\ open \subseteq open' /\ todo \subseteq todo'
        /\ open' \ todo' \subseteq open
    BY <1>1 DEF OpenQuery, UpdateQuery, contextVars, Idle
  <2> QED
    BY <2>1, AsideQueriesOK
<1>2. ASSUME NEW q \in Queries, CloseQuery(q) \/ Refresh(q) PROVE QueriesOK'
  BY <1>2, CloseQueryQueriesOK, RefreshQueriesOK
<1>3. ASSUME NEW s \in Scopes, NEW c \in Contexts, SetWindowContext(s, c) PROVE QueriesOK'
  BY <1>3, SetWindowContextQueriesOK
<1>4. CASE UNCHANGED vars \/ (\E w \in WindowIds : WindowRegistered(w))
           \/ (\E s \in Scopes, c \in Contexts : AddSources(s, c))
  <2>1. UNCHANGED <<focus, tokenVars, active, open, todo>>
    BY <1>4 DEF vars, contextVars, WindowRegistered, AddSources
  <2> QED
    BY <2>1, AsideQueriesOK
<1>5. ASSUME NEW m \in Menus, MenuItemsChanged(m) PROVE QueriesOK'
  BY <1>5, MenuItemsQueriesOK DEF HeardAreHeld
<1>6. ASSUME NEW t \in Tokens, Timeout(t) PROVE QueriesOK'
  BY <1>6, TimeoutQueriesOK
<1>7. ASSUME NEW w \in WindowIds \cup {None}, SetFocusedWindow(w) PROVE QueriesOK'
  BY <1>7, FocusQueriesOK
<1> QED
  BY <1>1, <1>2, <1>3, <1>4, <1>5, <1>6, <1>7 DEF Next, QueryStep, MenuStep

LEMMA TokensInvariant == Spec => []TokensInv
<1>1. Init => TokensInv
  BY InitTypeOK, InitQueriesOK, InitTokensAreHeld, InitHeardAreHeld DEF TokensInv
<1>2. TokensInv /\ [Next]_vars => TokensInv'
  BY NextTypeOK, NextQueriesOK, NextTokensAreHeld, NextHeardAreHeld DEF TokensInv
<1> QED
  BY <1>1, <1>2, PTL DEF Spec

\* Between two events every open query searches, shows and runs commands of the
\* window that has the focus, in whatever order menus, timers and queries come.
THEOREM QueriesFollowTheFocus == Spec => []QueriesActOnTheFocusedWindow
<1>1. TokensInv => QueriesActOnTheFocusedWindow
  BY DEF TokensInv, QueriesOK, QueriesActOnTheFocusedWindow, Idle
<1> QED
  BY <1>1, TokensInvariant, PTL

\* The focused window's last token is up to date, and will hear of the next change,
\* unless its timer runs.
THEOREM LatestTokenIsCurrent == Spec => []QuietLatestTokenIsCurrent
<1>1. ASSUME TokensInv PROVE QuietLatestTokenIsCurrent
  <2> SUFFICES ASSUME focus # None, latest[focus] \notin timers \cup {0}, Idle
               PROVE  Current(focus, latest[focus])
    BY DEF QuietLatestTokenIsCurrent, Current
  <2> QED
    BY <1>1, IdleCurrent DEF TokensInv
<1> QED
  BY <1>1, TokensInvariant, PTL
-----------------------------------------------------------------------------
(* DBusMenuCollector: what it shows of a menu, it hides.                   *)

\* The calls of a walk are those of the innermost menu and of all the menus it is
\* in, each called by the one before; what has returned was called from these or
\* from what has returned; the valve counts each menu once.
CallsOK ==
  /\ walk = "none" => menu = Caller /\ calls = {} /\ returned = {}
  /\ IF menu = Caller THEN calls = {} ELSE menu \in calls
  /\ \A m \in calls : m <= menu /\ parent[m] \in calls \cup {Caller}
  /\ \A m, k \in calls : m < k => m <= parent[k]
  /\ calls \cap returned = {}
  /\ \A m \in returned : parent[m] \in calls \cup returned \cup {Caller}
  /\ walk # "none" => limit + Cardinality(calls \cup returned) = Valve

\* A menu is shown before its submenus and hidden after them; a call of openMenu
\* that has returned has shown the enabled ones, one of hideMenu has hidden all.
ShownOK ==
  /\ \A m \in shown \ {Root} : parent[m] \in shown
  /\ walk = "open" =>
       /\ calls \cup returned \subseteq shown \cap listed
       /\ \A m \in listed \cap enabled : parent[m] \in returned => m \in returned
  /\ walk = "hide" =>
       /\ returned \cap shown = {}
       /\ \A m \in listed : parent[m] \in returned => m \in returned
  /\ walk = "none" /\ ~token /\ limit # 0 => shown = {}

CollectorInv == CollectorTypeOK /\ CallsOK /\ ShownOK

LEMMA MenuNumbers ==
  ASSUME CollectorTypeOK, NEW m \in Menu
  PROVE  /\ m \in Nat /\ parent[m] \in Nat /\ parent[m] \in Menu \cup {Caller}
         /\ parent[m] < m /\ (parent[m] = Caller <=> m = Root)
<1>1. parent[m] \in 0..MaxDBus /\ parent[m] < m /\ (m # Root => parent[m] # Caller)
  BY DEF CollectorTypeOK, Parents
<1>2. m \in Nat /\ m >= 1
  BY DEF Menu
<1> QED
  BY ONLY <1>1, <1>2, DBusMenuAssumption DEF Menu, Root, Caller

LEMMA LeastMenu ==
  ASSUME NEW S \in SUBSET Menu, S # {}
  PROVE  \E n \in S : \A m \in S : n <= m
<1>1. S \subseteq Nat
  BY DEF Menu
<1>2. PICK n \in S : \A m \in S : <<m, n>> \notin OpToRel(<, Nat)
  BY <1>1, NatLessThanWellFounded, WFMin
<1>3. \A m \in S : ~(m < n)
  BY <1>1, <1>2 DEF OpToRel
<1> QED
  BY <1>1, <1>3

LEMMA OneMenuMore ==
  ASSUME NEW S \in SUBSET Menu, NEW m \in Menu \ S
  PROVE  Cardinality(S) \in Nat /\ Cardinality(S \cup {m}) = Cardinality(S) + 1
<1>1. IsFiniteSet(Menu)
  BY DBusMenuAssumption, FS_Interval DEF Menu
<1>2. IsFiniteSet(S)
  BY <1>1, FS_Subset
<1> QED
  BY <1>2, FS_CardinalityType, FS_AddElement

\* A walk begins with no call.
LEMMA BeginKeepsCollectorInv ==
  ASSUME CollectorInv, NEW kind \in {"open", "hide"}, Begin(kind), token' \in BOOLEAN
  PROVE  CollectorInv'
<1> USE DEF CollectorInv, Begin, application, stack
<1>1. menu = Caller /\ calls = {} /\ returned = {} /\ walk' = kind /\ kind # "none"
  BY DEF CallsOK
<1>2. CollectorTypeOK'
  BY <1>1, DBusMenuAssumption DEF CollectorTypeOK, Layouts, Parents, Enabled
<1>3. CallsOK'
  <2>1. Cardinality(calls' \cup returned') = 0
    BY <1>1, FS_EmptySet
  <2> QED
    BY <1>1, <2>1, DBusMenuAssumption DEF CallsOK
<1>4. ShownOK'
  BY <1>1 DEF ShownOK
<1> QED
  BY <1>2, <1>3, <1>4

\* A walk ends without a call, and hidden is all that has to be.
LEMMA EndKeepsCollectorInv ==
  ASSUME CollectorInv, NEW kind \in {"open", "hide"}, End(kind), token' \in BOOLEAN,
         limit' \in 0..Valve, ~token' /\ limit' # 0 => shown = {}
  PROVE  CollectorInv'
<1> USE DEF CollectorInv, End
<1>1. CollectorTypeOK'
  BY DEF CollectorTypeOK, Layouts, Parents, Enabled
<1>2. CallsOK'
  BY DEF CallsOK
<1>3. ShownOK'
  BY DEF ShownOK
<1> QED
  BY <1>1, <1>2, <1>3

\* The menu a walk calls for next has not had its turn yet.
LEMMA NextMenuIsNew ==
  ASSUME CollectorInv, NEW m \in ToHide
  PROVE  /\ m \in listed /\ m \in Menu /\ parent[m] = menu /\ m \notin calls \cup returned
         /\ calls \cup returned \in SUBSET Menu
<1>1. m \in listed /\ parent[m] = menu /\ m \notin returned /\ listed \subseteq Menu
  BY DEF ToHide, Submenus, CollectorInv, CollectorTypeOK, Layouts
<1>2. calls \subseteq Menu /\ returned \subseteq Menu
  BY <1>1 DEF CollectorInv, CollectorTypeOK
<1>3. parent[m] < m /\ m \in Nat /\ parent[m] \in Nat
  BY <1>1, MenuNumbers DEF CollectorInv
<1>4. m \notin calls
  BY <1>1, <1>3 DEF CollectorInv, CallsOK
<1> QED
  BY <1>1, <1>2, <1>4

LEMMA ToOpenIsToHide == ToOpen \subseteq ToHide
BY DEF ToOpen, ToHide

\* Calling for a menu, while those whose calls there are stay where they are.
LEMMA CallKeepsCalls ==
  ASSUME CollectorInv, walk # "none", NEW m \in ToHide, Call(m),
         limit' = limit - 1, limit' # 0
  PROVE  /\ CallsOK' /\ menu' = m /\ m \in Menu
         /\ calls' \cup returned' = (calls \cup returned) \cup {m}
         /\ limit' \in 0..Valve
<1> USE DEF Call
<1>1. /\ m \in Menu /\ parent[m] = menu /\ m \notin calls /\ m \notin returned
      /\ calls \cup returned \in SUBSET Menu
  BY NextMenuIsNew
<1>2. /\ m \in Nat /\ parent[m] \in Nat /\ parent[m] < m /\ m # Caller
  BY <1>1, MenuNumbers DEF CollectorInv, Menu, Caller
<1>3. \A k \in calls : k \in Nat /\ k <= menu /\ k < m
  <2>1. \A k \in calls : k \in Nat
    BY <1>1 DEF Menu
  <2> QED
    BY <1>1, <1>2, <2>1 DEF CollectorInv, CallsOK
<1>4. menu \in calls \cup {Caller}
  BY DEF CollectorInv, CallsOK
<1>5. limit' + Cardinality(calls' \cup returned') = Valve /\ limit' \in 0..Valve
  <2> DEFINE S == calls \cup returned
  <2>1. calls' \cup returned' = S \cup {m} /\ S \in SUBSET Menu /\ m \in Menu \ S
    BY <1>1
  <2>2. limit + Cardinality(S) = Valve /\ limit \in 0..Valve /\ limit # 0
    BY DEF CollectorInv, CallsOK, CollectorTypeOK
  <2>3. Cardinality(S) \in Nat /\ Cardinality(S \cup {m}) = Cardinality(S) + 1
    BY <2>1, OneMenuMore
  <2> HIDE DEF S
  <2>4. limit' + Cardinality(S \cup {m}) = Valve /\ limit' \in 0..Valve
    BY <2>2, <2>3, DBusMenuAssumption
  <2> QED
    BY <2>1, <2>4
<1>6. CallsOK'
  <2>1. \A k \in calls' : k <= menu' /\ parent'[k] \in calls' \cup {Caller}
    BY <1>1, <1>2, <1>3, <1>4 DEF CollectorInv, CallsOK
  <2>2. \A k, l \in calls' : k < l => k <= parent'[l]
    <3> SUFFICES ASSUME NEW k \in calls', NEW l \in calls', k < l PROVE k <= parent'[l]
      OBVIOUS
    <3>1. k \in calls
      BY <1>2, <1>3
    <3> QED
      BY <3>1, <1>1, <1>3 DEF CollectorInv, CallsOK
  <2>3. calls' \cap returned' = {}
    BY <1>1 DEF CollectorInv, CallsOK
  <2>4. \A k \in returned' : parent'[k] \in calls' \cup returned' \cup {Caller}
    BY DEF CollectorInv, CallsOK
  <2> QED
    BY <1>2, <1>5, <2>1, <2>2, <2>3, <2>4 DEF CallsOK
<1> QED
  BY <1>1, <1>5, <1>6

LEMMA HideMenuKeepsCollectorInv ==
  ASSUME CollectorInv, NEW m \in Menu, HideMenu(m)
  PROVE  CollectorInv'
<1>1. CASE limit' = 0
  <2>1. End("hide") /\ token' \in BOOLEAN /\ limit' \in 0..Valve
    BY <1>1, DBusMenuAssumption DEF HideMenu, CollectorInv, CollectorTypeOK, Call, application
  <2> QED
    BY <1>1, <2>1, EndKeepsCollectorInv
<1>2. CASE limit' # 0
  <2>1. /\ walk = "hide" /\ m \in ToHide /\ limit' = limit - 1 /\ Call(m)
        /\ UNCHANGED <<listed, enabled, shown>>
    BY <1>2 DEF HideMenu, application
  <2>2. /\ CallsOK' /\ menu' = m /\ limit' \in 0..Valve
    BY <1>2, <2>1, CallKeepsCalls
  <2>3. m \in listed
    BY <2>1, NextMenuIsNew
  <2>4. CollectorTypeOK'
    BY <1>2, <2>1, <2>2, <2>3 DEF CollectorInv, CollectorTypeOK, Call, Layouts, Parents, Enabled
  <2>5. ShownOK'
    BY <2>1 DEF CollectorInv, ShownOK, Call
  <2> QED
    BY <2>2, <2>4, <2>5 DEF CollectorInv
<1> QED
  BY <1>1, <1>2

\* As the application fills in the menu that is called for, it leaves it where it
\* is, and the menus of all calls.
LEMMA WalkedMenusStay ==
  ASSUME CollectorInv, NEW m \in ToHide, NEW s \in Layouts, NEW e,
         \A k \in Menu \ {Root} : parent[k] \in (listed \cap s) \ {m} =>
           (k \in s <=> k \in listed) /\ (k \in e <=> k \in enabled)
  PROVE  calls \cup returned \cup {m} \subseteq s
<1> DEFINE W == calls \cup returned \cup {m}
           T == W \ s
<1>1. /\ m \in listed /\ m \in Menu /\ parent[m] = menu /\ m \notin calls \cup returned
      /\ W \subseteq Menu /\ W \subseteq listed
  BY NextMenuIsNew DEF CollectorInv, CollectorTypeOK
<1>2. SUFFICES ASSUME T # {} PROVE FALSE
  OBVIOUS
<1>3. PICK k \in T : \A l \in T : k <= l
  <2>1. T \in SUBSET Menu
    BY <1>1
  <2> HIDE DEF T
  <2> QED
    BY <2>1, <1>2, LeastMenu
<1>4. k \in Menu /\ k \in listed /\ k \notin s /\ k # Root
  BY <1>1, <1>3 DEF Layouts
<1>5. k \in Nat /\ parent[k] \in Nat /\ parent[k] < k /\ parent[k] # Caller
  BY <1>4, MenuNumbers DEF CollectorInv
<1>6. parent[k] \in calls \cup returned
  <2>1. CASE k = m
    BY <2>1, <1>1, <1>5 DEF CollectorInv, CallsOK
  <2>2. CASE k # m
    BY <2>2, <1>3, <1>5 DEF CollectorInv, CallsOK
  <2> QED
    BY <2>1, <2>2
<1>7. parent[k] \in s
  <2>1. parent[k] \notin T
    BY <1>1, <1>3, <1>5
  <2> QED
    BY <2>1, <1>6
<1>8. parent[k] \in (listed \cap s) \ {m}
  BY <1>1, <1>6, <1>7
<1> QED
  BY <1>4, <1>8

LEMMA OpenMenuKeepsCollectorInv ==
  ASSUME CollectorInv, NEW m \in Menu, OpenMenu(m)
  PROVE  CollectorInv'
<1>1. CASE limit' = 0
  <2>1. End("open") /\ token' = TRUE
    BY <1>1 DEF OpenMenu, MakeToken
  <2>2. limit' \in 0..Valve
    BY <1>1, DBusMenuAssumption
  <2> QED
    BY <1>1, <2>1, <2>2, EndKeepsCollectorInv
<1>2. CASE limit' # 0
  <2>1. walk = "open" /\ m \in ToHide /\ limit' = limit - 1 /\ Call(m) /\ AboutToShow(m)
    BY <1>2, ToOpenIsToHide DEF OpenMenu
  <2>2. PICK s \in Layouts : \E e \in Enabled(s) :
          /\ \A k \in Menu \ {Root} : parent[k] \in (listed \cap s) \ {m} =>
               (k \in s <=> k \in listed) /\ (k \in e <=> k \in enabled)
          /\ listed' = s /\ enabled' = e
          /\ shown' = (shown \cap s) \cup {m}
    BY <2>1 DEF AboutToShow
  <2>3. PICK e \in Enabled(s) :
          /\ \A k \in Menu \ {Root} : parent[k] \in (listed \cap s) \ {m} =>
               (k \in s <=> k \in listed) /\ (k \in e <=> k \in enabled)
          /\ listed' = s /\ enabled' = e
          /\ shown' = (shown \cap s) \cup {m}
    BY <2>2
  <2>4. CallsOK' /\ menu' = m /\ m \in Menu /\ limit' \in 0..Valve
    BY <1>2, <2>1, CallKeepsCalls
  <2>5. calls \cup returned \cup {m} \subseteq s
    BY <2>1, <2>3, WalkedMenusStay
  <2>6. m \in listed /\ parent[m] = menu /\ m \notin calls \cup returned
    BY <2>1, NextMenuIsNew
  <2>7. CollectorTypeOK'
    <3>1. parent' = parent /\ token' = token /\ walk' = walk /\ returned' = returned /\ calls' = calls \cup {m}
      BY <2>1 DEF Call
    <3>2. parent' \in Parents' /\ listed' \in Layouts' /\ enabled' \in Enabled(listed')
      BY <3>1, <2>3 DEF CollectorInv, CollectorTypeOK, Parents, Layouts
    <3>3. shown' \subseteq listed' /\ calls' \subseteq listed' /\ returned' \subseteq listed'
      BY <3>1, <2>3, <2>5
    <3>4. token' \in BOOLEAN /\ walk' \in {"none", "open", "hide"}
      BY <3>1 DEF CollectorInv, CollectorTypeOK
    <3> QED
      BY <3>2, <3>3, <3>4, <2>4, <1>2 DEF CollectorTypeOK
  <2>8. \A k \in shown' \ {Root} : parent'[k] \in shown'
    <3> SUFFICES ASSUME NEW k \in shown' \ {Root} PROVE parent[k] \in shown'
      BY <2>1 DEF Call
    <3>1. CASE k = m
      <4>1. menu \in calls
        BY <2>4, <2>6, <3>1, MenuNumbers DEF CollectorInv, CallsOK
      <4> QED
        BY <4>1, <3>1, <2>1, <2>3, <2>5, <2>6 DEF CollectorInv, ShownOK
    <3>2. CASE k # m
      <4>1. k \in shown /\ k \in s
        BY <3>2, <2>3
      <4> QED
        BY <4>1, <2>3 DEF CollectorInv, ShownOK, Layouts
    <3> QED
      BY <3>1, <3>2
  <2>9. calls' \cup returned' \subseteq shown' \cap listed'
    BY <2>1, <2>3, <2>5, <2>6 DEF CollectorInv, ShownOK, Call
  <2>10. \A k \in listed' \cap enabled' : parent'[k] \in returned' => k \in returned'
    <3> SUFFICES ASSUME NEW k \in s \cap e, parent[k] \in returned PROVE k \in returned
      BY <2>1, <2>3 DEF Call
    <3>1. k \in Menu /\ k # Root
      <4>1. k \in Menu
        BY DEF Layouts
      <4>2. returned \subseteq Menu
        BY DEF CollectorInv, CollectorTypeOK, Layouts
      <4> QED
        BY <4>1, <4>2, MenuNumbers DEF CollectorInv, Menu, Caller
    <3>2. parent[k] \in (listed \cap s) \ {m}
      BY <2>5, <2>6 DEF CollectorInv, CollectorTypeOK
    <3>3. k \in listed \cap enabled
      BY <3>1, <3>2, <2>3
    <3> QED
      BY <3>3, <2>1 DEF CollectorInv, ShownOK
  <2>11. ShownOK'
    BY <2>1, <2>8, <2>9, <2>10 DEF ShownOK, Call
  <2> QED
    BY <2>4, <2>7, <2>11 DEF CollectorInv
<1> QED
  BY <1>1, <1>2

\* A call returns when every menu it would call for has had its turn.
LEMMA ReturnKeepsCalls ==
  ASSUME CollectorInv, walk # "none", Return
  PROVE  /\ CallsOK' /\ menu' \in Menu \cup {Caller}
         /\ menu \in listed /\ menu \in Menu
         /\ calls' \cup returned' = calls \cup returned
<1> USE DEF Return
<1>1. /\ menu # Caller /\ menu \in calls /\ menu \in listed /\ menu \in Menu
      /\ calls \subseteq Menu
  BY DEF CollectorInv, CallsOK, CollectorTypeOK, Layouts
<1>2. menu \in Nat /\ menu' \in Nat /\ menu' < menu /\ menu' = parent[menu]
      /\ menu' \in Menu \cup {Caller}
  BY <1>1, MenuNumbers DEF CollectorInv
<1>3. \A k \in calls \ {menu} : k \in Nat /\ k >= 1 /\ k < menu /\ k <= menu'
  <2>1. \A k \in calls : k \in Nat /\ k >= 1
    BY <1>1 DEF Menu
  <2>2. \A k \in calls : k <= menu
    BY DEF CollectorInv, CallsOK
  <2>3. \A k \in calls \ {menu} : k < menu
    BY <1>2, <2>1, <2>2
  <2>4. \A k \in calls \ {menu} : k <= menu'
    BY <1>1, <1>2, <2>3 DEF CollectorInv, CallsOK
  <2> QED
    BY <2>1, <2>3, <2>4
<1>4. IF menu' = Caller THEN calls' = {} ELSE menu' \in calls'
  <2>1. CASE menu' = Caller
    BY <1>3, <2>1 DEF Caller
  <2>2. CASE menu' # Caller
    BY <1>1, <1>2, <2>2 DEF CollectorInv, CallsOK
  <2> QED
    BY <2>1, <2>2
<1>5. \A k \in calls' : k <= menu' /\ parent'[k] \in calls' \cup {Caller}
  <2> SUFFICES ASSUME NEW k \in calls \ {menu} PROVE parent[k] \in (calls \ {menu}) \cup {Caller}
    BY <1>3
  <2>1. parent[k] < k /\ parent[k] \in Nat /\ k < menu /\ k \in Nat
    BY <1>1, <1>3, MenuNumbers DEF CollectorInv
  <2>2. parent[k] # menu
    BY <1>2, <2>1
  <2> QED
    BY <2>2 DEF CollectorInv, CallsOK
<1>6. /\ \A k, l \in calls' : k < l => k <= parent'[l]
      /\ calls' \cap returned' = {}
  BY DEF CollectorInv, CallsOK
<1>7. calls' \cup returned' = calls \cup returned
  BY <1>1
<1>8. \A k \in returned' : parent'[k] \in calls' \cup returned' \cup {Caller}
  BY <1>1, <1>7 DEF CollectorInv, CallsOK
<1>9. walk' # "none" => limit' + Cardinality(calls' \cup returned') = Valve
  BY <1>7 DEF CollectorInv, CallsOK
<1>10. CallsOK'
  BY <1>4, <1>5, <1>6, <1>8, <1>9 DEF CallsOK
<1> QED
  BY <1>1, <1>2, <1>7, <1>10

LEMMA ReturnKeepsTypes ==
  ASSUME CollectorInv, walk # "none", Return, shown' \subseteq shown
  PROVE  CollectorTypeOK'
<1>1. menu' \in Menu \cup {Caller} /\ menu \in listed
  BY ReturnKeepsCalls
<1> QED
  BY <1>1 DEF Return, CollectorInv, CollectorTypeOK, Layouts, Parents, Enabled

LEMMA OpenMenuReturnsKeepsCollectorInv ==
  ASSUME CollectorInv, OpenMenuReturns
  PROVE  CollectorInv'
<1>1. Return /\ walk = "open" /\ ToOpen = {} /\ shown' = shown
  BY DEF OpenMenuReturns
<1>2. CallsOK' /\ menu \in Menu /\ calls' \cup returned' = calls \cup returned /\ CollectorTypeOK'
  BY <1>1, ReturnKeepsCalls, ReturnKeepsTypes
<1>3. \A m \in listed \cap enabled : parent[m] = menu => m \in returned
  BY <1>1 DEF ToOpen, Submenus
<1>4. ShownOK'
  BY <1>1, <1>2, <1>3 DEF CollectorInv, ShownOK, Return
<1> QED
  BY <1>2, <1>4 DEF CollectorInv

LEMMA HideMenuReturnsKeepsCollectorInv ==
  ASSUME CollectorInv, HideMenuReturns
  PROVE  CollectorInv'
<1>1. Return /\ walk = "hide" /\ ToHide = {} /\ shown' = shown \ {menu}
  BY DEF HideMenuReturns
<1>2. CallsOK' /\ menu \in Menu /\ CollectorTypeOK'
  BY <1>1, ReturnKeepsCalls, ReturnKeepsTypes
<1>3. \A m \in listed : parent[m] = menu => m \in returned
  BY <1>1 DEF ToHide, Submenus
<1>4. returned' \cap shown' = {} /\ \A m \in listed : parent[m] \in returned' => m \in returned'
  BY <1>1, <1>3 DEF CollectorInv, ShownOK, Return
<1>5. ASSUME NEW m \in shown' \ {Root} PROVE parent'[m] \in shown'
  <2>1. m \in shown /\ m \in listed /\ parent[m] \in shown
    BY <1>1 DEF CollectorInv, ShownOK, CollectorTypeOK
  <2>2. parent[m] # menu
    BY <1>1, <1>3, <2>1 DEF CollectorInv, ShownOK
  <2> QED
    BY <1>1, <2>1, <2>2 DEF Return
<1>6. ShownOK'
  BY <1>1, <1>4, <1>5 DEF ShownOK, Return
<1> QED
  BY <1>2, <1>6 DEF CollectorInv

LEMMA ActivatedKeepsCollectorInv ==
  ASSUME CollectorInv, Activated
  PROVE  CollectorInv'
<1>1. End("open") /\ token' = TRUE /\ limit' \in 0..Valve
  BY DEF Activated, MakeToken, CollectorInv, CollectorTypeOK
<1> QED
  BY <1>1, EndKeepsCollectorInv

\* Once hideMenu has returned for the root, it has for all menus there are.
LEMMA HiddenFromTheRoot ==
  ASSUME CollectorInv, walk = "hide", Root \in returned
  PROVE  shown = {}
<1> DEFINE T == listed \ returned
<1>1. listed \subseteq Menu /\ shown \subseteq listed
  BY DEF CollectorInv, CollectorTypeOK, Layouts
<1>2. T = {}
  <2> SUFFICES ASSUME T # {} PROVE FALSE
    OBVIOUS
  <2>1. PICK k \in T : \A l \in T : k <= l
    <3>1. T \in SUBSET Menu
      BY <1>1
    <3> HIDE DEF T
    <3> QED
      BY <3>1, LeastMenu
  <2>2. k \in Menu /\ k # Root /\ k \in listed
    BY <1>1, <2>1
  <2>3. k \in Nat /\ parent[k] \in Nat /\ parent[k] < k /\ parent[k] \in listed
    BY <2>2, MenuNumbers DEF CollectorInv, CollectorTypeOK, Layouts
  <2>4. parent[k] \in returned
    BY <2>1, <2>3
  <2> QED
    BY <2>1, <2>2, <2>4 DEF CollectorInv, ShownOK
<1> QED
  BY <1>1, <1>2 DEF CollectorInv, ShownOK

LEMMA DeactivatedKeepsCollectorInv ==
  ASSUME CollectorInv, Deactivated
  PROVE  CollectorInv'
<1>1. End("hide") /\ token' \in BOOLEAN /\ limit' \in 0..Valve
  BY DEF Deactivated, CollectorInv, CollectorTypeOK
<1>2. shown = {}
  BY HiddenFromTheRoot DEF Deactivated, End
<1> QED
  BY <1>1, <1>2, EndKeepsCollectorInv

LEMMA ChangeMenusKeepsCollectorInv ==
  ASSUME CollectorInv, ChangeMenus
  PROVE  CollectorInv'
<1> USE DEF ChangeMenus, stack, CollectorInv
<1>1. walk = "none" /\ menu = Caller /\ calls = {} /\ returned = {}
  BY DEF CallsOK
<1>2. CollectorTypeOK'
  BY <1>1 DEF CollectorTypeOK, Layouts, Parents
<1>3. CallsOK'
  BY <1>1 DEF CallsOK
<1>4. \A m \in shown' \ {Root} : parent'[m] \in shown'
  BY DEF ShownOK, Layouts
<1>5. ShownOK'
  BY <1>1, <1>4 DEF ShownOK
<1> QED
  BY <1>2, <1>3, <1>5

LEMMA InitCollectorInv == CollectorInit => CollectorInv
<1> SUFFICES ASSUME CollectorInit PROVE CollectorInv
  OBVIOUS
<1>1. Valve \in 0..Valve
  BY DBusMenuAssumption
<1>2. CollectorTypeOK
  BY <1>1 DEF CollectorInit, CollectorTypeOK, Layouts
<1>3. CallsOK /\ ShownOK
  BY DEF CollectorInit, CallsOK, ShownOK
<1> QED
  BY <1>2, <1>3 DEF CollectorInv

LEMMA NextCollectorInv == CollectorInv /\ [CollectorNext]_collectorVars => CollectorInv'
<1> SUFFICES ASSUME CollectorInv, [CollectorNext]_collectorVars PROVE CollectorInv'
  OBVIOUS
<1>1. CASE Activate \/ Deactivate
  <2>1. token' \in BOOLEAN /\ (Begin("open") \/ Begin("hide"))
    BY <1>1 DEF Activate, Deactivate, CollectorInv, CollectorTypeOK
  <2> QED
    BY <2>1, BeginKeepsCollectorInv
<1>2. CASE OpenMenuReturns
  BY <1>2, OpenMenuReturnsKeepsCollectorInv
<1>3. CASE Activated
  BY <1>3, ActivatedKeepsCollectorInv
<1>4. CASE HideMenuReturns
  BY <1>4, HideMenuReturnsKeepsCollectorInv
<1>5. CASE Deactivated
  BY <1>5, DeactivatedKeepsCollectorInv
<1>6. ASSUME NEW m \in Menu, OpenMenu(m) PROVE CollectorInv'
  BY <1>6, OpenMenuKeepsCollectorInv
<1>7. ASSUME NEW m \in Menu, HideMenu(m) PROVE CollectorInv'
  BY <1>7, HideMenuKeepsCollectorInv
<1>8. CASE ChangeMenus
  BY <1>8, ChangeMenusKeepsCollectorInv
<1>9. CASE UNCHANGED collectorVars
  BY <1>9 DEF collectorVars, application, stack, CollectorInv, CollectorTypeOK, CallsOK, ShownOK,
              Layouts, Parents
<1> QED
  BY <1>1, <1>2, <1>3, <1>4, <1>5, <1>6, <1>7, <1>8, <1>9 DEF CollectorNext

LEMMA CollectorInvariant == CollectorSpec => []CollectorInv
BY InitCollectorInv, NextCollectorInv, PTL DEF CollectorSpec

\* A DBusMenu's walks stay on menus there are, and no valve wraps around.
THEOREM CollectorTypeCorrect == CollectorSpec => []CollectorTypeOK
<1>1. CollectorInv => CollectorTypeOK
  BY DEF CollectorInv
<1> QED
  BY <1>1, CollectorInvariant, PTL

\* For any tree of menus, and whatever the application does to it while it is
\* searched: once the token has gone, what openMenu has shown hideMenu has hidden,
\* unless the valve has stopped it; never is a submenu shown whose menu is not.
THEOREM MenusGetHidden == CollectorSpec => []OpenedMenusGetHidden
<1>1. CollectorInv => OpenedMenusGetHidden
  BY DEF CollectorInv, ShownOK, OpenedMenusGetHidden, OpenMenusNest
<1> QED
  BY <1>1, CollectorInvariant, PTL

\* A walk of openMenu that ends of itself has shown every enabled menu there is to
\* reach, also those the application has put there on the way.
THEOREM EnabledMenusGetShown == CollectorSpec => []MenusOpenInFull
<1>1. ASSUME CollectorInv PROVE MenusOpenInFull
  <2> SUFFICES ASSUME walk = "open", Root \in returned,
                      NEW m \in listed \cap enabled, parent[m] \in returned \cup {Caller}
               PROVE  m \in returned \cap shown
    BY DEF MenusOpenInFull
  <2>1. m \in Menu
    BY <1>1 DEF CollectorInv, CollectorTypeOK, Layouts
  <2>2. m \in returned
    BY <1>1, <2>1, MenuNumbers DEF CollectorInv, ShownOK
  <2> QED
    BY <1>1, <2>2 DEF CollectorInv, ShownOK
<1> QED
  BY <1>1, CollectorInvariant, PTL

\* The exception of the safety valve means that there are as many menus as it
\* allows: it is no leftover of another walk, and no menu is counted twice.
THEOREM ValveIsForLargeMenus == CollectorSpec => ValveStopsOnlyLargeMenus
<1>1. ASSUME CollectorInv, [CollectorNext]_collectorVars
      PROVE  [limit # 0 /\ limit' = 0 => Cardinality(listed) >= Valve]_collectorVars
  <2> SUFFICES ASSUME CollectorNext, limit # 0, limit' = 0
               PROVE  Cardinality(listed) >= Valve
    BY <1>1
  <2>1. PICK m \in Menu : OpenMenu(m) \/ HideMenu(m)
    BY DBusMenuAssumption
       DEF CollectorNext, Activate, Deactivate, Begin, Activated, Deactivated, OpenMenuReturns,
           HideMenuReturns, Return, ChangeMenus
  <2>2. m \in ToHide /\ walk # "none" /\ limit' = limit - 1
    BY <2>1, ToOpenIsToHide DEF OpenMenu, HideMenu
  <2> DEFINE S == calls \cup returned
  <2>3. S \in SUBSET Menu /\ m \in Menu \ S /\ S \cup {m} \subseteq listed /\ listed \subseteq Menu
    BY <1>1, <2>2, NextMenuIsNew DEF CollectorInv, CollectorTypeOK, Layouts
  <2>4. limit + Cardinality(S) = Valve /\ limit \in Nat
    BY <1>1, <2>2, DBusMenuAssumption DEF CollectorInv, CallsOK, CollectorTypeOK
  <2> HIDE DEF S
  <2>5. Cardinality(S) \in Nat /\ Cardinality(S \cup {m}) = Cardinality(S) + 1
    BY <2>3, OneMenuMore
  <2>6. IsFiniteSet(Menu)
    BY DBusMenuAssumption, FS_Interval DEF Menu
  <2>7. IsFiniteSet(listed)
    BY <2>3, <2>6, FS_Subset
  <2>8. Cardinality(S \cup {m}) <= Cardinality(listed) /\ Cardinality(listed) \in Nat
    BY <2>3, <2>7, FS_Subset, FS_CardinalityType
  <2>9. limit = 1
    BY <2>2, <2>4
  <2> QED
    BY <2>4, <2>5, <2>8, <2>9
<1> QED
  BY <1>1, CollectorInvariant, PTL DEF CollectorSpec, ValveStopsOnlyLargeMenus
=============================================================================
