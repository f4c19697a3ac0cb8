---------------------------- MODULE HudClientProofs ----------------------------
(***************************************************************************)
(* What holds of the commands a user runs, for all menus, dialogs and      *)
(* orders of events: the ids of up-to-date results are those of the very   *)
(* actions shown, and an action that takes commands gets them in order.    *)
(***************************************************************************)
EXTENDS HudClient, FiniteSetTheorems, SequenceTheorems, TLAPS

-----------------------------------------------------------------------------
(* The results.                                                            *)

\* What makes ResultsAreTheTokens inductive: a row's id is the token's, so that to
\* run another id, which enters a null Item, disturbs no row.
RowsOfTheToken ==
  ~moved => \A r \in results : r.id \in DOMAIN items /\ ActionOf(r.id) = r.action

LEMMA RowIsTheTokens ==
  ASSUME NEW id \in DOMAIN items', NEW r, r = Row(items', menu', id)
  PROVE  r.id \in DOMAIN items' /\ ActionOf(r.id)' = r.action
BY DEF Row, ActionOf

\* A search publishes rows of the items it was made with.
LEMMA SearchKeepsRows ==
  ASSUME NEW its, NEW m, NEW t, Search(its, m, t)
  PROVE  RowsOfTheToken'
<1>1. items' = its /\ menu' = m
  BY DEF Search
<1>2. CASE results' = {}
  BY <1>2 DEF RowsOfTheToken
<1>3. ASSUME NEW ids \in Found(its, m, t), results' = {Row(its, m, id) : id \in ids}
      PROVE  RowsOfTheToken'
  <2>1. ids \subseteq DOMAIN items'
    BY <1>1 DEF Found, Live
  <2>2. \A r \in results' : \E id \in DOMAIN items' : r = Row(items', menu', id)
    BY <1>1, <1>3, <2>1
  <2> QED
    BY <2>2, RowIsTheTokens DEF RowsOfTheToken
<1> QED
  BY <1>2, <1>3 DEF Search

LEMMA StoreKeepsRows ==
  ASSUME RowsOfTheToken, StoreNext
  PROVE  RowsOfTheToken'
<1>1. ASSUME NEW t \in Texts, UpdateQuery(t) PROVE RowsOfTheToken'
  BY <1>1, SearchKeepsRows DEF UpdateQuery, Refresh
<1>2. ASSUME NEW m \in Menus, NEW s \in Sources, FocusWindow(m, s) PROVE RowsOfTheToken'
  BY <1>2, SearchKeepsRows DEF FocusWindow
<1>3. ASSUME NEW m \in Menus, MenuChanges(m) PROVE RowsOfTheToken'
  BY <1>3 DEF MenuChanges, RowsOfTheToken
<1>4. CASE Timeout
  BY <1>4, SearchKeepsRows DEF Timeout, Refresh
<1> QED
  BY <1>1, <1>2, <1>3, <1>4 DEF StoreNext

LEMMA ExecuteKeepsRows ==
  ASSUME RowsOfTheToken, NEW id, Execute(id)
  PROVE  RowsOfTheToken'
<1>1. /\ items' = [i \in DOMAIN items \cup {id} |-> IF i \in DOMAIN items THEN items[i] ELSE 0]
      /\ UNCHANGED <<menu, results, moved>>
  BY DEF Execute
<1>2. \A i \in DOMAIN items : i \in DOMAIN items' /\ items'[i] = items[i]
  BY <1>1
<1>3. \A i \in DOMAIN items : ActionOf(i)' = ActionOf(i)
  BY <1>1, <1>2 DEF ActionOf
<1> QED
  BY <1>1, <1>2, <1>3 DEF RowsOfTheToken

LEMMA InitRows == Init => RowsOfTheToken
<1> SUFFICES ASSUME Init PROVE RowsOfTheToken
  OBVIOUS
<1>1. PICK ids \in Found(items, menu, "") : results = {Row(items, menu, id) : id \in ids}
  BY DEF Init, StoreInit
<1>2. ids \subseteq DOMAIN items
  BY DEF Found, Live
<1>3. \A r \in results : \E id \in DOMAIN items : r = Row(items, menu, id)
  BY <1>1, <1>2
<1>4. ASSUME NEW id \in DOMAIN items, NEW r, r = Row(items, menu, id)
      PROVE  r.id \in DOMAIN items /\ ActionOf(r.id) = r.action
  BY <1>4 DEF Row, ActionOf
<1> QED
  BY <1>3, <1>4 DEF RowsOfTheToken

LEMMA NextRows == ASSUME RowsOfTheToken, [Next]_vars PROVE RowsOfTheToken'
<1>1. ASSUME UNCHANGED storeVars PROVE RowsOfTheToken'
  BY <1>1 DEF storeVars, RowsOfTheToken, ActionOf
<1>2. CASE Store
  BY <1>2, StoreKeepsRows DEF Store
<1>3. ASSUME NEW r \in rows, ExecuteCommand(r) PROVE RowsOfTheToken'
  BY <1>3, ExecuteKeepsRows DEF ExecuteCommand
<1>4. CASE RowsArrive \/ CloseDialog \/ Program \/ Dialog
           \/ BaseModelItems \/ ModelItems
           \/ ForgottenModelReady \/ ForgottenModelItems
  BY <1>4, <1>1 DEF RowsArrive, CloseDialog, Program, Dialog, BaseModelItems, ModelItems,
                    ForgottenModelReady, ForgottenModelItems
<1>5. CASE UNCHANGED vars
  BY <1>5, <1>1 DEF vars
<1> QED
  BY <1>2, <1>3, <1>4, <1>5 DEF Next

\* However the menu changes between searches and whatever ids are run, each row of
\* a query that has searched the menu as it is leads to the action it shows.
THEOREM ResultsLeadToTheirActions == Spec => []ResultsAreTheTokens
<1>1. RowsOfTheToken => ResultsAreTheTokens
  BY DEF RowsOfTheToken, ResultsAreTheTokens
<1> QED
  BY <1>1, InitRows, NextRows, PTL DEF Spec

-----------------------------------------------------------------------------
(* The commands of a dialog.                                               *)

\* What makes CommandsKeepTheirOrder inductive: the handler is connected as long
\* as the base action has not been seen, and only then.
DialogOK ==
  /\ param \in {"none", "open"} /\ base \in BaseActions
  /\ queue \in Seq(Commands) /\ sent \in Seq(Commands)
  /\ param = "open" => DOMAIN muxer = {"hud"} /\ (Has(muxer, base) => ~watching)
  /\ CommandsKeepTheirOrder

\* The one group of the muxer is looked up under its prefix.
LEMMA HasInGroup ==
  ASSUME NEW m, DOMAIN m = {"hud"}, NEW b
  PROVE  Has(m, b) <=> b # NoBase /\ b[1] = "hud" /\ b[2] \in m["hud"]
BY DEF Has, HasAction, LookupGroup

\* An action that is added is found by the full name action_added compares.
LEMMA AddedIsFound ==
  ASSUME NEW m, DOMAIN m = {"hud"}, NEW a, NEW b \in BaseActions
  PROVE  /\ DOMAIN WithAction(m, "hud", a) = {"hud"}
         /\ Has(WithAction(m, "hud", a), b) <=>
              Has(m, b) \/ (b # NoBase /\ FullName("hud", a) = b)
<1> DEFINE n == WithAction(m, "hud", a)
<1>1. DOMAIN n = {"hud"} /\ n["hud"] = m["hud"] \cup {a}
  BY DEF WithAction
<1>2. b # NoBase => b = <<b[1], b[2]>>
  BY ParamAssumption DEF FullName
<1>3. b # NoBase => (FullName("hud", a) = b <=> b[1] = "hud" /\ b[2] = a)
  BY <1>2 DEF FullName
<1> HIDE DEF n
<1>4. Has(n, b) <=> b # NoBase /\ b[1] = "hud" /\ b[2] \in n["hud"]
  BY <1>1, HasInGroup
<1>5. Has(m, b) <=> b # NoBase /\ b[1] = "hud" /\ b[2] \in m["hud"]
  BY HasInGroup
<1> QED
  BY <1>1, <1>3, <1>4, <1>5 DEF n

LEMMA RemovedIsGone ==
  ASSUME NEW m, DOMAIN m = {"hud"}, NEW a, NEW b
  PROVE  /\ DOMAIN WithoutAction(m, "hud", a) = {"hud"}
         /\ Has(WithoutAction(m, "hud", a), b) => Has(m, b)
<1> DEFINE n == WithoutAction(m, "hud", a)
<1>1. DOMAIN n = {"hud"} /\ n["hud"] \subseteq m["hud"]
  BY DEF WithoutAction
<1> HIDE DEF n
<1>2. Has(n, b) => Has(m, b)
  BY <1>1, HasInGroup
<1> QED
  BY <1>1, <1>2 DEF n

LEMMA InsertedAlone ==
  ASSUME NEW actions
  PROVE  DOMAIN InsertGroup(NoGroups, "hud", actions) = {"hud"}
BY DEF InsertGroup, RemoveGroup, NoGroups

\* Commands one by one and lists of them.
LEMMA CommandSeqs ==
  /\ <<>> \in Seq(Commands)
  /\ \A c \in Commands : <<c>> \in Seq(Commands)
  /\ \A cs \in Seq(Commands), ds \in Seq(Commands) : cs \o ds \in Seq(Commands)
  /\ \A cs \in Seq(Commands) : Append(cs, "end") \in Seq(Commands)
<1>1. "end" \in Commands
  BY DEF Commands
<1> QED
  BY <1>1, ConcatProperties, AppendProperties

\* hud_client_param_new sends "start" or waits with nothing queued.
LEMMA NewKeepsDialogOK ==
  ASSUME NEW b \in BaseActions, NEW actions, NEW m, New(b, actions, m)
  PROVE  DialogOK'
<1>1. /\ param' = "open" /\ base' = b /\ queue' = <<>>
      /\ sent' = <<>> \/ sent' = <<"start">>
      /\ DOMAIN muxer' = {"hud"}
      /\ Has(muxer', base') => ~watching'
      /\ ~Understood(b) => sent' = <<>>
      /\ Understood(b) => written' = <<"start">>
                          /\ (IF late' THEN sent' = <<>> ELSE sent' = <<"start">>)
  BY InsertedAlone DEF New, Understood
<1>2. sent' \in Seq(Commands) /\ <<"start">> \in Seq(Commands) /\ <<>> \in Seq(Commands)
  <2>1. "start" \in Commands
    BY DEF Commands
  <2> QED
    BY <1>1, <2>1, CommandSeqs
<1>3. Understood(b) => NeverSent' \o (sent' \o queue') = written'
  <2>1. /\ <<>> \o <<>> = <<>> /\ <<"start">> \o <<>> = <<"start">>
        /\ <<>> \o <<"start">> = <<"start">>
    BY <1>2
  <2> QED
    BY <1>1, <2>1 DEF NeverSent
<1>4. Has(muxer, base)' => ~watching'
  BY <1>1
<1>5. queue' \in Seq(Commands)
  BY <1>1
<1>6. Understood(base)' <=> Understood(b)
  BY <1>1 DEF Understood
<1> QED
  BY <1>1, <1>2, <1>3, <1>4, <1>5, <1>6 DEF DialogOK, CommandsKeepTheirOrder

\* A command is sent or queued behind those queued before.
LEMMA SendKeepsDialogOK ==
  ASSUME DialogOK, NEW c \in Commands, Send(c)
  PROVE  DialogOK'
<1>1. /\ param = "open" /\ UNCHANGED <<param, base, muxer, watching, late>>
      /\ DOMAIN muxer = {"hud"} /\ (Has(muxer, base) => ~watching)
      /\ Understood(base) => NeverSent \o (sent \o queue) = written
      /\ ~Understood(base) => sent = <<>>
      /\ ~watching => queue = <<>>
      /\ queue \in Seq(Commands) /\ sent \in Seq(Commands)
  BY DEF Send, DialogOK, CommandsKeepTheirOrder
<1>2. <<c>> \in Seq(Commands) /\ NeverSent \in Seq(Commands)
  <2>1. "start" \in Commands
    BY DEF Commands
  <2> QED
    BY <2>1, CommandSeqs DEF NeverSent
<1>3. /\ queue' \in Seq(Commands) /\ (~watching => queue' = <<>>)
      /\ ~Understood(base) => sent' = <<>>
  BY <1>1, <1>2, ConcatProperties DEF Send, Write
<1>4. sent' \in Seq(Commands)
  BY <1>1, <1>2, ConcatProperties DEF Send, Write
<1>5. ASSUME Understood(base)
      PROVE  NeverSent \o (sent' \o queue') = written'
  <2>1. CASE Has(muxer, base) \/ watching
    <3>1. sent' \o queue' = (sent \o queue) \o <<c>>
      <4>1. CASE Has(muxer, base)
        <5>1. sent' = sent \o <<c>> /\ queue' = queue /\ queue = <<>>
          BY <1>1, <1>5, <4>1 DEF Send, Write
        <5>2. sent \o <<>> = sent /\ sent \o <<c>> \in Seq(Commands)
          BY <1>1, <1>2, ConcatProperties
        <5>3. (sent \o <<c>>) \o <<>> = sent \o <<c>>
          BY <5>2
        <5> QED
          BY <5>1, <5>2, <5>3
      <4>2. CASE ~Has(muxer, base)
        <5>1. sent' = sent /\ queue' = queue \o <<c>>
          BY <2>1, <4>2 DEF Send, Write
        <5> QED
          BY <1>1, <1>2, <5>1, ConcatAssociative
      <4> QED
        BY <4>1, <4>2
    <3>2. written' = written \o <<c>>
      BY <1>5, <2>1 DEF Send, Write
    <3> DEFINE told == sent \o queue
    <3>3. told \in Seq(Commands)
      BY <1>1, ConcatProperties
    <3> HIDE DEF told
    <3>4. NeverSent \o (told \o <<c>>) = (NeverSent \o told) \o <<c>>
      BY <1>2, <3>3, ConcatAssociative
    <3> QED
      BY <1>1, <1>5, <3>1, <3>2, <3>4 DEF told
  <2>2. CASE ~Has(muxer, base) /\ ~watching
    BY <1>1, <1>5, <2>2 DEF Send, Write
  <2> QED
    BY <2>1, <2>2
<1>6. Has(muxer, base)' => ~watching'
  BY <1>1
<1>7. NeverSent' = NeverSent /\ (Understood(base)' <=> Understood(base))
  BY <1>1 DEF NeverSent, Understood
<1> QED
  BY <1>1, <1>3, <1>4, <1>5, <1>6, <1>7 DEF DialogOK, CommandsKeepTheirOrder

\* What dispose leaves is no dialog, and what was sent is only looked at with one.
LEMMA CloseKeepsDialogOK ==
  ASSUME DialogOK, NEW cs \in Seq(Commands), Close(cs)
  PROVE  DialogOK'
<1>1. param' = "none" /\ base' = NoBase /\ queue' = <<>>
  BY DEF Close, Dispose
<1>2. sent' \in Seq(Commands)
  <2>1. "end" \in Commands
    BY DEF Commands
  <2>2. Append(cs, "end") \in Seq(Commands)
    BY <2>1, AppendProperties
  <2>3. sent' = sent \/ sent' = sent \o Append(cs, "end")
    BY DEF Close, SentWith
  <2> QED
    BY <2>2, <2>3, ConcatProperties DEF DialogOK
<1>3. NoBase \in BaseActions
  BY ParamAssumption
<1>4. queue' \in Seq(Commands)
  BY <1>1
<1> QED
  BY <1>1, <1>2, <1>3, <1>4 DEF DialogOK, CommandsKeepTheirOrder

\* The first sight of the base action empties the queue.
LEMMA AddedKeepsDialogOK ==
  ASSUME DialogOK, NEW a \in ParamActions, ActionAdded(a)
  PROVE  DialogOK'
<1> DEFINE awaited == watching /\ FullName("hud", a) = base
<1>1. /\ param = "open" /\ UNCHANGED <<param, base, written, late>>
      /\ muxer' = WithAction(muxer, "hud", a)
      /\ watching' = (watching /\ ~awaited)
      /\ sent' = IF awaited /\ Understood(base) THEN sent \o queue ELSE sent
      /\ queue' = IF awaited THEN <<>> ELSE queue
  BY DEF ActionAdded
<1>2. /\ DOMAIN muxer = {"hud"} /\ (Has(muxer, base) => ~watching)
      /\ Understood(base) => NeverSent \o (sent \o queue) = written
      /\ ~Understood(base) => sent = <<>>
      /\ ~watching => queue = <<>>
      /\ queue \in Seq(Commands) /\ sent \in Seq(Commands) /\ base \in BaseActions
  BY <1>1 DEF DialogOK, CommandsKeepTheirOrder
<1>3. /\ DOMAIN muxer' = {"hud"}
      /\ Has(muxer', base) => Has(muxer, base) \/ FullName("hud", a) = base
  BY <1>1, <1>2, AddedIsFound
<1>4. Has(muxer, base)' => ~watching'
  BY <1>1, <1>2, <1>3
<1>5. /\ sent' \in Seq(Commands) /\ queue' \in Seq(Commands)
      /\ Understood(base) => sent' \o queue' = sent \o queue
      /\ ~Understood(base) => sent' = <<>>
      /\ ~watching' => queue' = <<>>
  <2>1. CASE awaited
    <3>1. queue' = <<>> /\ queue' \in Seq(Commands)
      BY <1>1, <2>1
    <3>2. sent \o queue \in Seq(Commands)
      BY <1>2, ConcatProperties
    <3>3. (sent \o queue) \o <<>> = sent \o queue
      BY <3>2
    <3>4. sent' = IF Understood(base) THEN sent \o queue ELSE sent
      BY <1>1, <2>1
    <3> QED
      BY <1>2, <3>1, <3>2, <3>3, <3>4
  <2>2. CASE ~awaited
    BY <1>1, <1>2, <2>2
  <2> QED
    BY <2>1, <2>2
<1>6. NeverSent' = NeverSent /\ (Understood(base)' <=> Understood(base))
  BY <1>1 DEF NeverSent, Understood
<1> QED
  BY <1>1, <1>2, <1>3, <1>4, <1>5, <1>6 DEF DialogOK, CommandsKeepTheirOrder

LEMMA RemovedKeepsDialogOK ==
  ASSUME DialogOK, NEW a \in ParamActions, ActionRemoved(a)
  PROVE  DialogOK'
<1>1. /\ param = "open" /\ UNCHANGED <<param, base, watching, queue, sent, written, late>>
      /\ muxer' = WithoutAction(muxer, "hud", a)
  BY DEF ActionRemoved
<1>2. DOMAIN muxer = {"hud"} /\ (Has(muxer, base) => ~watching)
  BY <1>1 DEF DialogOK
<1>3. DOMAIN muxer' = {"hud"} /\ (Has(muxer', base) => Has(muxer, base))
  BY <1>1, <1>2, RemovedIsGone
<1>4. Has(muxer, base)' => ~watching'
  BY <1>1, <1>2, <1>3
<1>5. NeverSent' = NeverSent /\ (Understood(base)' <=> Understood(base))
  BY <1>1 DEF NeverSent, Understood
<1> QED
  BY <1>1, <1>3, <1>4, <1>5 DEF DialogOK, CommandsKeepTheirOrder

LEMMA OpenKeepsDialogOK ==
  ASSUME DialogOK, NEW r, NEW m, Open(r, m)
  PROVE  DialogOK'
<1>1. CASE ActionOf(r.id) = NoAction
  <2>1. Dispose /\ UNCHANGED <<sent, written>>
    BY <1>1 DEF Open
  <2>2. param' = "none" /\ base' = NoBase /\ queue' = <<>> /\ sent' = sent
    BY <2>1 DEF Dispose
  <2>3. NoBase \in BaseActions /\ queue' \in Seq(Commands)
    BY <2>2, ParamAssumption
  <2> QED
    BY <2>2, <2>3 DEF DialogOK, CommandsKeepTheirOrder
<1>2. CASE ActionOf(r.id) # NoAction
  BY <1>2, NewKeepsDialogOK DEF Open
<1> QED
  BY <1>1, <1>2

LEMMA InitDialogOK == Init => DialogOK
<1> SUFFICES ASSUME Init PROVE DialogOK
  OBVIOUS
<1>1. param = "none" /\ base = NoBase /\ queue = <<>> /\ sent = <<>>
  BY DEF Init, ParamInit, NoParam
<1>2. queue \in Seq(Commands) /\ sent \in Seq(Commands)
  BY <1>1
<1>3. NoBase \in BaseActions
  BY ParamAssumption
<1> QED
  BY <1>1, <1>2, <1>3 DEF DialogOK, CommandsKeepTheirOrder

LEMMA NextDialogOK == ASSUME DialogOK, [Next]_vars PROVE DialogOK'
<1> DEFINE kept == <<param, base, muxer, watching, queue, sent, written, late>>
<1>1. ASSUME UNCHANGED kept PROVE DialogOK'
  BY <1>1 DEF DialogOK, CommandsKeepTheirOrder, Has, HasAction, LookupGroup, NeverSent, Understood
<1>2. ASSUME NEW r \in rows, ExecuteCommand(r) PROVE DialogOK'
  <2>1. UNCHANGED paramVars \/ \E m \in Models : Open(r, m)
    BY <1>2 DEF ExecuteCommand
  <2> QED
    BY <2>1, <1>1, OpenKeepsDialogOK DEF paramVars
<1>3. CASE CloseDialog
  <2>1. <<"commit">> \in Seq(Commands) /\ <<"cancel">> \in Seq(Commands)
    BY DEF Commands
  <2> QED
    BY <1>3, <2>1, CloseKeepsDialogOK DEF CloseDialog
<1>4. CASE Program
  <2>1. ASSUME NEW c \in ProgramCommands, Send(c) PROVE DialogOK'
    <3>1. c \in Commands
      BY ParameterizedAssumption DEF Commands
    <3> QED
      BY <2>1, <3>1, SendKeepsDialogOK
  <2>2. CASE Close(<<>>)
    <3>1. <<>> \in Seq(Commands)
      OBVIOUS
    <3> QED
      BY <2>2, <3>1, CloseKeepsDialogOK
  <2> QED
    BY <1>4, <2>1, <2>2 DEF Program
<1>5. CASE Dialog
  BY <1>5, AddedKeepsDialogOK, RemovedKeepsDialogOK DEF Dialog
<1>6. CASE Store \/ RowsArrive \/ BaseModelItems \/ ModelItems
           \/ ForgottenModelReady \/ ForgottenModelItems
  BY <1>6, <1>1 DEF Store, RowsArrive, BaseModelItems, ModelItems, ForgottenModelReady,
                    ForgottenModelItems, paramVars
<1>7. CASE UNCHANGED vars
  BY <1>7, <1>1 DEF vars, paramVars
<1> QED
  BY <1>2, <1>3, <1>4, <1>5, <1>6, <1>7 DEF Next

\* An action that takes commands gets a dialog's in the order they were promised,
\* whenever it comes and goes and whatever dialog was forgotten, but for the "start" if
\* it comes late; an action of another type gets none (action_write_state).
THEOREM CommandsInOrder == Spec => []CommandsKeepTheirOrder
<1>1. DialogOK => CommandsKeepTheirOrder
  BY DEF DialogOK
<1> QED
  BY <1>1, InitDialogOK, NextDialogOK, PTL DEF Spec

-----------------------------------------------------------------------------
(* The ids of the store, and the null Items among them.                    *)

\* Each number below their count is the rank of one of finitely many numbers.
LEMMA RanksAreNumbers ==
  ASSUME NEW n \in Nat, NEW S \in SUBSET (1..n), NEW k \in 0..(Cardinality(S) - 1)
  PROVE  \E i \in S : Cardinality({j \in S : j < i}) = k
<1> DEFINE below(i) == {j \in S : j < i}
           rank == [i \in S |-> Cardinality(below(i))]
           R == {rank[i] : i \in S}
           c == Cardinality(S)
<1>1. IsFiniteSet(S) /\ c \in Nat
  <2>1. IsFiniteSet(1..n)
    BY FS_Interval
  <2> QED
    BY <2>1, FS_Subset, FS_CardinalityType
<1>2. ASSUME NEW i \in S
      PROVE  /\ IsFiniteSet(below(i)) /\ rank[i] \in Nat
             /\ Cardinality(below(i) \cup {i}) = rank[i] + 1
  <2>1. IsFiniteSet(below(i)) /\ i \notin below(i)
    BY <1>1, FS_Subset
  <2> QED
    BY <2>1, FS_AddElement, FS_CardinalityType
<1>3. ASSUME NEW i \in S PROVE rank[i] \in 0..(c - 1)
  <2>1. below(i) \cup {i} \in SUBSET S
    OBVIOUS
  <2>2. Cardinality(below(i) \cup {i}) <= c
    BY <1>1, <2>1, FS_Subset
  <2>3. rank[i] \in Nat /\ Cardinality(below(i) \cup {i}) = rank[i] + 1
    BY <1>2
  <2> HIDE DEF rank, c, below
  <2> QED
    BY <1>1, <2>2, <2>3
<1>4. ASSUME NEW i \in S, NEW j \in S, i < j PROVE rank[i] < rank[j]
  <2>1. below(i) \cup {i} \in SUBSET below(j)
    <3>1. i \in Nat /\ j \in Nat /\ \A x \in S : x \in Nat
      OBVIOUS
    <3>2. \A x \in S : x < i => x < j
      BY ONLY <3>1, <1>4
    <3> QED
      BY <1>4, <3>1, <3>2
  <2>2. Cardinality(below(i) \cup {i}) <= Cardinality(below(j))
    BY <1>2, <2>1, FS_Subset
  <2>3. rank[i] + 1 <= rank[j]
    BY <1>2, <2>2
  <2>4. rank[i] \in Nat /\ rank[j] \in Nat
    BY <1>2
  <2> HIDE DEF rank, below
  <2> QED
    BY <2>3, <2>4
<1>5. \A i, j \in S : rank[i] = rank[j] => i = j
  <2> SUFFICES ASSUME NEW i \in S, NEW j \in S, i # j PROVE rank[i] # rank[j]
    OBVIOUS
  <2>1. i < j \/ j < i
    OBVIOUS
  <2>2. rank[i] \in Nat /\ rank[j] \in Nat
    BY <1>2
  <2>3. rank[i] < rank[j] \/ rank[j] < rank[i]
    BY <1>4, <2>1
  <2> HIDE DEF rank
  <2> QED
    BY <2>2, <2>3
<1>6. rank \in Bijection(S, R)
  <2>1. rank \in [S -> R]
    OBVIOUS
  <2> HIDE DEF rank
  <2>2. rank \in Injection(S, R)
    BY <1>5, <2>1 DEF Injection, IsInjective
  <2>3. rank \in Surjection(S, R)
    BY <2>1 DEF Surjection
  <2> QED
    BY <2>2, <2>3 DEF Bijection
<1>7. Cardinality(R) = c
  <2> HIDE DEF R, rank
  <2>1. ExistsBijection(S, R)
    BY <1>6 DEF ExistsBijection
  <2> QED
    BY <1>1, <2>1, FS_Bijection
<1>8. R = 0..(c - 1)
  <2>1. R \in SUBSET (0..(c - 1))
    BY <1>3
  <2>2. IsFiniteSet(0..(c - 1)) /\ Cardinality(0..(c - 1)) = c
    <3>1. 0 \in Int /\ c - 1 \in Int
      BY <1>1
    <3>2. /\ IsFiniteSet(0..(c - 1))
          /\ Cardinality(0..(c - 1)) = IF 0 > c - 1 THEN 0 ELSE c - 1 - 0 + 1
      BY <3>1, FS_Interval
    <3> HIDE DEF c
    <3> QED
      BY <1>1, <3>2
  <2> HIDE DEF R, c
  <2> QED
    BY <1>7, <2>1, <2>2, FS_Subset
<1>9. PICK i \in S : rank[i] = k
  BY <1>8
<1> QED
  BY <1>9

\* What indexMenu makes for a menu: ids that are numbers, and real positions.
LEMMA IndexedType ==
  ASSUME NEW m \in Menus
  PROVE  DOMAIN Indexed(m) \subseteq Nat /\ \A id \in DOMAIN Indexed(m) : Indexed(m)[id] \in Nat \ {0}
<1> DEFINE S == Enabled(m)
<1>1. m \in Seq(Actions)
  BY StoreAssumption
<1>2. Len(m) \in Nat /\ S \in SUBSET (1..Len(m))
  BY <1>1 DEF Enabled
<1>3. DOMAIN Indexed(m) = 0..(Cardinality(S) - 1)
  BY DEF Indexed
<1>4. ASSUME NEW id \in 0..(Cardinality(S) - 1) PROVE Indexed(m)[id] \in S
  <2> HIDE DEF S
  <2>1. \E i \in S : Cardinality({j \in S : j < i}) = id
    BY <1>2, RanksAreNumbers
  <2>2. Indexed(m)[id] = CHOOSE i \in S : Cardinality({j \in S : j < i}) = id
    BY DEF Indexed, S
  <2> QED
    BY <2>1, <2>2
<1>5. \A i \in S : i \in Nat \ {0}
  BY <1>2
<1> HIDE DEF S
<1> QED
  BY <1>3, <1>4, <1>5

\* A store: an id for each of its positions, of which 0 is that of a null Item.
IsStore(its) == DOMAIN its \subseteq Nat /\ \A id \in DOMAIN its : its[id] \in Nat
HasNull(its) == \E id \in DOMAIN its : its[id] = 0

\* What makes NullItemsComeFromOldRows inductive: the ids published are the token's
\* own, so that only an older row has an id it does not know.
StoreOK ==
  /\ menu \in Menus /\ source \in Sources /\ text \in Texts
  /\ IsStore(items)
  /\ results \subseteq Results_ /\ rows \subseteq Results_
  /\ moved \in BOOLEAN /\ crashed \in BOOLEAN /\ overtaken \in BOOLEAN
  /\ \A r \in results : r.id \in DOMAIN items
  /\ ~overtaken => ~crashed /\ ~HasNull(items)

LEMMA IndexedStore ==
  ASSUME NEW m \in Menus
  PROVE  IsStore(Indexed(m)) /\ ~HasNull(Indexed(m))
<1>1. /\ DOMAIN Indexed(m) \subseteq Nat
      /\ \A id \in DOMAIN Indexed(m) : Indexed(m)[id] \in Nat \ {0}
  BY IndexedType
<1>2. ASSUME NEW id \in DOMAIN Indexed(m) PROVE Indexed(m)[id] \in Nat /\ Indexed(m)[id] # 0
  BY <1>1
<1> QED
  BY <1>1, <1>2 DEF IsStore, HasNull

\* The rows of ids that a search has found.
LEMMA FoundRows ==
  ASSUME NEW its, NEW m \in Menus, NEW t, NEW ids \in Found(its, m, t), IsStore(its),
         NEW rs, rs = {Row(its, m, id) : id \in ids}
  PROVE  rs \subseteq Results_ /\ \A r \in rs : r.id \in DOMAIN its
<1>1. ASSUME NEW id \in ids PROVE Row(its, m, id) \in Results_ /\ Row(its, m, id).id \in DOMAIN its
  <2>1. id \in DOMAIN its /\ ActionAt(m, its[id]) # NoAction
    BY DEF Found, Live
  <2>2. m \in Seq(Actions)
    BY StoreAssumption
  <2>3. ActionAt(m, its[id]) \in Actions
    BY <2>1, <2>2 DEF ActionAt
  <2>4. id \in Nat
    BY <2>1 DEF IsStore
  <2> QED
    BY <2>1, <2>3, <2>4 DEF Row, Results_
<1> QED
  BY <1>1

\* A search publishes ids of its items, and only trips over one that is null.
LEMMA SearchKeepsStore ==
  ASSUME StoreOK, ~crashed, NEW its, NEW m \in Menus, NEW t \in Texts, IsStore(its),
         HasNull(its) => HasNull(items), Search(its, m, t), source' \in Sources,
         UNCHANGED <<rows, overtaken>>
  PROVE  StoreOK'
<1>1. items' = its /\ menu' = m /\ text' = t /\ moved' = FALSE
  BY DEF Search
<1>2. CASE t = "" /\ HasNull(its)
  <2>1. crashed' = TRUE /\ results' = {}
    BY <1>2 DEF Search, HasNull
  <2>2. overtaken'
    BY <1>2 DEF StoreOK
  <2> QED
    BY <1>1, <2>1, <2>2 DEF StoreOK
<1>3. CASE ~(t = "" /\ HasNull(its))
  <2>1. /\ crashed' = crashed
        /\ \E ids \in Found(its, m, t) : results' = {Row(its, m, id) : id \in ids}
    BY <1>3 DEF Search, HasNull
  <2>2. results' \subseteq Results_ /\ \A r \in results' : r.id \in DOMAIN its
    BY <2>1, FoundRows
  <2>3. ~overtaken => ~HasNull(its)
    BY DEF StoreOK
  <2> QED
    BY <1>1, <2>1, <2>2, <2>3 DEF StoreOK
<1> QED
  BY <1>2, <1>3

LEMMA RefreshKeepsStore ==
  ASSUME StoreOK, ~crashed, NEW t \in Texts, Refresh(t), UNCHANGED <<rows, overtaken>>
  PROVE  StoreOK'
<1> DEFINE its == IF source = "DBusMenu" THEN items ELSE Indexed(menu)
<1>1. menu \in Menus /\ IsStore(items) /\ source' \in Sources
  BY DEF StoreOK, Refresh
<1>2. IsStore(its) /\ (HasNull(its) => HasNull(items))
  BY <1>1, IndexedStore
<1>3. Search(its, menu, t)
  BY DEF Refresh
<1> HIDE DEF its
<1> QED
  BY <1>1, <1>2, <1>3, SearchKeepsStore

LEMMA StoreStepKeepsStore ==
  ASSUME StoreOK, StoreNext, UNCHANGED <<rows, overtaken>>
  PROVE  StoreOK'
<1>1. ASSUME NEW t \in Texts, UpdateQuery(t) PROVE StoreOK'
  BY <1>1, RefreshKeepsStore DEF UpdateQuery
<1>2. ASSUME NEW m \in Menus, NEW s \in Sources, FocusWindow(m, s) PROVE StoreOK'
  <2>1. ~crashed /\ Search(Indexed(m), m, text) /\ source' \in Sources /\ text \in Texts
    BY <1>2 DEF FocusWindow, StoreOK
  <2> QED
    BY <2>1, IndexedStore, SearchKeepsStore
<1>3. ASSUME NEW m \in Menus, MenuChanges(m) PROVE StoreOK'
  BY <1>3 DEF MenuChanges, StoreOK
<1>4. CASE Timeout
  BY <1>4, RefreshKeepsStore DEF Timeout, StoreOK
<1> QED
  BY <1>1, <1>2, <1>3, <1>4 DEF StoreNext

\* To run a row of the latest results enters no id.
LEMMA ExecuteKeepsStore ==
  ASSUME StoreOK, NEW r \in rows, ExecuteCommand(r)
  PROVE  StoreOK'
<1>1. /\ items' = [i \in DOMAIN items \cup {r.id} |-> IF i \in DOMAIN items THEN items[i] ELSE 0]
      /\ UNCHANGED <<menu, source, text, results, moved, crashed, rows>>
      /\ overtaken' = (overtaken \/ rows # results)
  BY DEF ExecuteCommand, Execute
<1>2. r.id \in Nat /\ IsStore(items)
  BY DEF StoreOK, Results_
<1>3. IsStore(items')
  BY <1>1, <1>2 DEF IsStore
<1>4. \A q \in results : q.id \in DOMAIN items'
  BY <1>1 DEF StoreOK
<1>5. ASSUME ~overtaken' PROVE ~crashed' /\ ~HasNull(items')
  <2>1. rows = results /\ ~overtaken
    BY <1>1, <1>5
  <2>2. r.id \in DOMAIN items /\ ~crashed /\ ~HasNull(items)
    BY <2>1 DEF StoreOK
  <2> QED
    BY <1>1, <2>2 DEF HasNull
<1>6. overtaken' \in BOOLEAN
  BY <1>1
<1> QED
  BY <1>1, <1>3, <1>4, <1>5, <1>6 DEF StoreOK

LEMMA InitStoreOK == Init => StoreOK
<1> SUFFICES ASSUME Init PROVE StoreOK
  OBVIOUS
<1>1. /\ menu \in Menus /\ source \in Sources /\ items = Indexed(menu) /\ text = ""
      /\ moved = FALSE /\ crashed = FALSE /\ rows = results /\ overtaken = FALSE
  BY DEF Init, StoreInit
<1>2. PICK ids \in Found(items, menu, "") : results = {Row(items, menu, id) : id \in ids}
  BY DEF Init, StoreInit
<1>3. IsStore(items) /\ ~HasNull(items)
  BY <1>1, IndexedStore
<1>4. results \subseteq Results_ /\ \A r \in results : r.id \in DOMAIN items
  <2>1. menu \in Menus /\ IsStore(items)
    BY <1>1, <1>3
  <2> QED
    BY ONLY <1>2, <2>1, FoundRows
<1> QED
  BY <1>1, <1>3, <1>4 DEF StoreOK, Texts

LEMMA NextStoreOK == ASSUME StoreOK, [Next]_vars PROVE StoreOK'
<1>1. ASSUME UNCHANGED <<storeVars, rows, overtaken>> PROVE StoreOK'
  BY <1>1 DEF storeVars, StoreOK
<1>2. CASE Store
  BY <1>2, StoreStepKeepsStore DEF Store, clientVars
<1>3. CASE RowsArrive
  BY <1>3 DEF RowsArrive, StoreOK, storeVars
<1>4. ASSUME NEW r \in rows, ExecuteCommand(r) PROVE StoreOK'
  BY <1>4, ExecuteKeepsStore
<1>5. CASE CloseDialog \/ Program \/ Dialog \/ BaseModelItems \/ ModelItems
           \/ ForgottenModelReady \/ ForgottenModelItems
  BY <1>5, <1>1 DEF CloseDialog, Program, Dialog, BaseModelItems, ModelItems,
                    ForgottenModelReady, ForgottenModelItems, clientVars
<1>6. CASE UNCHANGED vars
  BY <1>6, <1>1 DEF vars, clientVars
<1> QED
  BY <1>2, <1>3, <1>4, <1>5, <1>6 DEF Next

\* A client that runs only rows of the latest results puts no null Item into the
\* store, and the service never trips over one (ItemStore.cpp:189, 298), however the
\* menus, the focus and the query change in between.
THEOREM NoNullItems == Spec => []NullItemsComeFromOldRows
<1>1. StoreOK => NullItemsComeFromOldRows
  BY DEF StoreOK, HasNull, NullItemsComeFromOldRows
<1> QED
  BY <1>1, InitStoreOK, NextStoreOK, PTL DEF Spec

-----------------------------------------------------------------------------
(* The state is well-formed.                                               *)

\* The dialog's half of TypeOK; StoreOK is the store's.
DialogType ==
  /\ param \in {"none", "open"} /\ model \in Models
  /\ base \in BaseActions /\ watching \in BOOLEAN /\ late \in BOOLEAN
  /\ DOMAIN muxer \subseteq {"hud"} /\ \A p \in DOMAIN muxer : muxer[p] \subseteq ParamActions
  /\ queue \in Seq(Commands) /\ sent \in Seq(Commands) /\ written \in Seq(Commands)
  /\ param = "none" => NoParam
  /\ param = "open" => DOMAIN muxer = {"hud"}
  /\ user \in {"HudClient", "program"}
  /\ forgotten \in {"no", "none", "linked"} /\ deaf \in BOOLEAN

\* dispose leaves no dialog.
LEMMA DisposeType ==
  ASSUME Dispose, sent' \in Seq(Commands), written' \in Seq(Commands),
         user' \in {"HudClient", "program"},
         forgotten' \in {"no", "none", "linked"}, deaf' \in BOOLEAN
  PROVE  DialogType'
<1>1. /\ param' = "none" /\ base' = NoBase /\ muxer' = NoGroups /\ watching' = FALSE
      /\ queue' = <<>> /\ late' = FALSE /\ model' = "none"
  BY DEF Dispose
<1>2. DOMAIN muxer' = {} /\ queue' \in Seq(Commands) /\ base' \in BaseActions
      /\ model' \in Models
  BY <1>1, CommandSeqs, ParamAssumption DEF NoGroups, Models
<1> QED
  BY <1>1, <1>2 DEF DialogType, NoParam

\* A dialog whose group is under "hud", and a command list as it is or longer.
LEMMA WriteType ==
  ASSUME DialogType, NEW cs \in Seq(Commands), Write(cs)
  PROVE  sent' \in Seq(Commands) /\ queue' \in Seq(Commands) /\ written' \in Seq(Commands)
<1>1. /\ sent' = sent \/ sent' = sent \o cs
      /\ queue' = queue \/ queue' = queue \o cs
      /\ written' = written \/ written' = written \o cs
  BY DEF Write
<1>2. sent \in Seq(Commands) /\ queue \in Seq(Commands) /\ written \in Seq(Commands)
  BY DEF DialogType
<1> QED
  BY <1>1, <1>2, CommandSeqs

LEMMA CloseType ==
  ASSUME DialogType, NEW cs \in Seq(Commands), Close(cs), UNCHANGED <<user, forgotten>>, deaf' \in BOOLEAN
  PROVE  DialogType'
<1>1. Dispose /\ written' = sent' /\ (sent' = sent \/ sent' = sent \o Append(cs, "end"))
  BY DEF Close, SentWith
<1>2. sent' \in Seq(Commands)
  BY <1>1, CommandSeqs DEF DialogType
<1>3. /\ user' \in {"HudClient", "program"}
      /\ forgotten' \in {"no", "none", "linked"} /\ deaf' \in BOOLEAN
  BY DEF DialogType
<1> QED
  BY <1>1, <1>2, <1>3, DisposeType

\* hud_client_param_new, or no dialog.
LEMMA OpenType ==
  ASSUME DialogType, NEW r, NEW m \in Models, Open(r, m), user' = user,
         forgotten' \in {"no", "none", "linked"}, deaf' \in BOOLEAN
  PROVE  DialogType'
<1>1. CASE ActionOf(r.id) = NoAction
  <2>1. Dispose /\ sent' = sent /\ written' = written
    BY <1>1 DEF Open
  <2> QED
    BY <2>1, DisposeType DEF DialogType
<1>2. CASE ActionOf(r.id) # NoAction
  <2>1. PICK b \in BaseActions, actions \in SUBSET ParamActions : New(b, actions, m)
    BY <1>2 DEF Open
  <2> DEFINE mux == InsertGroup(NoGroups, "hud", actions)
  <2>2. DOMAIN mux = {"hud"} /\ mux["hud"] = actions
    BY DEF InsertGroup, RemoveGroup, NoGroups
  <2> HIDE DEF mux
  <2>3. /\ param' = "open" /\ base' = b /\ muxer' = mux /\ watching' \in BOOLEAN
        /\ queue' = <<>> /\ (sent' = <<>> \/ sent' = <<"start">>)
        /\ (written' = <<>> \/ written' = <<"start">>) /\ late' \in BOOLEAN
        /\ model' = m
    BY <2>1 DEF New, mux
  <2>4. "start" \in Commands
    BY DEF Commands
  <2>5. sent' \in Seq(Commands) /\ queue' \in Seq(Commands) /\ written' \in Seq(Commands)
    BY <2>3, <2>4, CommandSeqs
  <2> QED
    BY <2>2, <2>3, <2>5 DEF DialogType
<1> QED
  BY <1>1, <1>2

\* An action comes to the group, or leaves it.
LEMMA ActionType ==
  ASSUME DialogType, NEW a \in ParamActions, ActionAdded(a) \/ ActionRemoved(a),
         UNCHANGED <<user, forgotten, deaf>>
  PROVE  DialogType'
<1>1. /\ param = "open" /\ UNCHANGED <<param, base, written, late, model>>
      /\ muxer' = WithAction(muxer, "hud", a) \/ muxer' = WithoutAction(muxer, "hud", a)
      /\ watching' \in BOOLEAN
      /\ sent' = sent \/ sent' = sent \o queue
      /\ queue' = queue \/ queue' = <<>>
  BY DEF ActionAdded, ActionRemoved, DialogType
<1>2. DOMAIN muxer = {"hud"} /\ muxer["hud"] \subseteq ParamActions
  BY <1>1 DEF DialogType
<1>3. DOMAIN muxer' = {"hud"} /\ muxer'["hud"] \subseteq ParamActions
  BY <1>1, <1>2 DEF WithAction, WithoutAction
<1>4. sent' \in Seq(Commands) /\ queue' \in Seq(Commands) /\ written' \in Seq(Commands)
  BY <1>1, CommandSeqs DEF DialogType
<1> QED
  BY <1>1, <1>3, <1>4 DEF DialogType

LEMMA InitDialogType == Init => DialogType
<1> SUFFICES ASSUME Init PROVE DialogType
  OBVIOUS
<1>1. /\ NoParam /\ sent = <<>> /\ written = <<>>
      /\ user \in {"HudClient", "program"} /\ forgotten = "no" /\ deaf = FALSE
  BY DEF Init, ParamInit
<1>2. /\ param = "none" /\ base = NoBase /\ muxer = NoGroups /\ watching = FALSE
      /\ queue = <<>> /\ late = FALSE /\ model = "none"
  BY <1>1 DEF NoParam
<1>3. /\ sent \in Seq(Commands) /\ written \in Seq(Commands) /\ queue \in Seq(Commands)
      /\ base \in BaseActions /\ DOMAIN muxer = {} /\ model \in Models
  BY <1>1, <1>2, CommandSeqs, ParamAssumption DEF NoGroups, Models
<1> QED
  BY <1>1, <1>2, <1>3 DEF DialogType

LEMMA NextDialogType == ASSUME DialogType, [Next]_vars PROVE DialogType'
<1>1. ASSUME UNCHANGED <<paramVars, user, forgotten, deaf>> PROVE DialogType'
  BY <1>1 DEF paramVars, DialogType, NoParam
<1>2. ASSUME NEW r \in rows, ExecuteCommand(r) PROVE DialogType'
  <2>1. user' = user
    BY <1>2 DEF ExecuteCommand
  <2>2. CASE r.action \notin Parameterized
    BY <1>1, <1>2, <2>1, <2>2 DEF ExecuteCommand
  <2>3. CASE r.action \in Parameterized
    <3>1. /\ \E m \in Models : Open(r, m)
          /\ deaf' = FALSE /\ forgotten' = Forgotten
      BY <1>2, <2>3 DEF ExecuteCommand
    <3>2. forgotten' \in {"no", "none", "linked"} /\ deaf' \in BOOLEAN
      BY <3>1 DEF Forgotten, DialogType, Models
    <3> QED
      BY <2>1, <3>1, <3>2, OpenType
  <2> QED
    BY <2>2, <2>3
<1>3. CASE CloseDialog
  <2>1. <<"commit">> \in Seq(Commands) /\ <<"cancel">> \in Seq(Commands)
    BY CommandSeqs DEF Commands
  <2>2. /\ UNCHANGED <<user, forgotten>> /\ deaf' \in BOOLEAN
        /\ Close(<<"commit">>) \/ Close(<<"cancel">>)
    BY <1>3 DEF CloseDialog
  <2> QED
    BY <2>1, <2>2, CloseType
<1>4. CASE Program
  <2>1. UNCHANGED <<user, forgotten, deaf>>
    BY <1>4 DEF Program, clientVars
  <2>2. ASSUME NEW c \in ProgramCommands, Send(c) PROVE DialogType'
    <3>1. <<c>> \in Seq(Commands)
      BY CommandSeqs, ParameterizedAssumption DEF Commands
    <3>2. /\ sent' \in Seq(Commands) /\ queue' \in Seq(Commands) /\ written' \in Seq(Commands)
          /\ UNCHANGED <<param, base, muxer, watching, late, model>> /\ param = "open"
      BY <2>2, <3>1, WriteType DEF Send
    <3> QED
      BY <2>1, <3>2 DEF DialogType
  <2>3. CASE Close(<<>>)
    BY <2>1, <2>3, CloseType, CommandSeqs DEF DialogType
  <2> QED
    BY <1>4, <2>2, <2>3 DEF Program
<1>5. CASE Dialog
  BY <1>5, ActionType DEF Dialog, clientVars
<1>6. CASE BaseModelItems \/ ModelItems
  <2>1. /\ param = "open" /\ model' \in Models
        /\ UNCHANGED <<clientVars, param, base, muxer, watching, queue, sent, written, late>>
    BY <1>6 DEF BaseModelItems, ModelItems, DialogType, NoParam, Models
  <2> QED
    BY <2>1 DEF DialogType, clientVars
<1>7. CASE ForgottenModelReady \/ ForgottenModelItems
  BY <1>7 DEF ForgottenModelReady, ForgottenModelItems, DialogType, NoParam, paramVars
<1>8. CASE Store \/ RowsArrive
  BY <1>8, <1>1 DEF Store, RowsArrive, clientVars
<1>9. CASE UNCHANGED vars
  BY <1>9, <1>1 DEF vars, clientVars
<1> QED
  BY <1>2, <1>3, <1>4, <1>5, <1>6, <1>7, <1>8, <1>9 DEF Next

\* The store, the rows and the dialog are well-formed: a dialog that is closed has
\* nothing left, and one that is open has the application's group under its prefix.
THEOREM TypeCorrect == Spec => []TypeOK
<1>1. StoreOK /\ DialogType => TypeOK
  BY DEF StoreOK, IsStore, DialogType, TypeOK
<1> QED
  BY <1>1, InitStoreOK, NextStoreOK, InitDialogType, NextDialogType, PTL DEF Spec
=============================================================================
