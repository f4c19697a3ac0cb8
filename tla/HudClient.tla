------------------------------ MODULE HudClient ------------------------------
(***************************************************************************)
(* A user runs commands of the HUD: the rows of the results that a client  *)
(* of hud-service shows, the calls by which it runs one of them, and the   *)
(* dialog of a parameterised one.                                          *)
(*                                                                         *)
(* The client is Unity's, by way of HudClient (libhud-client's Qt class),  *)
(* which has at most one dialog and closes it with its commit or cancel;   *)
(* or a program that uses the C functions, as tools/hud-cli-param does.    *)
(* The rows are a copy, kept by libdee, and lag behind the service's.      *)
(***************************************************************************)
EXTENDS ItemStore, ClientParam

CONSTANTS
  Parameterized,    \* the parameterised actions
  ProgramCommands   \* the commands a program sends

ASSUME ParameterizedAssumption ==
  /\ Parameterized \subseteq Actions
  /\ ProgramCommands \subseteq {"reset", "commit", "cancel"}

VARIABLES
  user,      \* who uses libhud-client, "HudClient" or "program"
  rows,      \* the results the client has
  forgotten, \* the model of the last dialog HudClient forgot with its handler on, or "no"
  deaf,      \* the handler of the open dialog was taken off before it was called
  overtaken  \* history: a row has been run that the service had replaced

clientVars == <<user, rows, forgotten, deaf, overtaken>>
vars == <<storeVars, paramVars, clientVars>>

Init ==
  /\ StoreInit /\ ParamInit
  /\ user \in {"HudClient", "program"}
  /\ rows = results
  /\ forgotten = "no" /\ deaf = FALSE /\ overtaken = FALSE

\* The changes of the results get to the client.
RowsArrive ==
  /\ rows # results
  /\ rows' = results
  /\ UNCHANGED <<storeVars, paramVars, user, forgotten, deaf, overtaken>>

Models == {"none", "linked", "ready"}

\* hud_client_query_execute_param_command: no dialog if the service finds no action
\* for the id.
Open(r, m) ==
  IF ActionOf(r.id) = NoAction
  THEN Dispose /\ UNCHANGED <<sent, written>>
  ELSE \E b \in BaseActions, actions \in SUBSET ParamActions : New(b, actions, m)

\* A dialog whose model has its items, or that is deaf, has no handler left.
Forgotten ==
  IF param = "none" \/ model = "ready" \/ deaf THEN forgotten ELSE model

\* Mutation of ExecuteCommand: HudClient only waits for the model.
ExecuteAwaitsModel(r) ==
  /\ r \in rows
  /\ r.action \in Parameterized /\ user = "program" => param = "none"
  /\ Execute(r.id)
  /\ overtaken' = (overtaken \/ rows # results)
  /\ IF r.action \notin Parameterized THEN UNCHANGED <<paramVars, forgotten, deaf>>
     ELSE /\ \E m \in Models : Open(r, m) /\ deaf' = (m # "none")
          /\ forgotten' = Forgotten
  /\ UNCHANGED <<user, rows>>

\* HudClient::executeCommand, which forgets the dialog there is; or the same calls
\* by a program, which has closed it.
ExecuteCommand(r) ==
  /\ r \in rows
  /\ r.action \in Parameterized /\ user = "program" => param = "none"
  /\ Execute(r.id)
  /\ overtaken' = (overtaken \/ rows # results)
  /\ IF r.action \notin Parameterized THEN UNCHANGED <<paramVars, forgotten, deaf>>
     ELSE /\ \E m \in Models : Open(r, m)
          /\ deaf' = FALSE
          /\ forgotten' = Forgotten
  /\ UNCHANGED <<user, rows>>

\* executeParametrizedAction and cancelParametrizedAction.
CloseDialog ==
  /\ user = "HudClient"
  /\ Close(<<"commit">>) \/ Close(<<"cancel">>)
  /\ deaf' = FALSE
  /\ UNCHANGED <<storeVars, user, rows, forgotten, overtaken>>

\* The commands of a program, in any order.
Program ==
  /\ user = "program"
  /\ \/ \E c \in ProgramCommands : Send(c)
     \/ Close(<<>>)
  /\ UNCHANGED <<storeVars, clientVars>>

\* base_model_items: the dialog has its model, and modelReady finds it with or
\* without its items.
BaseModelItems ==
  /\ param = "open" /\ model = "none"
  /\ model' \in {"linked", "ready"}
  /\ UNCHANGED <<storeVars, clientVars, param, base, muxer, watching, queue, sent, written, late>>

\* The items of the model, and modelReallyReady.
ModelItems ==
  /\ model = "linked"
  /\ model' = "ready"
  /\ UNCHANGED <<storeVars, clientVars, param, base, muxer, watching, queue, sent, written, late>>

\* modelReady for the dialog that was forgotten, which works on the one that is open
\* now: takes the handler off it, and looks for a model there.
ForgottenModelReady ==
  /\ forgotten = "none"
  /\ forgotten' = "no"
  /\ deaf' = (param = "open" /\ model = "none")
  /\ UNCHANGED <<storeVars, paramVars, user, rows, overtaken>>

\* modelReallyReady for the one that was: takes the handler off the model of the one that
\* is open now, and stays connected.
ForgottenModelItems ==
  /\ forgotten = "linked"
  /\ deaf' = (deaf \/ (param = "open" /\ model = "linked"))
  /\ UNCHANGED <<storeVars, paramVars, user, rows, forgotten, overtaken>>

Dialog ==
  /\ \E a \in ParamActions : ActionAdded(a) \/ ActionRemoved(a)
  /\ UNCHANGED <<storeVars, clientVars>>

Store == StoreNext /\ UNCHANGED <<paramVars, clientVars>>

Next ==
  \/ Store
  \/ RowsArrive \/ \E r \in rows : ExecuteCommand(r)
  \/ CloseDialog \/ Program \/ Dialog
  \/ BaseModelItems \/ ModelItems
  \/ ForgottenModelReady \/ ForgottenModelItems

Spec == Init /\ [][Next]_vars

\* The application answers, in the end, with its menus.
Fairness == WF_vars(BaseModelItems) /\ WF_vars(ModelItems)

FairSpec == Spec /\ Fairness

-----------------------------------------------------------------------------
Results_ == [id : Nat, action : Actions]

TypeOK ==
  /\ menu \in Menus /\ source \in Sources /\ text \in Texts
  /\ DOMAIN items \subseteq Nat /\ \A id \in DOMAIN items : items[id] \in Nat
  /\ results \subseteq Results_ /\ rows \subseteq Results_
  /\ moved \in BOOLEAN /\ crashed \in BOOLEAN
  /\ param \in {"none", "open"} /\ model \in Models
  /\ base \in BaseActions /\ watching \in BOOLEAN /\ late \in BOOLEAN
  /\ DOMAIN muxer \subseteq {"hud"} /\ \A p \in DOMAIN muxer : muxer[p] \subseteq ParamActions
  /\ queue \in Seq(Commands) /\ sent \in Seq(Commands) /\ written \in Seq(Commands)
  /\ param = "none" => NoParam
  /\ param = "open" => DOMAIN muxer = {"hud"}
  /\ user \in {"HudClient", "program"}
  /\ forgotten \in {"no", "none", "linked"} /\ deaf \in BOOLEAN /\ overtaken \in BOOLEAN

\* As long as the client runs only rows of the latest results, no id is unknown to
\* the token: no null Item gets into the store for the next search to trip over
\* (ItemStore.cpp:189, 298).
NullItemsComeFromOldRows ==
  ~overtaken => ~crashed /\ \A id \in DOMAIN items : items[id] # 0

\* A dialog is shown or closed, however late its models come and however often the
\* menus change, unless an earlier one was forgotten before it was shown.
DialogsGetShown ==
  [](forgotten = "no") => (param = "open" ~> (model = "ready" /\ ~deaf) \/ param = "none")
==============================================================================
