----------------------------- MODULE ClientParam -----------------------------
(***************************************************************************)
(* libhud-client's HudClientParam: the dialog of a parameterised action.   *)
(* It tells the application by commands, activations of its base action,   *)
(* that it starts, resets, commits or cancels its values, and ends.  The   *)
(* commands go through a GActionMuxer over the GDBusActionGroup of the     *)
(* application, which may have the action, or not yet, or no longer; those *)
(* written before the action is first seen are queued.                     *)
(*                                                                         *)
(* The muxer has the group under "hud"; a base action with another prefix  *)
(* is never found, and one without a name is never told anything.  Nor is  *)
(* one whose parameter is neither a string nor the (ssav) of such commands.*)
(***************************************************************************)
EXTENDS Naturals, Sequences, ActionMuxer

CONSTANTS
  ParamActions,  \* the actions of the application's group
  Commanded,     \* those of them whose parameter is of type "s" or "(ssav)"
  BaseActions,   \* what base_action may be: full names, or NoBase
  NoBase,        \* NULL
  MaxCommands    \* bound on the commands of a dialog

ASSUME ParamAssumption ==
  /\ Commanded \subseteq ParamActions
  /\ NoBase \in BaseActions
  /\ \A b \in BaseActions \ {NoBase} : b = FullName(b[1], b[2])
  /\ MaxCommands \in Nat

VARIABLES
  param,     \* the dialog is "open", or there is "none"
  base,      \* base_action
  muxer,     \* actions
  watching,  \* action_added is connected
  queue,     \* queued_commands
  sent,      \* the commands the application got
  written,   \* history: the commands promised to a base action that takes them
  late,      \* history: the base action was not there when the dialog was created
  model      \* "none", "linked": param->model without its items, "ready" with them

paramVars == <<param, base, muxer, watching, queue, sent, written, late, model>>

Commands == {"start", "reset", "commit", "cancel", "end"}

NoParam ==
  /\ param = "none" /\ base = NoBase
  /\ muxer = NoGroups /\ watching = FALSE
  /\ queue = <<>> /\ late = FALSE /\ model = "none"

ParamInit == NoParam /\ sent = <<>> /\ written = <<>>

\* What dispose and finalize leave.
Dispose ==
  /\ param' = "none" /\ base' = NoBase
  /\ muxer' = NoGroups /\ watching' = FALSE
  /\ queue' = <<>> /\ late' = FALSE /\ model' = "none"

\* What base_action names is there.
Has(m, b) == b # NoBase /\ HasAction(m, b)

\* Its parameter can carry a command.
Understood(b) == b # NoBase /\ b[2] \in Commanded

\* action_write_state for each of the commands cs: one for an action that does not
\* take it ends in a warning.
Write(cs) ==
  /\ sent' = IF Has(muxer, base) /\ Understood(base) THEN sent \o cs ELSE sent
  /\ queue' = IF ~Has(muxer, base) /\ watching THEN queue \o cs ELSE queue
  /\ written' = IF Understood(base) /\ (Has(muxer, base) \/ watching)
                THEN written \o cs ELSE written

\* hud_client_param_new: the actions the group has already, what there is of the
\* model.  "start" is promised to every base action, and sent to one that is there.
New(b, actions, m) ==
  LET mux == InsertGroup(NoGroups, "hud", actions) IN
  /\ param' = "open" /\ base' = b
  /\ muxer' = mux
  /\ late' = (b # NoBase /\ ~Has(mux, b))
  /\ watching' = late'
  /\ queue' = <<>>
  /\ sent' = IF Has(mux, b) /\ Understood(b) THEN <<"start">> ELSE <<>>
  /\ written' = IF Understood(b) THEN <<"start">> ELSE <<>>
  /\ model' = m

\* send_reset, send_cancel and send_commit.
Send(c) ==
  /\ param = "open"
  /\ Len(sent) + Len(queue) < MaxCommands
  /\ Write(<<c>>)
  /\ UNCHANGED <<param, base, muxer, watching, late, model>>

\* What the application has got when dispose has sent its "end".
SentWith(cs) ==
  IF Has(muxer, base) /\ Understood(base) THEN sent \o Append(cs, "end") ELSE sent

\* Mutation of Close: dispose leaves action_added connected.
CloseKeepsHandler(cs) ==
  /\ param = "open"
  /\ sent' = SentWith(cs) /\ written' = sent'
  /\ param' = "none" /\ base' = NoBase /\ muxer' = NoGroups
  /\ queue' = <<>> /\ late' = FALSE /\ model' = "none" /\ UNCHANGED watching

\* The commands cs, of which "end" by dispose is the last: what is queued is freed.
Close(cs) ==
  /\ param = "open"
  /\ sent' = SentWith(cs) /\ written' = sent'
  /\ Dispose

\* Mutation of ActionAdded: the first action that comes is taken for the base action.
AnyActionAdded(a) ==
  /\ param = "open" /\ a \notin muxer["hud"]
  /\ muxer' = WithAction(muxer, "hud", a)
  /\ watching' = FALSE
  /\ sent' = IF Has(muxer', base) /\ Understood(base) THEN sent \o queue ELSE sent
  /\ queue' = <<>>
  /\ UNCHANGED <<param, base, written, late, model>>

\* The application exports an action, and the group, and so the muxer, gets it.  If
\* it is the base action, action_added takes itself off and writes what is queued.
ActionAdded(a) ==
  LET awaited == watching /\ FullName("hud", a) = base IN
  /\ param = "open" /\ a \notin muxer["hud"]
  /\ muxer' = WithAction(muxer, "hud", a)
  /\ watching' = (watching /\ ~awaited)
  /\ sent' = IF awaited /\ Understood(base) THEN sent \o queue ELSE sent
  /\ queue' = IF awaited THEN <<>> ELSE queue
  /\ UNCHANGED <<param, base, written, late, model>>

\* The application withdraws an action.
ActionRemoved(a) ==
  /\ param = "open" /\ a \in muxer["hud"]
  /\ muxer' = WithoutAction(muxer, "hud", a)
  /\ UNCHANGED <<param, base, watching, queue, sent, written, late, model>>

-----------------------------------------------------------------------------
\* The "start" that nobody sends when the action comes.
NeverSent == IF late THEN <<"start">> ELSE <<>>

\* An action that takes them gets the commands in the order they were promised, each
\* once: what was sent and then what is queued is all of it, except the "start" of an
\* action that came late, and what was written after the action had gone again.  An
\* action of another type gets none, and nothing stays queued once the action has
\* been seen.
CommandsKeepTheirOrder ==
  param = "open" =>
    /\ Understood(base) =>
         NeverSent \o (sent \o queue) = written
    /\ ~Understood(base) => sent = <<>>
    /\ ~watching => queue = <<>>
==============================================================================
