----------------------------- MODULE ActionMuxer -----------------------------
(***************************************************************************)
(* libhud-client's GActionMuxer: it shows the actions of several groups as *)
(* one, the action "a" of the group under the prefix "p" as "p.a".         *)
(*                                                                         *)
(* A muxer is a function from the prefixes in use to the groups under      *)
(* them, a group the set of its actions, and a full name the pair of both. *)
(* The group without a prefix, which the library never inserts, is left    *)
(* out, and so are the states of actions.                                  *)
(***************************************************************************)

\* g_action_muxer_init, and what dispose leaves.
NoGroups == [prefix \in {} |-> {}]

\* g_action_muxer_lookup_full_name.
FullName(prefix, a) == <<prefix, a>>

\* g_action_muxer_lookup_group: the group a full name leads to, or none.
LookupGroup(muxer, name) == {muxer[prefix] : prefix \in DOMAIN muxer \cap {name[1]}}

\* g_action_muxer_query_action.
HasAction(muxer, name) == \E group \in LookupGroup(muxer, name) : name[2] \in group

\* g_action_muxer_remove.
RemoveGroup(muxer, prefix) == [p \in DOMAIN muxer \ {prefix} |-> muxer[p]]

\* g_action_muxer_insert: in the place of the group that had the prefix.
InsertGroup(muxer, prefix, group) ==
  LET rest == RemoveGroup(muxer, prefix) IN
  [p \in DOMAIN rest \cup {prefix} |-> IF p = prefix THEN group ELSE rest[p]]

\* The group under a prefix gets, or loses, an action.
WithAction(muxer, prefix, a) == [muxer EXCEPT ![prefix] = @ \cup {a}]
WithoutAction(muxer, prefix, a) == [muxer EXCEPT ![prefix] = @ \ {a}]
==============================================================================
