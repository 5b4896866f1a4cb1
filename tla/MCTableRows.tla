---------------------------- MODULE MCTableRows -----------------------------
(***************************************************************************)
(* A member who reads while his role is changed, is removed and comes      *)
(* back; a message edited twice, read and removed; a chat and a user whose *)
(* fields are changed by two requests each.                                *)
(***************************************************************************)
EXTENDS TableRows

CONSTANTS member, message, chat, user, none, noTx

Do(id, kind, row, sets) == [id |-> id, kind |-> kind, row |-> row, sets |-> sets]

MCColumns == UNION {UNION Settable[k] : k \in DOMAIN Settable}

MCRequests ==
  {Do(1, "mark_as_read", member, {"last_read_message_id"}),
   Do(2, "update_member_role", member, {"role"}),
   Do(3, "remove_unread", member, {}),
   Do(4, "add_member", member, {"role", "chat_type"}),
   Do(5, "edit", message, {"text", "edited_at"}),
   Do(6, "edit", message, {"text", "edited_at"}),
   Do(7, "get", message, {}),
   Do(8, "update_info", chat, {"name"}),
   Do(9, "update_info", chat, {"name", "description"}),
   Do(10, "update_profile", user, {"display_name"}),
   Do(11, "update_profile", user, {}),
   Do(12, "remove", message, {})}

(* Rows do not interfere: the requests to one of them are made together *)
MCScenarios == {{q \in MCRequests : q.row = r} : r \in Rows}
=============================================================================
