--------------------------- MODULE MCChatMessages ---------------------------
(***************************************************************************)
(* ann, bob and cat are members of a room, dan is not yet; cat is offline. *)
(***************************************************************************)
EXTENDS ChatMessages

CONSTANTS ann, bob, cat, dan, room

MCMembers == [c \in Chats |-> {ann, bob, cat}]

Ask(kind, by, type, shape, about, forwards, tokens, names) ==
  [kind |-> kind, by |-> by, chat |-> room, type |-> type, shape |-> shape,
   about |-> about, forwards |-> forwards, tokens |-> tokens, files |-> names]

Say(u) == Ask("send", u, "text", "ok", 0, FALSE, <<>>, <<>>)
Forward(u) == Ask("send", u, "text", "ok", 0, TRUE, <<>>, <<>>)
Attach(u, type, tokens) == Ask("send", u, type, "ok", 0, FALSE, tokens, <<>>)
Links(u, type, names) == Ask("links", u, type, "ok", 0, FALSE, <<>>, names)
Get(kind, u, about) == Ask(kind, u, "text", "ok", about, FALSE, <<>>, <<>>)
Bad(kind, u, shape) == Ask(kind, u, "text", shape, 0, FALSE, <<>>, <<>>)

Bodies == <<
  (* 1..7: two senders, a reader who fetches, one who is told *)
  Say(ann), Say(bob), Say(ann), Get("page", cat, 0), Get("read", cat, 0),
  Get("read", ann, 0), Get("preview", cat, 0),
  (* 8..12: links, attachments, forwards, a reply *)
  Links(ann, "media", <<".png", ".mp4">>), Attach(ann, "media", <<8, 8>>),
  Forward(ann), Forward(bob), Ask("send", bob, "text", "ok", 1, FALSE, <<>>, <<>>),
  (* 13..: refused or single requests *)
  Attach(bob, "voice", <<8>>), Links(ann, "media", <<".pdf">>),
  Links(ann, "voice", <<".ogg", ".ogg">>), Say(dan), Bad("send", ann, "no_json"),
  Bad("send", ann, "invalid_field"), Get("by_id", bob, 1), Get("by_id", dan, 1),
  Get("by_id", bob, 2), Get("page", bob, 3), Get("leave", bob, 0),
  Get("preview", dan, 0), Get("read", bob, 0),
  (* 26..: dan is added, tells and reads; bob is added again *)
  Get("add", dan, 0), Get("read", dan, 0), Get("page", dan, 0), Get("add", bob, 0)>>

MCBody == Bodies  \* TLC evaluates Bodies once, but MCBody whenever Body is used

MCRequests == DOMAIN Bodies

Bounds(asked, overlap, faults_, crashes_) ==
  [asked |-> asked, overlap |-> overlap, faults |-> faults_,
   crashes |-> crashes_]

MCScenarios ==
  {Bounds({1, 2, 4, 5}, 3, 0, 0),        \* a page read between two commits
   Bounds({1, 2, 3, 4, 5}, 2, 0, 0),
   Bounds({1, 4, 5, 7}, 2, 0, 0),
   Bounds({1, 2, 7}, 3, 0, 0),           \* a preview meanwhile
   Bounds({1, 2, 3, 6}, 2, 0, 0),        \* the mark of a sender
   Bounds({2, 10, 11}, 3, 0, 0),         \* forwards and the pool
   Bounds({1, 2, 23, 25}, 3, 0, 0),      \* a member leaves
   Bounds({1, 2, 26, 27}, 3, 0, 0),      \* a member is added
   Bounds({1, 26, 27, 28}, 3, 0, 0),
   Bounds({1, 23, 25, 29}, 2, 1, 0),     \* and one leaves and comes back
   Bounds({8, 9, 1}, 2, 1, 1),           \* attachments, faults and stops
   Bounds({1, 8, 9, 12}, 2, 0, 0),
   Bounds({1, 10, 12}, 2, 1, 0),
   Bounds({1, 3, 6}, 1, 2, 1),           \* an error after the commit
   Bounds({1, 8, 13, 14, 15, 16, 17, 18}, 1, 0, 0),
   Bounds({1, 3, 19, 20, 21, 22, 24}, 1, 0, 0)}
=============================================================================
