------------------------------- MODULE Clients -------------------------------
(***************************************************************************)
(* The Python clients.  A method of a client is the sequence of steps it   *)
(* takes: mostly one RPC, with what the call does to the engine and what   *)
(* becomes of an error or of an answer without a payload.  Values that are *)
(* only passed through are left out.                                       *)
(***************************************************************************)
EXTENDS Naturals, Sequences, FiniteSets, FiniteSetsExt

CONSTANTS
  Key,      \* texts that name tabs and controls: ref_id, locale_key, name, label
  Match     \* how well the key `query` names another: Match[query][key]

(* The stages at which a query can name a key: as it is, but for case, as  *)
(* a part of it but for case, not at all.                                  *)
Stage == {"exact", "folded", "part", "none"}

ASSUME ClientsAssumption == Match \in [Key -> [Key -> Stage]]

-----------------------------------------------------------------------------
(* Steps.  `error` says what an exception does: it ends the command with a *)
(* traceback or a message, is caught and ends the command quietly, is      *)
(* dropped, returns to the prompt (a status only, or any failure), or asks *)
(* for a two-factor code.  `lacking` says what an answer without a payload *)
(* does.                                                                   *)
Effect == {"none", "read", "write", "list", "act", "press", "release"}
OnError == {"fails", "quiet", "dropped", "prompt", "line", "totp"}
OnLack == {"never", "raises", "shown"}
NoSelector == [by |-> "none", key |-> CHOOSE k \in Key : TRUE, at |-> 0, all |-> FALSE]

Step(do) == [do |-> do, rpc |-> "", effect |-> "none", error |-> "fails",
             lacking |-> "never", selector |-> NoSelector]

Call(rpc, effect) == <<[Step("call") EXCEPT !.rpc = rpc, !.effect = effect]>>
Read(rpc)  == Call(rpc, "read")
Write(rpc) == Call(rpc, "write")
Raise      == <<Step("raise")>>

(* _require_user of the session client and _require_world of the world     *)
(* client: an answer without one raises.                                   *)
WriteFor(rpc) == <<[Write(rpc)[1] EXCEPT !.lacking = "raises"]>>
ReadMaybe(rpc) == <<[Read(rpc)[1] EXCEPT !.lacking = "shown"]>>

(* steps[i].error for every step of a try block.                           *)
Caught(steps, error) == [i \in DOMAIN steps |-> [steps[i] EXCEPT !.error = error]]

-----------------------------------------------------------------------------
(* The clients, each a record of its methods.                              *)

WorldClient ==
  [list_sessions |-> Read("ListSessions"), list_records |-> Read("ListRecords"),
   start_world |-> WriteFor("StartWorld"), list_open_worlds |-> Read("ListOpenWorlds"),
   focus |-> WriteFor("Focus"), leave |-> Write("Leave"),
   get_current |-> ReadMaybe("GetCurrent"), fetch_thumbnail |-> Read("FetchThumbnail")]

(* Exactly one of the two, and an empty one is none.                       *)
Join(session_id, url) ==
  IF (session_id = "given") = (url = "given") THEN Raise ELSE WriteFor("Join")

(* The session client's settings and lists.                                *)
SessionSettings ==
  [get |-> Read("GetSettings"), apply |-> Write("ApplySettings"), list_users |-> Read("ListUsers"),
   list_roles |-> Read("ListRoles"), overrides |-> Read("GetUserRoleOverrides")]

(* And its moderation.                                                     *)
SessionModeration ==
  [kick |-> Write("KickUser"), ban |-> Write("BanUser"), silence |-> WriteFor("SilenceUser"),
   respawn |-> Write("RespawnUser"), role |-> WriteFor("SetUserRole")]

DashClient ==
  [open |-> Write("Open"), close |-> Write("Close"), get_state |-> Read("GetState"),
   list_tabs |-> Call("ListTabs", "list"), set_tab |-> Call("SetTab", "act"),
   list_controls |-> Call("ListControls", "list"), invoke |-> Call("Invoke", "act"),
   scroll |-> Call("Scroll", "act"), highlight |-> Call("Highlight", "act")]

DisplayClient == [apply |-> Write("Apply"), get |-> Read("Get")]

CursorClient ==
  [set_position |-> Write("SetPosition"), get_position |-> Read("GetPosition"),
   release |-> Write("Release")]

ContextMenuClient ==
  [open |-> Write("Open"), close |-> Write("Close"), get_state |-> Read("GetState"),
   highlight |-> Write("Highlight"), invoke |-> Write("Invoke")]

ContactClient ==
  [list_contacts |-> Read("ListContacts"), get_contact |-> ReadMaybe("GetContact"),
   search_users |-> Read("SearchUsers"), add_contact |-> Write("AddContact"),
   accept_request |-> Write("AcceptRequest"), remove_contact |-> Write("RemoveContact")]

(* A click is a press and a release.                                       *)
GrabberClient ==
  [grab |-> Write("Grab"), release |-> Write("Release"), get_state |-> Read("GetState"),
   use |-> Call("Use", "press"), unuse |-> Call("Unuse", "release"),
   click |-> Call("Use", "press") \o Call("Unuse", "release"),
   equip |-> Write("Equip"), dequip |-> Write("Dequip")]

AuthClient == [login |-> Write("Login"), logout |-> Write("Logout"), status |-> Read("Status")]

InventoryClient ==
  [list |-> Read("List"), mkdir |-> Write("MakeDir"), copy |-> Write("Copy"),
   move |-> Write("Move"), remove |-> Write("Remove"), spawn |-> Write("Spawn"),
   fetch_thumbnail |-> Read("FetchThumbnail")]

(* The first frame of a stream; a stream without one raises.               *)
CameraClient == [shot |-> <<[Read("StreamFrames")[1] EXCEPT !.lacking = "raises"]>>]

ConnectionClient == [ping |-> Read("Ping")]
LifecycleClient == [shutdown |-> Write("Shutdown")]

-----------------------------------------------------------------------------
(* dash.py _resolve_one over items with several keys each.                 *)

NoItem == [ref |-> 0, keys |-> {}, enabled |-> FALSE]

(* The positions of the items that the query names at one of the stages.   *)
Named(items, query, stages) ==
  {i \in DOMAIN items : \E key \in items[i].keys : Match[query][key] \in stages}

ResolveOne(items, query) ==
  LET exact  == Named(items, query, {"exact"})
      folded == Named(items, query, {"exact", "folded"})
      part   == Named(items, query, {"exact", "folded", "part"})
  IN IF exact # {} THEN items[Min(exact)]
     ELSE IF Cardinality(folded) = 1 THEN items[Min(folded)]
     ELSE IF Cardinality(part) = 1 THEN items[Min(part)]
     ELSE NoItem
=============================================================================
