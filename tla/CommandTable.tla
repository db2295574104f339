---------------------------- MODULE CommandTable ----------------------------
(***************************************************************************)
(* The subcommands of the resoio command line: what each refuses on its    *)
(* own, the steps it takes and when it prints.  A command is its words, its*)
(* output format and its steps; arguments appear only where they decide    *)
(* something, as one command for each combination the parser lets through. *)
(***************************************************************************)
EXTENDS Clients

Format == {"human", "json"}

Command(words, fmt, steps) == [words |-> words, fmt |-> fmt, steps |-> steps]

Refuse == <<Step("refuse")>>     \* a message, and exit code 2
Emit   == <<Step("print")>>      \* the result on stdout
Show   == <<Step("show")>>       \* the result, or a remark on stderr if there is none

(* async with Client(args.socket): the calls.                              *)
Within(calls) == <<Step("open")>> \o calls \o <<Step("close")>>

(* The way of most commands: one call, and its result.                     *)
Simple(call) == Within(call) \o Emit
IfJson(fmt, steps) == IF fmt = "json" THEN steps ELSE <<>>

(* An option that may be absent, given empty or given a value.             *)
Option == {"absent", "empty", "given"}

-----------------------------------------------------------------------------
(* world                                                                   *)

RunSessions == Simple(WorldClient.list_sessions)
RunRecords  == Simple(WorldClient.list_records)

(* The image goes to stdout or to a file whose path is printed.            *)
RunThumbnail(output) ==
  Within(WorldClient.fetch_thumbnail) \o (IF output = "-" THEN <<>> ELSE <<Step("file")>>) \o Emit

RunJoin(session_id, url) == Simple(Join(session_id, url))
RunStart    == Simple(WorldClient.start_world)
RunList     == Simple(WorldClient.list_open_worlds)
RunFocus    == Simple(WorldClient.focus)

(* Mutant: printed before the call is answered.                            *)
RunLeaveEarly(fmt) == Within(IfJson(fmt, Emit) \o WorldClient.leave)

RunLeave(fmt) == Within(WorldClient.leave) \o IfJson(fmt, Emit)
RunCurrent(fmt) == Within(WorldClient.get_current) \o (IF fmt = "json" THEN Emit ELSE Show)

(* sessions, records and thumbnail, which has no --format.                 *)
WorldBrowse(fmt) ==
  {Command(<<"world", "sessions">>, fmt, RunSessions),
   Command(<<"world", "records">>, fmt, RunRecords)}
  \cup {Command(<<"world", "thumbnail">>, "human", RunThumbnail(o)) : o \in {"-", "path"}}

(* --session-id and --url exclude each other and one of them is required.  *)
WorldManage(fmt) ==
  {Command(<<"world", "join">>, fmt, RunJoin(o[1], o[2])) :
     o \in {p \in Option \X Option : (p[1] = "absent") # (p[2] = "absent")}}
  \cup {Command(<<"world", "start">>, fmt, RunStart), Command(<<"world", "list">>, fmt, RunList),
        Command(<<"world", "focus">>, fmt, RunFocus), Command(<<"world", "leave">>, fmt, RunLeave(fmt)),
        Command(<<"world", "current">>, fmt, RunCurrent(fmt))}

WorldCommands(fmt) == WorldBrowse(fmt) \cup WorldManage(fmt)

-----------------------------------------------------------------------------
(* session                                                                 *)

RunSettingsGet == Simple(SessionSettings.get)

(* Mutant: that nothing was asked for is noticed too late.                 *)
RunSettingsSetLate(flags) ==
  Within(SessionSettings.apply \o (IF flags = 0 THEN Refuse ELSE SessionSettings.get)) \o Emit

(* No flag at all is a parser error; what follows the change is a reading  *)
(* that may lag.                                                           *)
RunSettingsSet(flags) ==
  IF flags = 0 THEN Refuse ELSE Simple(SessionSettings.apply \o SessionSettings.get)

RunUsersList     == Simple(SessionSettings.list_users)
RunUserKick      == Within(SessionModeration.kick)
RunUserBan       == Within(SessionModeration.ban)
RunUserSilence   == Simple(SessionModeration.silence)
RunUserRespawn   == Within(SessionModeration.respawn)
RunUserRole      == Simple(SessionModeration.role)
RunRolesList     == Simple(SessionSettings.list_roles)
RunOverridesList == Simple(SessionSettings.overrides)

SettingsCommands(fmt) ==
  {Command(<<"session", "settings", "get">>, fmt, RunSettingsGet)}
  \cup {Command(<<"session", "settings", "set">>, fmt, RunSettingsSet(n)) : n \in 0 .. 1}

(* kick, ban and respawn print nothing and have no --format.               *)
UserCommands(fmt) ==
  {Command(<<"session", "user", "kick">>, "human", RunUserKick),
   Command(<<"session", "user", "ban">>, "human", RunUserBan),
   Command(<<"session", "user", "silence">>, fmt, RunUserSilence),
   Command(<<"session", "user", "respawn">>, "human", RunUserRespawn),
   Command(<<"session", "user", "role">>, fmt, RunUserRole)}

RoleCommands(fmt) ==
  {Command(<<"session", "roles", "list">>, fmt, RunRolesList),
   Command(<<"session", "overrides", "list">>, fmt, RunOverridesList)}

SessionCommands(fmt) ==
  SettingsCommands(fmt) \cup UserCommands(fmt) \cup RoleCommands(fmt)
  \cup {Command(<<"session", "users", "list">>, fmt, RunUsersList)}

-----------------------------------------------------------------------------
(* dash                                                                    *)

(* A selector is an index into the listing, from 0, or a text.             *)
ByIndex(n) == [NoSelector EXCEPT !.by = "index", !.at = n]
ByKey(key) == [NoSelector EXCEPT !.by = "key", !.key = key]
Selectors  == {ByIndex(n) : n \in 0 .. 2} \cup {ByKey(key) : key \in Key}

(* _resolve_selector: the item, or NoItem.                                 *)
ResolveSelector(items, selector) ==
  IF selector.by = "index"
  THEN IF selector.at < Len(items) THEN items[selector.at + 1] ELSE NoItem
  ELSE ResolveOne(items, selector.key)

Listing(call, all) == <<[call[1] EXCEPT !.selector.all = all]>>
Choose(selector) == <<[Step("choose") EXCEPT !.selector = selector]>>

RunSummary == Simple(DashClient.get_state \o DashClient.list_tabs
                     \o Listing(DashClient.list_controls, FALSE))
RunOpen    == Simple(DashClient.open)
RunClose   == Simple(DashClient.close)
RunState   == Simple(DashClient.get_state)
RunTabs    == Simple(DashClient.list_tabs)
RunTab(selector) == Simple(DashClient.list_tabs \o Choose(selector) \o DashClient.set_tab)

(* The listing that `ls` prints is numbered.                               *)
RunLs(all) == Within(Listing(DashClient.list_controls, all)) \o <<Step("number")>> \o Emit

(* Mutant: the disabled controls are counted too.                          *)
RunControlActionAll(action, selector) ==
  Simple(Listing(DashClient.list_controls, TRUE) \o Choose(selector) \o action)

(* The enabled controls are listed, one is chosen, and acted on by its     *)
(* ref_id.                                                                 *)
RunControlAction(action, selector) ==
  Simple(Listing(DashClient.list_controls, FALSE) \o Choose(selector) \o action)

DashCommands(fmt) ==
  {Command(<<"dash">>, fmt, RunSummary), Command(<<"dash", "open">>, fmt, RunOpen),
   Command(<<"dash", "close">>, fmt, RunClose), Command(<<"dash", "state">>, fmt, RunState),
   Command(<<"dash", "tabs">>, fmt, RunTabs)}
  \cup {Command(<<"dash", "ls">>, fmt, RunLs(all)) : all \in BOOLEAN}
  \cup {Command(<<"dash", "tab">>, fmt, RunTab(s)) : s \in Selectors}
  \cup {Command(<<"dash", verb>>, fmt, RunControlAction(DashClient[verb], s)) :
          verb \in {"invoke", "scroll", "highlight"}, s \in Selectors}

-----------------------------------------------------------------------------
(* display, cursor and context-menu                                        *)

RunDisplayGet == Simple(DisplayClient.get)

(* Without a spec and without a flag it is a parser error.                 *)
RunDisplaySet(fields) ==
  IF fields = {} THEN Refuse ELSE Simple(DisplayClient.apply \o DisplayClient.get)

(* _parse_spec refuses a malformed spec before the command runs.           *)
DisplaySetSpecs == {"none", "malformed"} \cup {"resolution", "resolution@fps"}

DisplayCommands(fmt) ==
  {Command(<<"display", "get">>, fmt, RunDisplayGet)}
  \cup {Command(<<"display", "set">>, fmt,
          IF spec = "malformed" THEN Refuse
          ELSE RunDisplaySet(flags \cup ({spec} \ {"none"}))) :
        spec \in DisplaySetSpecs, flags \in {{}, {"max_fps"}}}

(* Outside the unit square it is refused here already.                     *)
RunCursorSet(inside) == IF inside THEN Simple(CursorClient.set_position) ELSE Refuse
RunCursorCenter == Simple(CursorClient.set_position)

CursorCommands(fmt) ==
  {Command(<<"cursor", "set">>, fmt, RunCursorSet(b)) : b \in BOOLEAN}
  \cup {Command(<<"cursor", "center">>, fmt, RunCursorCenter),
        Command(<<"cursor", "get">>, fmt, Simple(CursorClient.get_position)),
        Command(<<"cursor", "release">>, fmt, Simple(CursorClient.release))}

(* _check_index: a negative index is refused; the rest is for the server.  *)
RunIndexed(call, index) == IF index < 0 THEN Refuse ELSE Simple(call)

ContextMenuCommands(fmt) ==
  {Command(<<"context-menu", "open">>, fmt, Simple(ContextMenuClient.open)),
   Command(<<"context-menu", "close">>, fmt, Simple(ContextMenuClient.close)),
   Command(<<"context-menu", "list">>, fmt, Simple(ContextMenuClient.get_state))}
  \cup {Command(<<"context-menu", verb>>, fmt, RunIndexed(ContextMenuClient[verb], i)) :
          verb \in {"highlight", "invoke"}, i \in {0 - 1, 0}}

-----------------------------------------------------------------------------
(* contact and auth                                                        *)

RunContactGet(fmt) == Within(ContactClient.get_contact) \o (IF fmt = "json" THEN Emit ELSE Show)
RunContactRemove(fmt) == Within(ContactClient.remove_contact) \o IfJson(fmt, Emit)

ContactCommands(fmt) ==
  {Command(<<"contact", "list">>, fmt, Simple(ContactClient.list_contacts)),
   Command(<<"contact", "get">>, fmt, RunContactGet(fmt)),
   Command(<<"contact", "search">>, fmt, Simple(ContactClient.search_users)),
   Command(<<"contact", "add">>, fmt, Simple(ContactClient.add_contact)),
   Command(<<"contact", "accept">>, fmt, Simple(ContactClient.accept_request)),
   Command(<<"contact", "remove">>, fmt, RunContactRemove(fmt))}

(* Where credential and password come from: the positional or a prompt on  *)
(* a terminal; without either there is none.                               *)
HasCredential(positional, tty) == positional \/ tty

(* On a terminal a missing two-factor code is asked for and the call made  *)
(* once more; that it asks is the call's `error`.                          *)
RunLogin(positional, tty, totp) ==
  IF ~HasCredential(positional, tty) THEN Refuse
  ELSE Simple(IF tty /\ ~totp THEN Caught(AuthClient.login, "totp") ELSE AuthClient.login)

AuthCommands(fmt) ==
  {Command(<<"auth", "login">>, fmt, RunLogin(positional, tty, totp)) :
     positional \in BOOLEAN, tty \in BOOLEAN, totp \in BOOLEAN}
  \cup {Command(<<"auth", "logout">>, fmt, Simple(AuthClient.logout)),
        Command(<<"auth", "status">>, fmt, Simple(AuthClient.status))}

-----------------------------------------------------------------------------
(* grabber and inventory                                                   *)

(* grab alone prints while the channel is open.                            *)
RunGrabber(action) ==
  IF action = "grab" THEN Within(GrabberClient.grab \o Emit)
  ELSE Simple(GrabberClient[IF action = "state" THEN "get_state" ELSE action])

(* A prompt: one line or key after the other until the end of the input.   *)
Prompt(menu) == <<[Step("prompt") EXCEPT !.rpc = menu]>>

RunInteractive(fmt) == IF fmt = "json" THEN Refuse ELSE Within(Prompt("grabber"))

(* The keys; others are skipped.                                           *)
GrabberKeys ==
  {GrabberClient[m] \o Emit :
     m \in {"grab", "release", "get_state", "use", "unuse", "click", "equip", "dequip"}}

GrabberCommands(fmt) ==
  {Command(<<"grabber">>, fmt, RunGrabber(action)) :
     action \in {"grab", "release", "state", "use", "unuse", "click", "equip", "dequip"}}
  \cup {Command(<<"grabber">>, fmt, RunInteractive(fmt))}

(* The lines of the inventory shell that call the server; an RPC's error   *)
(* is printed and the next line asked for.                                 *)
InventoryLines ==
  {Caught(InventoryClient[m], "prompt") : m \in {"mkdir", "copy", "move", "remove"}}
  \cup {Caught(InventoryClient[m] \o Emit, "prompt") : m \in {"list", "spawn"}}
  \cup {Caught(InventoryClient.list, "prompt")}

(* thumb writes a file.                                                    *)
ThumbLine == Caught(InventoryClient.fetch_thumbnail \o <<Step("file")>> \o Emit, "prompt")

(* Completion lists a directory and shows nothing when that fails.         *)
CompletePath == Caught(InventoryClient.list, "line")

RunInventory == Within(Prompt("inventory"))
InventoryCommands == {Command(<<"inventory">>, "human", RunInventory)}

Menu(menu) ==
  IF menu = "grabber" THEN GrabberKeys ELSE InventoryLines \cup {ThumbLine, CompletePath}

-----------------------------------------------------------------------------
(* screenshot: PNG only; to stdout, or to a file whose path is printed.    *)

RunScreenshot(output) ==
  CASE output = "other" -> Refuse
    [] output = "-"     -> Simple(CameraClient.shot)
    [] output = "path"  -> Within(CameraClient.shot) \o <<Step("file")>> \o Emit

ScreenshotCommands ==
  {Command(<<"screenshot">>, "human", RunScreenshot(o)) : o \in {"-", "path", "other"}}

-----------------------------------------------------------------------------
(* ping, wait, info and shutdown                                           *)

(* Lines as the answers come; a document at the end.                       *)
RunPing(fmt, count) ==
  LET one == ConnectionClient.ping \o (IF fmt = "json" THEN <<>> ELSE Emit)
  IN CASE count = 0 -> Within(<<>>) \o IfJson(fmt, Emit)
       [] count = 1 -> Within(one) \o IfJson(fmt, Emit)
       [] count = 2 -> Within(one \o one) \o IfJson(fmt, Emit)

(* A pid names the socket; a pid and -s are one too many.                  *)
RunWait(pid, socket) == IF pid /\ socket THEN Refuse ELSE <<Step("await")>> \o Emit

(* get_server_info has a channel of its own and makes no version probe.    *)
GetServerInfo == <<Step("connect")>> \o Read("GetServerInfo") \o <<Step("close")>>

RunInfo == GetServerInfo \o Emit

(* lifecycle.shutdown: whatever goes wrong before the PID is known reads   *)
(* as "not running", whatever goes wrong later is dropped.                 *)
Shutdown == Caught(GetServerInfo, "quiet") \o Caught(Within(LifecycleClient.shutdown), "dropped")

RunShutdown == Shutdown \o Emit

PingCommands(fmt) == {Command(<<"ping">>, fmt, RunPing(fmt, n)) : n \in 0 .. 2}
WaitCommands == {Command(<<"wait">>, "human", RunWait(pid, socket)) :
                   pid \in BOOLEAN, socket \in BOOLEAN}
InfoCommands(fmt) == {Command(<<"info">>, fmt, RunInfo)}
ShutdownCommands == {Command(<<"shutdown">>, "human", RunShutdown)}

-----------------------------------------------------------------------------
(* launch, terminate and terminate-all: the launcher works on the process  *)
(* table, and a LauncherError is a message and exit code 1.                *)

RunLaunch == <<Step("host")>> \o Emit
RunTerminate(resonite_pid, renderer_pid) ==
  IF resonite_pid # renderer_pid THEN Refuse ELSE <<Step("host")>> \o Emit
RunTerminateAll == <<Step("host")>> \o Emit

HostCommands(fmt) ==
  {Command(<<"launch">>, fmt, RunLaunch), Command(<<"terminate-all">>, fmt, RunTerminateAll)}
  \cup {Command(<<"terminate">>, "human", RunTerminate(a, b)) : a \in BOOLEAN, b \in BOOLEAN}

(* _COMMAND_MODULES, but for the commands that stream.                     *)
CommandModules(fmt) ==
  UNION {WorldCommands(fmt), SessionCommands(fmt), DashCommands(fmt), DisplayCommands(fmt),
         CursorCommands(fmt), ContextMenuCommands(fmt), ContactCommands(fmt), AuthCommands(fmt),
         GrabberCommands(fmt), InventoryCommands, PingCommands(fmt), WaitCommands,
         InfoCommands(fmt), ShutdownCommands, HostCommands(fmt), ScreenshotCommands}
=============================================================================
