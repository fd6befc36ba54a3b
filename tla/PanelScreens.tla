------------------------------ MODULE PanelScreens ------------------------------
(***************************************************************************)
(* The panel's keyboards: a screen is the set of callbacks its buttons     *)
(* carry.  Texts, labels and the layout of the rows are left out.          *)
(***************************************************************************)
EXTENDS Integers, Sequences

CONSTANTS
    User,
    Operator,       \* ADMIN_IDS
    Chat,           \* Telegram channels; a row's id stands for its chat
    Hour, Minute,   \* what the pickers offer: 0..23, MINUTE_OPTIONS
    Time,           \* times of day, written <<hour, minute>>
    Batch,          \* BATCH_SIZE_OPTIONS
    Lang,           \* SUPPORTED_LANGUAGES
    Website         \* WEB_SOURCES

Count == 1..3

ASSUME ScreenAssumption ==
    /\ Operator \subseteq User
    /\ Hour \X Minute \subseteq Time

Button(cb, arg) == [cb |-> cb, arg |-> arg]
Plain(cb) == Button(cb, 0)
Buttons(names) == {Plain(cb) : cb \in names}

Toggle(paused) == IF paused THEN {"sc:resume"} ELSE {"sc:pause"}

(* Every button the bot sends. *)
Key ==
    Buttons({"menu", "ch", "ch:add", "sc", "sc:edit", "sc:batch", "sc:wk", "sc:undo",
             "sc:pause", "sc:resume", "st", "st:rf", "sn", "sn:ok", "se", "se:ui", "se:cl",
             "im", "im:file", "im:up", "bk", "bk:new", "lg", "lg:all", "lg:err", "lg:dl"})
    \cup {Button("ch:rm", c) : c \in Chat} \cup {Button("sc:count", n) : n \in Count}
    \cup {Button("sc:h", h) : h \in Hour} \cup {Button("sc:m", m) : m \in Minute}
    \cup {Button("sc:batch:set", n) : n \in Batch} \cup {Button("im:web", w) : w \in Website}
    \cup {Button("lang:ui", l) : l \in Lang} \cup {Button("lang:content", l) : l \in Lang}

(* Installation-wide features are left out for ordinary users. *)
MainMenu(u, paused) ==
    Buttons({"ch", "sc", "st", "sn", "se"} \cup Toggle(paused)
            \cup (IF u \in Operator THEN {"im", "bk", "lg"} ELSE {}))

Back(target) == {Plain(target)}
ChannelList(chats) == Buttons({"ch:add", "menu"}) \cup {Button("ch:rm", c) : c \in chats}
SchedulerKeys(paused) == Buttons({"sc:edit", "sc:batch", "sc:wk", "menu"} \cup Toggle(paused))
CountKeys == {Button("sc:count", n) : n \in Count} \cup Back("sc")
HourKeys(picked) ==
    {Button("sc:h", h) : h \in Hour}
    \cup Buttons(IF picked = <<>> THEN {"sc"} ELSE {"sc:undo", "sc"})
MinuteKeys == {Button("sc:m", m) : m \in Minute} \cup Back("sc:undo")
BatchKeys == {Button("sc:batch:set", n) : n \in Batch} \cup Back("sc")
ConfirmKeys == Buttons({"sn:ok", "menu"})
StatsKeys == Buttons({"st:rf", "menu"})
LanguageKeys(prefix) == {Button(prefix, l) : l \in Lang}
SettingsKeys == Buttons({"se:ui", "se:cl", "sc:batch", "sc:wk", "menu"})
ImportKeys == {Button("im:web", w) : w \in Website} \cup Buttons({"im:file", "im:up", "menu"})
BackupKeys == Buttons({"bk:new", "menu"})
LogKeys == Buttons({"lg:all", "lg:err", "lg:dl", "menu"})

(* Callbacks behind the operator gate. *)
OperatorOnly == {"im", "im:file", "im:web", "im:up", "bk", "bk:new",
                 "lg", "lg:all", "lg:err", "lg:dl"}

(* Panels that only show something, with the keyboard they put up. *)
Panels ==
    [cb \in {"sc:edit", "sc:batch", "ch:add", "st", "st:rf", "sn", "sn:ok", "se", "se:ui",
             "se:cl", "im", "im:up", "im:file", "im:web", "bk", "bk:new", "lg", "lg:all",
             "lg:err"} |->
        CASE cb = "sc:edit" -> CountKeys
          [] cb = "sc:batch" -> BatchKeys
          [] cb = "ch:add" -> Back("ch")
          [] cb \in {"st", "st:rf"} -> StatsKeys
          [] cb = "sn" -> ConfirmKeys
          [] cb = "se" -> SettingsKeys
          [] cb = "se:ui" -> LanguageKeys("lang:ui")
          [] cb = "se:cl" -> LanguageKeys("lang:content")
          [] cb = "im" -> ImportKeys
          [] cb = "im:up" -> Back("im")
          [] cb = "bk" -> BackupKeys
          [] cb \in {"lg", "lg:all", "lg:err"} -> LogKeys
          [] cb \in {"im:file", "im:web"} -> Back("im")
          [] cb \in {"sn:ok", "bk:new"} -> Back("menu")]
================================================================================
