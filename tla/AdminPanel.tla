------------------------------- MODULE AdminPanel -------------------------------
(***************************************************************************)
(* Updates of several users going through the dispatcher.                  *)
(*                                                                         *)
(* Every update is a task of its own: a database session is opened, the    *)
(* user's row is touched - which keeps the other updates of that user      *)
(* waiting until the session ends -, then come the handler's filters, the  *)
(* throttle, the operator gate and the handler, and at last the commit.    *)
(* What a handler does up to its next wait for something shared is one     *)
(* step.  Conversations (aiogram's MemoryStorage) live in the process and  *)
(* know no rollback.                                                       *)
(*                                                                         *)
(* Publishing, importing, backups and the log file are other components;   *)
(* here their handlers only answer.  Chats are private.                    *)
(***************************************************************************)
EXTENDS PanelScreens, FiniteSets

CONSTANTS
    Places,         \* bound: updates in flight
    Msg,            \* messages with a keyboard within a user's reach
    Starts,         \* bound: what a start may find, and what users press and type then:
                    \* [known, chan, screen, taps, texts, most]; taps are callbacks, a
                    \* text is a Button whose cb is a command or a kind of text, and
                    \* most bounds the updates received
    DefaultLang,    \* default_language
    NoUser, NoHour,
    MaxRestarts     \* bound: process restarts

ChannelRow == [owner : User \cup {NoUser}, active : BOOLEAN]

ASSUME PanelAssumption ==
    /\ NoUser \notin User /\ NoHour \notin Hour
    /\ DefaultLang \in Lang /\ 1 \in Batch /\ MaxRestarts \in Nat

(* A keyboard in a chat is one the bot has sent; typed times and names are
   what _parse_times and extract_identifier make of a text. *)
ASSUME StartAssumption ==
    \A s \in Starts :
        /\ s.known \subseteq User /\ s.chan \in [Chat -> ChannelRow]
        /\ s.screen \in [User -> [Msg -> SUBSET Key]] /\ s.most \in Nat
        /\ \A t \in s.texts : /\ t.cb = "times" => t.arg \in Seq(Time)
                              /\ t.cb = "name" => t.arg \in Chat

Slot == 1..Places

VARIABLES
    known,      \* users with a row in bot_users
    slots,      \* per user: times of schedule_slots
    prefs,      \* per user: settings, and the language of bot_users
    chan,       \* per chat: its row in channels
    fsm,        \* per user: conversation state and data
    recent,     \* users with an accepted update; how long ago is left open
    screen,     \* per user and message: the keyboard it carries
    upd,        \* updates in flight
    spinning,   \* callbacks whose press ended without an answer
    arrivals, restarts,
    reach       \* what this behaviour's users press and type

dbVars == <<known, slots, prefs, chan>>
scope == <<arrivals, restarts, reach>>
vars == <<dbVars, fsm, recent, screen, upd, spinning, scope>>

NoFlow == [state |-> "none", expected |-> 0, picked |-> <<>>, hour |-> NoHour]
NoChannel == [owner |-> NoUser, active |-> FALSE]
NoWrite == [what |-> "nothing"]
NoReply == {}

(* event: what was pressed or typed; on: the message pressed; raw: the
   conversation's state on arrival; new: the lookup found no row; writes: what
   the open transaction holds besides the touch; reply: the keyboard the answer
   carries. *)
NoUpdate == [pc |-> "none", user |-> NoUser, event |-> Plain("none"), press |-> FALSE,
             on |-> 0, raw |-> "none", new |-> FALSE, answered |-> FALSE, writes |-> NoWrite,
             reply |-> NoReply]

U(i) == upd[i].user
Event(i) == upd[i].event

(* The user's row is written and the transaction open. *)
InSession == {"verify", "insert", "save", "reply"}
Waiting(i) == \E j \in Slot \ {i} : U(j) = U(i) /\ upd[j].pc \in InSession

OwnChats(u) == {c \in Chat : chan[c].owner = u /\ chan[c].active}

Init ==
    /\ \E s \in Starts : /\ known = s.known /\ chan = s.chan /\ screen = s.screen
                         /\ reach = [taps |-> s.taps, texts |-> s.texts, most |-> s.most]
    /\ slots = [u \in User |-> {}]
    /\ prefs = [u \in User |-> [paused |-> FALSE, skip |-> FALSE, batch |-> 1,
                                content |-> DefaultLang, ui |-> DefaultLang]]
    /\ fsm = [u \in User |-> NoFlow]
    /\ recent = {} /\ spinning = {}
    /\ upd = [i \in Slot |-> NoUpdate]
    /\ arrivals = 0 /\ restarts = 0

--------------------------------------------------------------------------------
(* Users.  On arrival aiogram reads the state of the conversation, by which it
   will route the update however long that waits, and the update's first
   statement looks its user up. *)

Arrive(u, press, event, m) ==
    /\ arrivals < reach.most /\ arrivals' = arrivals + 1
    /\ \E i \in Slot :
          /\ upd[i].pc = "none" /\ \A j \in Slot : j < i => upd[j].pc # "none"
          /\ upd' = [upd EXCEPT ![i] = [NoUpdate EXCEPT
                        !.pc = "new", !.user = u, !.event = event, !.press = press,
                        !.on = m, !.raw = fsm[u].state, !.new = u \notin known]]
    /\ UNCHANGED <<dbVars, fsm, recent, screen, spinning, restarts, reach>>

Press(u) ==
    \E m \in Msg : \E b \in screen[u][m] : b.cb \in reach.taps /\ Arrive(u, TRUE, b, m)
Type(u) == \E text \in reach.texts, m \in Msg : Arrive(u, FALSE, text, m)

--------------------------------------------------------------------------------
(* The end of an update. *)

Spins(i, answered) ==
    spinning' = spinning \cup (IF upd[i].press /\ ~answered THEN {Event(i).cb} ELSE {})

(* commit(): the touch and what else was written. *)
CommitWrites(i) ==
    LET w == upd[i].writes
        u == U(i)
    IN /\ known' = known \cup {u}
       /\ slots' = IF w.what = "slots" THEN [slots EXCEPT ![u] = w.times] ELSE slots
       /\ prefs' = IF w.what = "prefs" THEN [prefs EXCEPT ![u][w.key] = w.value] ELSE prefs
       /\ chan' = IF w.what = "chan" THEN [chan EXCEPT ![w.chat] = w.row] ELSE chan

(* Ends with nothing but the touch written. *)
Dismiss(i, answered) ==
    /\ known' = known \cup {U(i)}
    /\ upd' = [upd EXCEPT ![i] = NoUpdate]
    /\ Spins(i, answered)
    /\ UNCHANGED <<slots, prefs, chan, screen>>

(* An exception: rollback; handle_error answers and alerts the operators (told),
   unless the bot was blocked, must slow down or changed nothing.  What the
   handler did to the conversation stays. *)
Fail(i, told) ==
    /\ upd' = [upd EXCEPT ![i] = NoUpdate]
    /\ Spins(i, told \/ upd[i].answered)
    /\ UNCHANGED <<dbVars, screen>>

--------------------------------------------------------------------------------
(* Handlers up to their first wait.  Each sets what the transaction writes,
   what the conversation becomes and what the answer shows. *)

Go(i, pc, writes, reply, answered) ==
    upd' = [upd EXCEPT ![i].pc = pc, ![i].writes = writes, ![i].reply = reply,
                       ![i].answered = answered]
Show(i, reply) == Go(i, "reply", NoWrite, reply, TRUE)
Write(i, writes, reply) == Go(i, "reply", writes, reply, TRUE)
Refuse(i) == Show(i, NoReply)

Talk(i, flow) == fsm' = [fsm EXCEPT ![U(i)] = flow]
Flow(i) == fsm[U(i)]
Silent == UNCHANGED fsm

Prefs(i) == prefs[U(i)]
Setting(key, value) == [what |-> "prefs", key |-> key, value |-> value]
Row(c, row) == [what |-> "chan", chat |-> c, row |-> row]
Menu(i) == MainMenu(U(i), Prefs(i).paused)

(* show_menu, open_panel, cancel_flow *)
ShowMenu(i) ==
    /\ Event(i).cb \in {"menu", "/menu", "/cancel"}
    /\ Talk(i, NoFlow)
    /\ Show(i, Menu(i))

ShowChannels(i) ==
    /\ Event(i).cb = "ch"
    /\ Talk(i, NoFlow)
    /\ Show(i, ChannelList(OwnChats(U(i))))

ShowScheduler(i) ==
    /\ Event(i).cb = "sc"
    /\ Talk(i, NoFlow)
    /\ Show(i, SchedulerKeys(Prefs(i).paused))

(* Panels without writes.  A prompt sets the state and keeps the data;
   choose_batch_size never answers its callback. *)
ShowPanel(i) ==
    LET cb == Event(i).cb IN
    /\ cb \in DOMAIN Panels
    /\ CASE cb = "ch:add" -> Talk(i, [Flow(i) EXCEPT !.state = "identifier"])
         [] cb = "im:up"  -> Talk(i, [Flow(i) EXCEPT !.state = "file"])
         [] cb = "im"     -> Talk(i, NoFlow)
         [] OTHER         -> Silent
    /\ Go(i, "reply", NoWrite, Panels[cb], cb # "sc:batch")

DownloadLogs(i) == Event(i).cb = "lg:dl" /\ Silent /\ Show(i, NoReply)

(* set_batch_size, toggle_weekends *)
ChangeSchedulePrefs(i) ==
    /\ Silent
    /\ \/ /\ Event(i).cb = "sc:batch:set"
          /\ Write(i, Setting("batch", Event(i).arg), SchedulerKeys(Prefs(i).paused))
       \/ /\ Event(i).cb = "sc:wk"
          /\ Write(i, Setting("skip", ~Prefs(i).skip), SchedulerKeys(Prefs(i).paused))

SetContentLanguage(i) ==
    /\ Event(i).cb = "lang:content"
    /\ Silent
    /\ Write(i, Setting("content", Event(i).arg), Back("se"))

(* handle_language_choice: only an operator's greeting has a menu. *)
Greeting(i) == IF U(i) \in Operator THEN Menu(i) ELSE NoReply
SetLanguage(i) ==
    /\ Event(i).cb = "lang:ui"
    /\ Silent
    /\ Write(i, Setting("ui", Event(i).arg), Greeting(i))

(* Reached only when no conversation takes the text. *)
Start(i) ==
    /\ Event(i).cb = "/start"
    /\ Talk(i, NoFlow)
    /\ Show(i, IF upd[i].new THEN LanguageKeys("lang:ui") ELSE Greeting(i))
Help(i) == Event(i).cb = "/help" /\ Silent /\ Show(i, Greeting(i))
Language(i) == Event(i).cb = "/language" /\ Silent /\ Show(i, LanguageKeys("lang:ui"))

(* pause_scheduler, resume_scheduler: the session is committed first, the flag
   is written by the scheduler in a session of its own. *)
Suspend(i) ==
    LET pause == Event(i).cb = "sc:pause" IN
    /\ Event(i).cb \in {"sc:pause", "sc:resume"}
    /\ Silent
    /\ \/ Prefs(i).paused = pause /\ Refuse(i)
       \/ Prefs(i).paused # pause /\ Go(i, "commit", NoWrite, Back("menu"), FALSE)

(* Mutant: the row is fetched by its id alone. *)
RemoveChannel_ById(i) ==
    LET c == Event(i).arg IN
    /\ Event(i).cb = "ch:rm"
    /\ Silent
    /\ \/ chan[c] # NoChannel
          /\ Write(i, Row(c, [chan[c] EXCEPT !.active = FALSE]),
                      ChannelList(OwnChats(U(i)) \ {c}))
       \/ chan[c] = NoChannel /\ Refuse(i)

(* remove_channel: an id of nobody's or of somebody else's row is an error. *)
RemoveChannel(i) ==
    LET c == Event(i).arg IN
    /\ Event(i).cb = "ch:rm"
    /\ Silent
    /\ \/ chan[c].owner = U(i)
          /\ Write(i, Row(c, [owner |-> U(i), active |-> FALSE]),
                      ChannelList(OwnChats(U(i)) \ {c}))
       \/ chan[c].owner # U(i) /\ Refuse(i)

--------------------------------------------------------------------------------
(* Choosing times. *)

SaveTimes(i, times) ==
    Go(i, "save", [what |-> "slots", times |-> times], Back("sc"), TRUE)
Expected(flow) == IF flow.expected = 0 THEN 1 ELSE flow.expected
Distinct(times) == Cardinality({times[n] : n \in DOMAIN times}) = Len(times)
AsSet(times) == {times[n] : n \in DOMAIN times}

PromptForTimes(i) ==
    /\ Event(i).cb = "sc:count"
    /\ Talk(i, [NoFlow EXCEPT !.state = "times", !.expected = Event(i).arg])
    /\ Show(i, HourKeys(<<>>))

PickHour(i) ==
    /\ Event(i).cb = "sc:h"
    /\ Talk(i, [Flow(i) EXCEPT !.hour = Event(i).arg])
    /\ Show(i, MinuteKeys)

Take(i, time) ==
    LET f      == Flow(i)
        picked == Append(f.picked, time)
    IN /\ Talk(i, [f EXCEPT !.picked = picked, !.hour = NoHour])
       /\ IF Len(picked) < Expected(f) THEN Show(i, HourKeys(picked))
                                       ELSE SaveTimes(i, AsSet(picked))

(* Mutant: the hour may be missing. *)
PickMinute_NoHour(i) ==
    /\ Event(i).cb = "sc:m"
    /\ Take(i, <<Flow(i).hour, Event(i).arg>>)

(* Mutant: a time picked before is taken again. *)
PickMinute_Twice(i) ==
    /\ Event(i).cb = "sc:m"
    /\ \/ Flow(i).hour = NoHour /\ Silent /\ Refuse(i)
       \/ Flow(i).hour # NoHour /\ Take(i, <<Flow(i).hour, Event(i).arg>>)

PickMinute(i) ==
    LET hour  == Flow(i).hour
        taken == <<hour, Event(i).arg>> \in AsSet(Flow(i).picked)
    IN /\ Event(i).cb = "sc:m"
       /\ \/ (hour = NoHour \/ taken) /\ Silent /\ Refuse(i)
          \/ hour # NoHour /\ ~taken /\ Take(i, <<hour, Event(i).arg>>)

(* undo_pick: the unfinished hour first, else the last time. *)
UndoPick(i) ==
    LET f    == Flow(i)
        back == IF f.hour # NoHour THEN [f EXCEPT !.hour = NoHour]
                ELSE IF f.picked # <<>> THEN [f EXCEPT !.picked = SubSeq(@, 1, Len(@) - 1)]
                ELSE f
    IN /\ Event(i).cb = "sc:undo"
       /\ Talk(i, back)
       /\ Show(i, HourKeys(back.picked))

(* receive_times: any text, "/start" included, that arrived while the state
   lasted.  Times are counted only if the data still says how many. *)
ReceiveTimes(i) ==
    LET times == IF Event(i).cb = "times" THEN Event(i).arg ELSE <<>>
        taken == /\ Event(i).cb = "times"
                 /\ Flow(i).expected # 0 => Len(times) = Flow(i).expected
                 /\ Distinct(times)
    IN /\ Silent
       /\ IF taken THEN SaveTimes(i, AsSet(times)) ELSE Refuse(i)

(* receive_channel: what is no channel name is refused at once. *)
ReceiveChannel(i) ==
    /\ Silent
    /\ IF Event(i).cb = "name" THEN Go(i, "verify", NoWrite, NoReply, TRUE)
                               ELSE Show(i, Back("ch"))

(* receive_upload with a sound document; reject_non_document. *)
ReceiveUpload(i) ==
    \/ Event(i).cb = "file" /\ Talk(i, NoFlow) /\ Show(i, Back("im"))
    \/ Silent /\ Refuse(i)

--------------------------------------------------------------------------------
(* Routing: commands of the menu, then the conversations, then the public
   commands; a press goes by its callback alone.  The conversation is the one
   of the arrival. *)

Commands == {"/start", "/help", "/language"}
InFlow(i, state) ==
    ~upd[i].press /\ Event(i).cb \notin {"/menu", "/cancel"} /\ upd[i].raw = state

Handler(i) ==
    \/ InFlow(i, "identifier") /\ Event(i).cb # "file" /\ ReceiveChannel(i)
    \/ InFlow(i, "times") /\ Event(i).cb # "file" /\ ReceiveTimes(i)
    \/ InFlow(i, "file") /\ ReceiveUpload(i)
    \/ ShowMenu(i)
    \/ /\ upd[i].press \/ upd[i].raw = "none"
       /\ \/ ShowChannels(i) \/ ShowScheduler(i) \/ ShowPanel(i) \/ DownloadLogs(i)
          \/ ChangeSchedulePrefs(i) \/ SetContentLanguage(i) \/ SetLanguage(i)
          \/ Start(i) \/ Help(i) \/ Language(i) \/ Suspend(i) \/ RemoveChannel(i)
          \/ PromptForTimes(i) \/ PickHour(i) \/ PickMinute(i) \/ UndoPick(i)

Routed(i) ==
    \/ upd[i].press
    \/ Event(i).cb \in {"/menu", "/cancel"}
    \/ upd[i].raw = "file"
    \/ upd[i].raw # "none" /\ Event(i).cb # "file"
    \/ upd[i].raw = "none" /\ Event(i).cb \in Commands

Gated(i) == Event(i).cb \in OperatorOnly \/ InFlow(i, "file")

(* touch() flushes once no other session holds the user's row.  A user met
   for the first time twice at once is inserted twice: the second fails. *)
Ready(i) == upd[i].pc = "new" /\ ~Waiting(i)
Touched(i) == Ready(i) /\ ~(upd[i].new /\ U(i) \in known)

TouchFails(i) ==
    /\ Ready(i) /\ upd[i].new /\ U(i) \in known
    /\ Fail(i, TRUE)
    /\ UNCHANGED <<fsm, recent, scope>>

Unhandled(i) ==
    /\ Touched(i) /\ ~Routed(i)
    /\ Dismiss(i, FALSE)
    /\ UNCHANGED <<fsm, recent, scope>>

(* Mutant: a throttled press is dropped in silence. *)
Throttled_Silently(i) ==
    /\ Touched(i) /\ Routed(i) /\ U(i) \in recent
    /\ Dismiss(i, FALSE)
    /\ UNCHANGED <<fsm, recent, scope>>

(* Less than 0.7 seconds after the last accepted update of the user. *)
Throttled(i) ==
    /\ Touched(i) /\ Routed(i) /\ U(i) \in recent
    /\ Dismiss(i, TRUE)
    /\ UNCHANGED <<fsm, recent, scope>>

Denied(i) ==
    /\ Touched(i) /\ Routed(i) /\ Gated(i) /\ U(i) \notin Operator
    /\ recent' = recent \cup {U(i)}
    /\ Dismiss(i, TRUE)
    /\ UNCHANGED <<fsm, scope>>

Handle(i) ==
    /\ Touched(i) /\ Routed(i)
    /\ Gated(i) => U(i) \in Operator
    /\ recent' = recent \cup {U(i)}
    /\ Handler(i)
    /\ UNCHANGED <<dbVars, screen, spinning, scope>>

--------------------------------------------------------------------------------
(* Handlers after their waits. *)

(* Connecting a channel: get_chat and get_chat_member refuse, or the chat is
   looked up among one's own rows and then among all. *)
Refused(i) ==
    /\ upd[i].pc = "verify"
    /\ upd' = [upd EXCEPT ![i].pc = "reply", ![i].reply = Back("ch")]
    /\ UNCHANGED <<dbVars, fsm, recent, screen, spinning, scope>>

Verified(i) ==
    LET c == Event(i).arg IN
    /\ upd[i].pc = "verify"
    /\ \/ /\ chan[c].owner = U(i) /\ Talk(i, NoFlow)
          /\ upd' = [upd EXCEPT ![i].pc = "reply", ![i].reply = Back("ch"),
                                ![i].writes = Row(c, [owner |-> U(i), active |-> TRUE])]
       \/ /\ chan[c].owner \notin {U(i), NoUser} /\ Talk(i, NoFlow)
          /\ upd' = [upd EXCEPT ![i].pc = "reply", ![i].reply = Back("ch")]
       \/ /\ chan[c] = NoChannel /\ Silent
          /\ upd' = [upd EXCEPT ![i].pc = "insert"]
    /\ UNCHANGED <<dbVars, recent, screen, spinning, scope>>

(* The insert waits for one of the same chat in another session, and fails if
   that one was committed; the error is not ChannelAlreadyConnectedError. *)
Insert(i) ==
    LET c == Event(i).arg IN
    /\ upd[i].pc = "insert"
    /\ \/ /\ chan[c] = NoChannel /\ Talk(i, NoFlow)
          /\ \A j \in Slot \ {i} : upd[j].writes.what = "chan" => upd[j].writes.chat # c
          /\ upd' = [upd EXCEPT ![i].pc = "reply", ![i].reply = Back("ch"),
                                ![i].writes = Row(c, [owner |-> U(i), active |-> TRUE])]
          /\ UNCHANGED <<dbVars, screen, spinning>>
       \/ chan[c] # NoChannel /\ Silent /\ Fail(i, TRUE)
    /\ UNCHANGED <<recent, scope>>

(* session.commit() inside a handler: of the new schedule, before reload();
   of the touch alone, before the scheduler writes the flag. *)
SaveCommit(i) ==
    /\ upd[i].pc \in {"save", "commit"}
    /\ CommitWrites(i)
    /\ upd' = [upd EXCEPT ![i].pc = IF @ = "save" THEN "reload" ELSE "flag",
                          ![i].writes = NoWrite]
    /\ UNCHANGED <<fsm, recent, screen, spinning, scope>>

Reloaded(i) ==
    /\ upd[i].pc = "reload"
    /\ Talk(i, NoFlow)
    /\ upd' = [upd EXCEPT ![i].pc = "tell"]
    /\ UNCHANGED <<dbVars, recent, screen, spinning, scope>>

Flagged(i) ==
    /\ upd[i].pc = "flag"
    /\ prefs' = [prefs EXCEPT ![U(i)].paused = Event(i).cb = "sc:pause"]
    /\ upd' = [upd EXCEPT ![i].pc = "tell", ![i].answered = TRUE]
    /\ UNCHANGED <<known, slots, chan, fsm, recent, screen, spinning, scope>>

(* The answer goes out, then DatabaseMiddleware commits. *)
Reply(i) ==
    /\ upd[i].pc \in {"reply", "tell"}
    /\ screen' = IF upd[i].reply = NoReply THEN screen
                 ELSE [screen EXCEPT ![U(i)][upd[i].on] = upd[i].reply]
    /\ CommitWrites(i)
    /\ Spins(i, upd[i].answered)
    /\ upd' = [upd EXCEPT ![i] = NoUpdate]
    /\ UNCHANGED <<fsm, recent, scope>>

(* Mutant: a refused answer is sent again, in the other form. *)
ReplyFails_Retries(i) ==
    /\ upd[i].pc \in {"reply", "tell"}
    /\ upd' = [upd EXCEPT ![i].pc = IF @ = "tell" THEN "reply" ELSE "tell"]
    /\ UNCHANGED <<dbVars, fsm, recent, screen, spinning, scope>>

(* Telegram refuses it, or the connection breaks. *)
ReplyFails(i) ==
    /\ upd[i].pc \in {"reply", "tell"}
    /\ \E told \in BOOLEAN : Fail(i, told)
    /\ UNCHANGED <<fsm, recent, scope>>

(* The process is replaced; updates queued meanwhile are dropped. *)
Restart ==
    /\ restarts < MaxRestarts /\ restarts' = restarts + 1
    /\ upd' = [i \in Slot |-> NoUpdate]
    /\ fsm' = [u \in User |-> NoFlow]
    /\ recent' = {}
    /\ UNCHANGED <<dbVars, screen, spinning, arrivals, reach>>

Step(i) ==
    \/ TouchFails(i) \/ Unhandled(i) \/ Throttled(i) \/ Denied(i) \/ Handle(i)
    \/ Refused(i) \/ Verified(i) \/ Insert(i)
    \/ SaveCommit(i) \/ Reloaded(i) \/ Flagged(i)
    \/ Reply(i) \/ ReplyFails(i)

Quiescent ==
    /\ arrivals = reach.most /\ \A i \in Slot : upd[i].pc = "none"
    /\ UNCHANGED vars

Next ==
    \/ \E u \in User : Press(u) \/ Type(u)
    \/ \E i \in Slot : Step(i)
    \/ Restart \/ Quiescent

Spec == Init /\ [][Next]_vars

(* The event loop serves every update; requests and statements end. *)
Fairness == \A i \in Slot : WF_vars(Step(i))
FairSpec == Spec /\ Fairness

--------------------------------------------------------------------------------
Preference == [paused : BOOLEAN, skip : BOOLEAN, batch : Batch, content : Lang, ui : Lang]
Conversation == [state : {"none", "identifier", "times", "file"}, expected : Count \cup {0},
                 picked : Seq(Time), hour : Hour \cup {NoHour}]

TypeOK ==
    /\ known \subseteq User /\ recent \subseteq User
    /\ slots \in [User -> SUBSET Time]
    /\ prefs \in [User -> Preference]
    /\ chan \in [Chat -> ChannelRow]
    /\ fsm \in [User -> Conversation]
    /\ screen \in [User -> [Msg -> SUBSET Key]]
    /\ \A i \in Slot : upd[i].pc # "none" => upd[i].user \in User

Moves(u) == \E i \in Slot : U(i) = u /\ upd'[i] # upd[i]

Touches(u) ==
    \/ slots'[u] # slots[u]
    \/ prefs'[u] # prefs[u]
    \/ \E c \in Chat : chan'[c] # chan[c] /\ u \in {chan[c].owner, chan'[c].owner}

(* A conversation ends with as many different times as it asked for, however
   presses on old keyboards, double presses, undone picks, typed times and
   restarts mix; a press where no conversation is left, with one.  There are two
   exceptions: an update handled while another save of the same user has
   committed and is still reloading the scheduler, as the picks of that save are
   still there (_save_schedule), and times typed for a conversation whose data
   is gone when they are handled, which nobody counts (receive_times). *)
SavedAsAsked ==
    [][ \A i \in Slot :
          /\ upd[i].pc = "new" /\ upd'[i].pc = "save"
          /\ upd[i].press \/ fsm[U(i)].expected # 0
          /\ \A j \in Slot : U(j) = U(i) => upd[j].pc # "reload"
          => Cardinality(upd'[i].writes.times) = Expected(fsm[U(i)]) ]_vars

(* Each person only ever changes rows of their own: a step that changes the
   schedule, the settings or a channel of a user belongs to an update of that
   user, also when two of them connect the same chat at once or a button
   carries somebody else's row id (OwnedRepository). *)
TenantsApart ==
    [][ \A u \in User : Touches(u) => Moves(u) ]_vars

(* "An unanswered callback leaves a spinner stuck": whether handled, throttled,
   denied or failed, every press is answered - but for the batch-size prompt,
   which forgets to. *)
EveryPressAnswered == spinning \subseteq {"sc:batch"}

(* Every update comes to its end and gives its user's row free. *)
UpdatesEnd == \A i \in Slot : []<>(upd[i].pc = "none")
================================================================================
