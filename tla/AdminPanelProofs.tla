---------------------------- MODULE AdminPanelProofs ----------------------------
(***************************************************************************)
(* Proofs about AdminPanel, for any users, chats, keyboards, pickers and   *)
(* number of updates in flight: type correctness, every press answered,    *)
(* schedules saved as asked, and every row changed by its owner alone.     *)
(***************************************************************************)
EXTENDS AdminPanel, FiniteSetTheorems, TLAPS

(***************************************************************************)
(* Keyboards.                                                              *)
(***************************************************************************)

(* What the arguments of the bot's own buttons are. *)
LEMMA KeyArgs ==
    ASSUME NEW b \in Key
    PROVE  /\ b.cb = "ch:rm" => b.arg \in Chat
           /\ b.cb = "sc:count" => b.arg \in Count
           /\ b.cb = "sc:h" => b.arg \in Hour
           /\ b.cb = "sc:m" => b.arg \in Minute
           /\ b.cb = "sc:batch:set" => b.arg \in Batch
           /\ b.cb \in {"lang:ui", "lang:content"} => b.arg \in Lang
BY DEF Key, Buttons, Plain, Button

(* Every keyboard the handlers put up consists of such buttons. *)
LEMMA KeyboardsAreKeys ==
    /\ \A u, paused : MainMenu(u, paused) \subseteq Key
    /\ \A chats \in SUBSET Chat : ChannelList(chats) \subseteq Key
    /\ \A paused : SchedulerKeys(paused) \subseteq Key
    /\ \A picked : HourKeys(picked) \subseteq Key
    /\ MinuteKeys \subseteq Key
    /\ LanguageKeys("lang:ui") \subseteq Key
    /\ NoReply \subseteq Key
    /\ \A t \in {"menu", "ch", "sc", "se", "im", "sc:undo"} : Back(t) \subseteq Key
<1>1. \A u, paused : MainMenu(u, paused) \subseteq Key
  BY DEF MainMenu, Toggle, Key, Buttons, Plain, Button
<1>2. \A chats \in SUBSET Chat : ChannelList(chats) \subseteq Key
  BY DEF ChannelList, Key, Buttons, Plain, Button
<1>3. \A paused : SchedulerKeys(paused) \subseteq Key
  BY DEF SchedulerKeys, Toggle, Key, Buttons, Plain, Button
<1>4. \A picked : HourKeys(picked) \subseteq Key
  BY DEF HourKeys, Key, Buttons, Plain, Button
<1>5. \A t \in {"menu", "ch", "sc", "se", "im", "sc:undo"} : Back(t) \subseteq Key
  BY DEF Back, Key, Buttons, Plain, Button
<1>6. MinuteKeys \subseteq Key /\ LanguageKeys("lang:ui") \subseteq Key
  BY DEF MinuteKeys, LanguageKeys, Back, Key, Buttons, Plain, Button
<1> QED
  BY <1>1, <1>2, <1>3, <1>4, <1>5, <1>6 DEF NoReply

LEMMA PanelsAreKeys == ASSUME NEW cb \in DOMAIN Panels PROVE Panels[cb] \subseteq Key
<1>1. /\ StatsKeys \subseteq Key /\ SettingsKeys \subseteq Key /\ LogKeys \subseteq Key
      /\ ConfirmKeys \subseteq Key /\ BackupKeys \subseteq Key
  BY DEF StatsKeys, SettingsKeys, LogKeys, ConfirmKeys, BackupKeys, Key, Buttons, Plain, Button
<1>2. /\ CountKeys \subseteq Key /\ BatchKeys \subseteq Key /\ ImportKeys \subseteq Key
      /\ LanguageKeys("lang:ui") \subseteq Key /\ LanguageKeys("lang:content") \subseteq Key
  BY DEF CountKeys, BatchKeys, ImportKeys, LanguageKeys, Back, Key, Buttons, Plain, Button
<1> QED
  BY <1>1, <1>2, KeyboardsAreKeys DEF Panels

(***************************************************************************)
(* A sequence without repetitions has as many elements as its length.      *)
(***************************************************************************)
LEMMA SeqCardinality ==
    ASSUME NEW S, NEW s \in Seq(S), IsInjective(s)
    PROVE  Cardinality(AsSet(s)) = Len(s)
<1>1. DOMAIN s = 1..Len(s) /\ Len(s) \in Nat /\ s \in [1..Len(s) -> AsSet(s)]
  BY DEF AsSet
<1>2. s \in Bijection(1..Len(s), AsSet(s))
  <2>1. \A t \in AsSet(s) : \E n \in 1..Len(s) : s[n] = t
    BY <1>1 DEF AsSet
  <2>2. \A m, n \in 1..Len(s) : s[m] = s[n] => m = n
    BY <1>1 DEF IsInjective
  <2> QED
    BY <1>1, <2>1, <2>2 DEF Bijection, Injection, Surjection, IsInjective
<1>3. ExistsBijection(1..Len(s), AsSet(s))
  BY <1>2 DEF ExistsBijection
<1> QED
  BY <1>1, <1>3, FS_CountingElements

(***************************************************************************)
(* The inductive invariant.                                                *)
(***************************************************************************)
Fields == {"pc", "user", "event", "press", "on", "raw", "new", "answered", "writes", "reply"}
Pcs == InSession \cup {"none", "new", "reload", "commit", "flag", "tell"}

TextOK(t) == (t.cb = "times" => t.arg \in Seq(Time)) /\ (t.cb = "name" => t.arg \in Chat)

(* What the transaction of a user's update may hold. *)
WriteOK(w, u) ==
    /\ w.what \in {"nothing", "slots", "prefs", "chan"}
    /\ w.what = "slots" => w.times \in SUBSET Time
    /\ w.what = "prefs" => \/ w.key = "batch" /\ w.value \in Batch
                           \/ w.key = "skip" /\ w.value \in BOOLEAN
                           \/ w.key \in {"content", "ui"} /\ w.value \in Lang
    /\ w.what = "chan" => w.chat \in Chat /\ w.row \in ChannelRow /\ w.row.owner = u

(* An update in flight.  Past its handler it holds an answer, unless that is
   the batch-size prompt or waits for the scheduler's flag. *)
UpdOK(x) ==
    /\ DOMAIN x = Fields /\ x.pc \in Pcs
    /\ x.press \in BOOLEAN /\ x.answered \in BOOLEAN
    /\ x.pc # "none" => x.user \in User
    /\ x.pc = "none" => x = NoUpdate
    /\ IF x.press THEN x.event \in Key ELSE TextOK(x.event)
    /\ x.pc \in {"verify", "insert"} => x.event.arg \in Chat
    /\ x.reply \subseteq Key
    /\ WriteOK(x.writes, x.user)
    /\ x.pc \in {"none", "new", "verify", "insert", "commit", "flag"} => x.writes = NoWrite
    /\ x.pc \in InSession \cup {"reload", "tell"} => x.answered \/ x.event.cb = "sc:batch"

ReachOK == reach.most \in Nat /\ \A t \in reach.texts : TextOK(t)
FlowOK(f) == f \in Conversation /\ (f.state = "times" => f.expected \in Count)

TypeInv ==
    /\ known \subseteq User /\ recent \subseteq User
    /\ slots \in [User -> SUBSET Time]
    /\ prefs \in [User -> Preference]
    /\ chan \in [Chat -> ChannelRow]
    /\ fsm \in [User -> Conversation] /\ \A u \in User : FlowOK(fsm[u])
    /\ screen \in [User -> [Msg -> SUBSET Key]]
    /\ DOMAIN upd = Slot /\ \A i \in Slot : UpdOK(upd[i])
    /\ ReachOK
    /\ EveryPressAnswered

(* A channel row about to be written belongs to the writer or to nobody, and
   two transactions of different users never write the same one. *)
WritesChat(x, c) == x.writes.what = "chan" /\ x.writes.chat = c
RowsOwned ==
    /\ \A i \in Slot : \A c \in Chat :
          WritesChat(upd[i], c) => chan[c].owner \in {U(i), NoUser}
    /\ \A i, j \in Slot : \A c \in Chat :
          WritesChat(upd[i], c) /\ WritesChat(upd[j], c) => U(i) = U(j)

(* While a user saves no schedule, the conversation is short of its times,
   and no time was picked twice. *)
Short(f) == Len(f.picked) < Expected(f) /\ IsInjective(f.picked)
Saving(u) == \E j \in Slot : U(j) = u /\ upd[j].pc \in {"save", "reload"}
PicksShort == \A u \in User : Saving(u) \/ Short(fsm[u])

IInv == TypeInv /\ RowsOwned /\ PicksShort

LEMMA InvTypeOK == TypeInv => TypeOK /\ EveryPressAnswered
BY DEF TypeInv, TypeOK, UpdOK

LEMMA ShortNoFlow == Short(NoFlow) /\ FlowOK(NoFlow)
<1>1. NoFlow.picked = <<>> /\ NoFlow.expected = 0 /\ Expected(NoFlow) = 1
  BY DEF NoFlow, Expected
<1>2. Len(NoFlow.picked) = 0 /\ DOMAIN NoFlow.picked = {}
  BY <1>1
<1>3. FlowOK(NoFlow)
  BY DEF FlowOK, NoFlow, Conversation
<1> QED
  BY <1>1, <1>2, <1>3 DEF Short, IsInjective

LEMMA InitOK == Init => IInv
<1> SUFFICES ASSUME Init PROVE IInv
  OBVIOUS
<1>1. PICK s \in Starts : /\ known = s.known /\ chan = s.chan /\ screen = s.screen
                          /\ reach = [taps |-> s.taps, texts |-> s.texts, most |-> s.most]
  BY DEF Init
<1>2. \A i \in Slot : upd[i] = NoUpdate
  BY DEF Init
<1>3. UpdOK(NoUpdate) /\ DOMAIN upd = Slot
  BY DEF Init, UpdOK, NoUpdate, Fields, Pcs, InSession, TextOK, Plain, Button, NoReply, WriteOK, NoWrite
<1>4. ReachOK
  BY <1>1, StartAssumption DEF ReachOK, TextOK
<1>5. /\ known \subseteq User /\ chan \in [Chat -> ChannelRow]
      /\ screen \in [User -> [Msg -> SUBSET Key]]
  BY <1>1, StartAssumption
<1>6. prefs \in [User -> Preference]
  BY PanelAssumption DEF Init, Preference
<1>7. TypeInv
  BY <1>2, <1>3, <1>4, <1>5, <1>6, ShortNoFlow DEF Init, TypeInv, FlowOK, EveryPressAnswered
<1>8. RowsOwned
  BY <1>2 DEF RowsOwned, WritesChat, NoUpdate, NoWrite
<1>9. PicksShort
  BY ShortNoFlow DEF PicksShort, Init
<1> QED
  BY <1>7, <1>8, <1>9 DEF IInv

(***************************************************************************)
(* What a handler leaves.                                                  *)
(***************************************************************************)
Others(i) == DOMAIN upd' = Slot /\ \A j \in Slot \ {i} : upd'[j] = upd[j]

(* The update itself: a sound write, answer and keyboard. *)
Goes(i) ==
    /\ Others(i) /\ DOMAIN upd'[i] = Fields
    /\ upd'[i].pc \in {"verify", "save", "commit", "reply"}
    /\ U(i)' = U(i) /\ Event(i)' = Event(i) /\ upd'[i].press = upd[i].press
    /\ upd'[i].answered \in BOOLEAN
    /\ upd'[i].reply \subseteq Key
    /\ WriteOK(upd'[i].writes, U(i))
    /\ \A c \in Chat : WritesChat(upd'[i], c) => chan[c].owner = U(i)
    /\ upd'[i].pc = "verify" => Event(i).arg \in Chat
    /\ upd'[i].pc \in {"verify", "commit"} => upd'[i].writes = NoWrite
    /\ upd'[i].pc # "commit" => upd'[i].answered \/ Event(i).cb = "sc:batch"

(* The conversation: left as it is, or changed to a sound one that keeps
   short, unless the schedule is saved. *)
Talks(i) ==
    \E f \in Conversation :
        /\ fsm' = [fsm EXCEPT ![U(i)] = f] /\ FlowOK(f)
        /\ upd'[i].pc = "save" \/ (Short(Flow(i)) => Short(f))

(* A save takes the number of times asked for, where anything says how many. *)
Saves(i) ==
    upd'[i].pc = "save" /\ Short(Flow(i)) /\ (upd[i].press \/ Flow(i).expected # 0) =>
        Cardinality(upd'[i].writes.times) = Expected(Flow(i))

Handled(i) == Goes(i) /\ Talks(i) /\ Saves(i)

LEMMA GoOK ==
    ASSUME TypeInv, NEW i \in Slot, NEW pc, NEW w, NEW r, NEW a \in BOOLEAN,
           Go(i, pc, w, r, a),
           pc \in {"verify", "save", "commit", "reply"}, r \subseteq Key, WriteOK(w, U(i)),
           \A c \in Chat : w.what = "chan" /\ w.chat = c => chan[c].owner = U(i),
           pc = "verify" => Event(i).arg \in Chat,
           pc \in {"verify", "commit"} => w = NoWrite,
           pc # "commit" => a \/ Event(i).cb = "sc:batch"
    PROVE  Goes(i) /\ upd'[i].pc = pc /\ upd'[i].writes = w
<1>1. DOMAIN upd = Slot /\ DOMAIN upd[i] = Fields
  BY DEF TypeInv, UpdOK
<1>2. Others(i)
  BY <1>1 DEF Go, Others
<1>3. /\ DOMAIN upd'[i] = Fields /\ upd'[i].pc = pc /\ upd'[i].writes = w
      /\ upd'[i].reply = r /\ upd'[i].answered = a
      /\ upd'[i].user = upd[i].user /\ upd'[i].event = upd[i].event
      /\ upd'[i].press = upd[i].press
  BY <1>1 DEF Go, Fields
<1>4. \A c \in Chat : WritesChat(upd'[i], c) => chan[c].owner = U(i)
  BY <1>3 DEF WritesChat
<1> QED
  BY <1>2, <1>3, <1>4 DEF Goes, U, Event

LEMMA NoWriteOK == ASSUME NEW u PROVE WriteOK(NoWrite, u) /\ NoWrite.what = "nothing"
BY DEF WriteOK, NoWrite

LEMMA PromptOK ==
    ASSUME TypeInv, NEW i \in Slot, NEW r, Go(i, "reply", NoWrite, r, FALSE),
           Event(i).cb = "sc:batch", r \subseteq Key
    PROVE  Goes(i) /\ upd'[i].pc = "reply"
BY GoOK, NoWriteOK

LEMMA ShowOK ==
    ASSUME TypeInv, NEW i \in Slot, NEW r, Show(i, r), r \subseteq Key
    PROVE  Goes(i) /\ upd'[i].pc = "reply"
BY GoOK, NoWriteOK DEF Show

LEMMA RefuseOK ==
    ASSUME TypeInv, NEW i \in Slot, Refuse(i)
    PROVE  Goes(i) /\ upd'[i].pc = "reply"
BY ShowOK, KeyboardsAreKeys DEF Refuse

LEMMA TalkOK ==
    ASSUME NEW i \in Slot, NEW f, Talk(i, f), FlowOK(f), Short(Flow(i)) => Short(f)
    PROVE  Talks(i)
BY DEF Talk, Talks, FlowOK

LEMMA SilentOK ==
    ASSUME TypeInv, NEW i \in Slot, U(i) \in User, Silent
    PROVE  Talks(i)
<1>1. Flow(i) \in Conversation /\ FlowOK(Flow(i)) /\ fsm' = [fsm EXCEPT ![U(i)] = Flow(i)]
  BY DEF TypeInv, Silent, Flow
<1> QED
  BY <1>1 DEF Talks

(* Panels and menus, and handlers that write one setting or channel. *)
LEMMA ScreensOK ==
    ASSUME TypeInv, NEW i \in Slot, U(i) \in User,
           \/ ShowMenu(i) \/ ShowChannels(i) \/ ShowScheduler(i) \/ ShowPanel(i)
           \/ DownloadLogs(i) \/ Start(i) \/ Help(i) \/ Language(i)
    PROVE  Handled(i)
<1>a. Talk(i, NoFlow) => Talks(i)
  BY ShortNoFlow, TalkOK
<1>b. FlowOK(Flow(i)) /\ Flow(i) \in Conversation
  BY DEF TypeInv, Flow
<1>g. Greeting(i) \subseteq Key /\ Menu(i) \subseteq Key
  BY KeyboardsAreKeys DEF Greeting, Menu
<1>s. Goes(i) /\ upd'[i].pc = "reply" /\ Talks(i) => Handled(i)
  BY DEF Handled, Saves
<1>1. CASE ShowMenu(i)
  BY <1>1, <1>a, <1>g, <1>s, ShowOK DEF ShowMenu
<1>2. CASE ShowChannels(i)
  <2>1. OwnChats(U(i)) \in SUBSET Chat
    BY DEF OwnChats
  <2> QED
    BY <1>2, <1>a, <1>s, <2>1, ShowOK, KeyboardsAreKeys DEF ShowChannels
<1>3. CASE ShowScheduler(i)
  BY <1>3, <1>a, <1>s, ShowOK, KeyboardsAreKeys DEF ShowScheduler
<1>4. CASE ShowPanel(i)
  <2> DEFINE cb == Event(i).cb
  <2>1. Panels[cb] \subseteq Key /\ Go(i, "reply", NoWrite, Panels[cb], cb # "sc:batch")
    BY <1>4, PanelsAreKeys DEF ShowPanel
  <2>2. Goes(i) /\ upd'[i].pc = "reply"
    <3>1. CASE cb = "sc:batch"
      <4>1. Go(i, "reply", NoWrite, Panels[cb], FALSE)
        BY <2>1, <3>1
      <4> QED
        BY <2>1, <3>1, <4>1, PromptOK
    <3>2. CASE cb # "sc:batch"
      <4>1. Show(i, Panels[cb])
        BY <2>1, <3>2 DEF Show
      <4> QED
        BY <2>1, <4>1, ShowOK
    <3> QED
      BY <3>1, <3>2
  <2>3. CASE Silent
    BY <2>2, <2>3, <1>s, SilentOK
  <2>4. CASE Talk(i, NoFlow)
    BY <2>2, <2>4, <1>s, <1>a
  <2>5. ASSUME NEW state \in {"identifier", "file"}, Talk(i, [Flow(i) EXCEPT !.state = state])
        PROVE  Handled(i)
    <3> DEFINE f == [Flow(i) EXCEPT !.state = state]
    <3>1. /\ f \in Conversation /\ f.state = state
          /\ f.picked = Flow(i).picked /\ f.expected = Flow(i).expected
      BY <1>b DEF Conversation
    <3>2. FlowOK(f) /\ (Short(Flow(i)) => Short(f))
      BY <3>1 DEF FlowOK, Short, Expected
    <3> QED
      BY <2>2, <2>5, <3>2, <1>s, TalkOK
  <2> QED
    BY <1>4, <2>3, <2>4, <2>5 DEF ShowPanel
<1>5. CASE DownloadLogs(i)
  BY <1>5, <1>s, SilentOK, ShowOK, KeyboardsAreKeys DEF DownloadLogs
<1>6. CASE Start(i)
  BY <1>6, <1>a, <1>g, <1>s, ShowOK, KeyboardsAreKeys DEF Start
<1>7. CASE Help(i)
  BY <1>7, <1>g, <1>s, SilentOK, ShowOK DEF Help
<1>8. CASE Language(i)
  BY <1>8, <1>s, SilentOK, ShowOK, KeyboardsAreKeys DEF Language
<1> QED
  BY <1>1, <1>2, <1>3, <1>4, <1>5, <1>6, <1>7, <1>8

LEMMA WritesOK ==
    ASSUME TypeInv, NEW i \in Slot, U(i) \in User, Event(i) \in Key,
           \/ ChangeSchedulePrefs(i) \/ SetContentLanguage(i) \/ SetLanguage(i)
           \/ Suspend(i) \/ RemoveChannel(i)
    PROVE  Handled(i)
<1>g. Greeting(i) \subseteq Key
  BY KeyboardsAreKeys DEF Greeting, Menu
<1>w. ASSUME NEW w, NEW r, Write(i, w, r), r \subseteq Key, WriteOK(w, U(i)),
             \A c \in Chat : w.what = "chan" /\ w.chat = c => chan[c].owner = U(i)
      PROVE  Goes(i) /\ upd'[i].pc = "reply"
  BY <1>w, GoOK DEF Write
<1>p. ASSUME NEW key, NEW value, NEW r, Write(i, Setting(key, value), r), r \subseteq Key,
             \/ key = "batch" /\ value \in Batch
             \/ key = "skip" /\ value \in BOOLEAN
             \/ key \in {"content", "ui"} /\ value \in Lang
      PROVE  Goes(i) /\ upd'[i].pc = "reply"
  <2>1. WriteOK(Setting(key, value), U(i)) /\ Setting(key, value).what = "prefs"
    BY <1>p DEF WriteOK, Setting
  <2> QED
    BY <1>p, <1>w, <2>1
<1>s. Goes(i) /\ upd'[i].pc # "save" /\ Talks(i) => Handled(i)
  BY DEF Handled, Saves
<1>1. CASE ChangeSchedulePrefs(i)
  <2>1. (~Prefs(i).skip) \in BOOLEAN
    OBVIOUS
  <2>2. Event(i).cb = "sc:batch:set" => Event(i).arg \in Batch
    BY KeyArgs
  <2> QED
    BY <1>1, <1>p, <1>s, <2>1, <2>2, SilentOK, KeyboardsAreKeys DEF ChangeSchedulePrefs
<1>2. CASE SetContentLanguage(i)
  BY <1>2, <1>p, <1>s, SilentOK, KeyboardsAreKeys, KeyArgs DEF SetContentLanguage
<1>3. CASE SetLanguage(i)
  BY <1>3, <1>p, <1>s, <1>g, SilentOK, KeyArgs DEF SetLanguage
<1>4. CASE Suspend(i)
  <2>1. CASE Refuse(i)
    BY <1>4, <2>1, <1>s, RefuseOK, SilentOK DEF Suspend
  <2>2. CASE Go(i, "commit", NoWrite, Back("menu"), FALSE)
    BY <1>4, <2>2, <1>s, GoOK, NoWriteOK, KeyboardsAreKeys, SilentOK DEF Suspend
  <2> QED
    BY <1>4, <2>1, <2>2 DEF Suspend
<1>5. CASE RemoveChannel(i)
  <2> DEFINE c == Event(i).arg
             w == Row(c, [owner |-> U(i), active |-> FALSE])
             r == ChannelList(OwnChats(U(i)) \ {c})
  <2>1. CASE Refuse(i)
    BY <1>5, <2>1, <1>s, RefuseOK, SilentOK DEF RemoveChannel
  <2>2. CASE chan[c].owner = U(i) /\ Write(i, w, r)
    <3>1. c \in Chat /\ r \subseteq Key
      BY <1>5, KeyArgs, KeyboardsAreKeys DEF RemoveChannel, OwnChats
    <3>2. WriteOK(w, U(i)) /\ w.chat = c
      BY <3>1 DEF WriteOK, Row, ChannelRow
    <3> QED
      BY <1>5, <2>2, <3>1, <3>2, <1>w, <1>s, SilentOK DEF RemoveChannel
  <2> QED
    BY <1>5, <2>1, <2>2 DEF RemoveChannel
<1> QED
  BY <1>1, <1>2, <1>3, <1>4, <1>5

(* Choosing times by buttons. *)
LEMMA SaveTimesOK ==
    ASSUME TypeInv, NEW i \in Slot, NEW times \in SUBSET Time, SaveTimes(i, times)
    PROVE  Goes(i) /\ upd'[i].pc = "save" /\ upd'[i].writes.times = times
<1> DEFINE w == [what |-> "slots", times |-> times]
<1>1. WriteOK(w, U(i)) /\ w.what = "slots" /\ w.times = times
  BY DEF WriteOK
<1>2. Go(i, "save", w, Back("sc"), TRUE)
  BY DEF SaveTimes
<1>3. Back("sc") \subseteq Key
  BY KeyboardsAreKeys
<1> HIDE DEF w
<1> QED
  BY <1>1, <1>2, <1>3, GoOK

(* One more time, or the whole schedule. *)
LEMMA TakeOK ==
    ASSUME TypeInv, NEW i \in Slot, U(i) \in User, NEW time \in Time,
           time \notin AsSet(Flow(i).picked), Take(i, time)
    PROVE  Handled(i)
<1> DEFINE f == Flow(i)
           picked == Append(f.picked, time)
           g == [f EXCEPT !.picked = picked, !.hour = NoHour]
<1>1. /\ f \in Conversation /\ FlowOK(f) /\ f.picked \in Seq(Time)
      /\ f.expected \in Count \cup {0} /\ Expected(f) \in 1..3
  BY DEF TypeInv, Flow, Conversation, Count, Expected
<1>2. /\ picked \in Seq(Time) /\ Len(picked) = Len(f.picked) + 1
      /\ DOMAIN picked = 1..(Len(f.picked) + 1)
      /\ \A n \in 1..Len(f.picked) : picked[n] = f.picked[n]
      /\ picked[Len(f.picked) + 1] = time
  BY <1>1
<1>3. IsInjective(f.picked) => IsInjective(picked)
  <2>1. \A n \in 1..Len(f.picked) : f.picked[n] # time
    BY <1>1 DEF AsSet
  <2>2. Len(f.picked) \in Nat /\ DOMAIN f.picked = 1..Len(f.picked)
    BY <1>1
  <2> QED
    BY <1>2, <2>1, <2>2 DEF IsInjective
<1>4. g \in Conversation /\ g.state = f.state /\ g.expected = f.expected /\ g.picked = picked
  BY <1>1, <1>2 DEF Conversation
<1>5. FlowOK(g) /\ Expected(g) = Expected(f)
  BY <1>1, <1>4 DEF FlowOK, Expected
<1>6. Talk(i, g) /\ Len(picked) \in Nat
  BY <1>1 DEF Take, Flow
<1>7. CASE Len(picked) < Expected(f)
  <2>1. Show(i, HourKeys(picked))
    BY <1>7 DEF Take, Flow
  <2>2. Goes(i) /\ upd'[i].pc = "reply"
    BY <2>1, ShowOK, KeyboardsAreKeys
  <2>3. Short(f) => Short(g)
    BY <1>3, <1>4, <1>5, <1>7 DEF Short
  <2>4. Talks(i)
    BY <1>5, <1>6, <2>3, TalkOK
  <2> QED
    BY <2>2, <2>4 DEF Handled, Saves
<1>8. CASE ~(Len(picked) < Expected(f))
  <2>0. AsSet(picked) \in SUBSET Time
    BY <1>2 DEF AsSet
  <2>1. SaveTimes(i, AsSet(picked))
    BY <1>8 DEF Take, Flow
  <2>2. Goes(i) /\ upd'[i].pc = "save" /\ upd'[i].writes.times = AsSet(picked)
    BY <2>0, <2>1, SaveTimesOK
  <2>3. Short(f) => Len(picked) = Expected(f) /\ Cardinality(AsSet(picked)) = Len(picked)
    <3> SUFFICES ASSUME Short(f)
                 PROVE  Len(picked) = Expected(f) /\ Cardinality(AsSet(picked)) = Len(picked)
      OBVIOUS
    <3>1. Len(f.picked) \in Nat /\ Len(f.picked) < Expected(f) /\ IsInjective(picked)
      BY <1>1, <1>3 DEF Short
    <3>2. Cardinality(AsSet(picked)) = Len(picked)
      BY <1>2, <3>1, SeqCardinality
    <3> QED
      BY <1>1, <1>2, <1>8, <3>1, <3>2
  <2>4. Talks(i)
    BY <1>4, <1>5, <1>6, <2>2 DEF Talks, Talk
  <2> QED
    BY <2>2, <2>3, <2>4 DEF Handled, Saves
<1> QED
  BY <1>7, <1>8

LEMMA PicksOK ==
    ASSUME TypeInv, NEW i \in Slot, U(i) \in User, Event(i) \in Key,
           PromptForTimes(i) \/ PickHour(i) \/ PickMinute(i) \/ UndoPick(i)
    PROVE  Handled(i)
<1> DEFINE f == Flow(i)
<1>f. /\ f \in Conversation /\ FlowOK(f) /\ f.picked \in Seq(Time)
      /\ f.expected \in Count \cup {0} /\ f.hour \in Hour \cup {NoHour}
  BY DEF TypeInv, Flow, Conversation
<1>s. Goes(i) /\ upd'[i].pc = "reply" /\ Talks(i) => Handled(i)
  BY DEF Handled, Saves
<1>1. CASE PromptForTimes(i)
  <2> DEFINE g == [NoFlow EXCEPT !.state = "times", !.expected = Event(i).arg]
  <2>1. Event(i).arg \in Count
    BY <1>1, KeyArgs DEF PromptForTimes
  <2>2. g \in Conversation /\ g.picked = <<>> /\ g.expected = Event(i).arg
    <3>1. NoFlow \in Conversation /\ NoFlow.picked = <<>>
      BY ShortNoFlow DEF FlowOK, NoFlow
    <3>2. Event(i).arg \in Count \cup {0}
      BY <2>1
    <3> QED
      BY <3>1, <3>2 DEF Conversation
  <2>3. FlowOK(g) /\ Expected(g) > 0
    BY <2>1, <2>2 DEF FlowOK, Expected, Count
  <2>4. Short(g)
    BY <2>2, <2>3 DEF Short, IsInjective
  <2> QED
    BY <1>1, <2>3, <2>4, <1>s, TalkOK, ShowOK, KeyboardsAreKeys DEF PromptForTimes
<1>2. CASE PickHour(i)
  <2> DEFINE g == [f EXCEPT !.hour = Event(i).arg]
  <2>1. Event(i).arg \in Hour
    BY <1>2, KeyArgs DEF PickHour
  <2>2. /\ g \in Conversation /\ g.picked = f.picked /\ g.expected = f.expected
        /\ g.state = f.state
    BY <2>1, <1>f DEF Conversation
  <2>3. FlowOK(g) /\ (Short(f) => Short(g))
    BY <2>2, <1>f DEF FlowOK, Short, Expected
  <2> QED
    BY <1>2, <2>3, <1>s, TalkOK, ShowOK, KeyboardsAreKeys DEF PickHour
<1>3. CASE PickMinute(i)
  <2>1. CASE Silent /\ Refuse(i)
    BY <2>1, <1>s, SilentOK, RefuseOK
  <2>2. CASE /\ f.hour # NoHour /\ <<f.hour, Event(i).arg>> \notin AsSet(f.picked)
             /\ Take(i, <<f.hour, Event(i).arg>>)
    <3>1. Event(i).arg \in Minute
      BY <1>3, KeyArgs DEF PickMinute
    <3>2. <<f.hour, Event(i).arg>> \in Time
      BY <3>1, <2>2, <1>f, ScreenAssumption
    <3> QED
      BY <2>2, <3>2, TakeOK
  <2> QED
    BY <1>3, <2>1, <2>2 DEF PickMinute
<1>4. CASE UndoPick(i)
  <2> DEFINE n == Len(f.picked)
             back == IF f.hour # NoHour THEN [f EXCEPT !.hour = NoHour]
                     ELSE IF f.picked # <<>> THEN [f EXCEPT !.picked = SubSeq(@, 1, n - 1)]
                     ELSE f
  <2>1. Talk(i, back) /\ Show(i, HourKeys(back.picked))
    BY <1>4 DEF UndoPick
  <2>2. FlowOK(back) /\ (Short(f) => Short(back))
    <3>1. CASE f.hour # NoHour
      <4>1. /\ back \in Conversation /\ back.picked = f.picked /\ back.expected = f.expected
            /\ back.state = f.state
        BY <3>1, <1>f DEF Conversation
      <4> QED
        BY <4>1, <1>f DEF FlowOK, Short, Expected
    <3>2. CASE f.hour = NoHour /\ f.picked # <<>>
      <4> DEFINE p == SubSeq(f.picked, 1, n - 1)
      <4>1. n \in Nat /\ n > 0 /\ DOMAIN f.picked = 1..n
        BY <3>2, <1>f
      <4>2. /\ p \in Seq(Time) /\ Len(p) = n - 1 /\ DOMAIN p = 1..(n - 1)
            /\ \A k \in 1..(n - 1) : p[k] = f.picked[k]
        BY <4>1, <1>f
      <4>3. /\ back \in Conversation /\ back.picked = p /\ back.expected = f.expected
            /\ back.state = f.state
        BY <3>2, <4>2, <1>f DEF Conversation
      <4>4. Expected(back) = Expected(f) /\ Expected(f) \in Nat
        BY <4>3, <1>f DEF Expected, Count
      <4>5. IsInjective(f.picked) => IsInjective(p)
        <5>1. \A a, b \in 1..(n - 1) : /\ a \in 1..n /\ b \in 1..n
                                       /\ p[a] = p[b] => f.picked[a] = f.picked[b]
          BY <4>1, <4>2
        <5> HIDE DEF p
        <5> QED
          BY <4>1, <4>2, <5>1 DEF IsInjective
      <4> QED
        BY <4>1, <4>2, <4>3, <4>4, <4>5, <1>f DEF FlowOK, Short
    <3>3. CASE f.hour = NoHour /\ f.picked = <<>>
      BY <3>3, <1>f
    <3> QED
      BY <3>1, <3>2, <3>3
  <2> HIDE DEF back
  <2> QED
    BY <2>1, <2>2, <1>s, TalkOK, ShowOK, KeyboardsAreKeys
<1> QED
  BY <1>1, <1>2, <1>3, <1>4

(* Texts that a conversation takes. *)
LEMMA TextsOK ==
    ASSUME TypeInv, NEW i \in Slot, U(i) \in User, TextOK(Event(i)),
           ReceiveChannel(i) \/ ReceiveUpload(i) \/ ReceiveTimes(i), ~upd[i].press
    PROVE  Handled(i)
<1>s. Goes(i) /\ upd'[i].pc # "save" /\ Talks(i) => Handled(i)
  BY DEF Handled, Saves
<1>b. \A t \in {"ch", "im"} : Back(t) \subseteq Key
  BY KeyboardsAreKeys
<1>r. Silent /\ Refuse(i) => Handled(i)
  BY <1>s, SilentOK, RefuseOK
<1>1. CASE ReceiveChannel(i)
  <2>1. CASE Event(i).cb = "name"
    <3>1. Go(i, "verify", NoWrite, NoReply, TRUE) /\ Event(i).arg \in Chat /\ NoReply \subseteq Key
      BY <1>1, <2>1, KeyboardsAreKeys DEF ReceiveChannel, TextOK
    <3>2. Goes(i) /\ upd'[i].pc = "verify"
      BY <3>1, GoOK, NoWriteOK
    <3> QED
      BY <1>1, <3>2, <1>s, SilentOK DEF ReceiveChannel
  <2>2. CASE Event(i).cb # "name"
    BY <1>1, <2>2, <1>b, <1>s, SilentOK, ShowOK DEF ReceiveChannel
  <2> QED
    BY <2>1, <2>2
<1>2. CASE ReceiveUpload(i)
  BY <1>2, <1>b, <1>r, <1>s, ShortNoFlow, TalkOK, ShowOK DEF ReceiveUpload
<1>3. CASE ReceiveTimes(i)
  <2> DEFINE times == Event(i).arg
  <2>1. CASE Refuse(i)
    BY <1>3, <2>1, <1>r DEF ReceiveTimes
  <2>2. CASE /\ Event(i).cb = "times" /\ Distinct(times) /\ SaveTimes(i, AsSet(times))
             /\ Flow(i).expected # 0 => Len(times) = Flow(i).expected
    <3>1. times \in Seq(Time) /\ AsSet(times) \in SUBSET Time
      BY <2>2 DEF TextOK, AsSet
    <3>2. Goes(i) /\ upd'[i].pc = "save" /\ upd'[i].writes.times = AsSet(times)
      BY <2>2, <3>1, SaveTimesOK
    <3>3. Flow(i).expected # 0 => Cardinality(AsSet(times)) = Expected(Flow(i))
      BY <2>2 DEF Distinct, AsSet, Expected
    <3>4. Talks(i)
      BY <1>3, SilentOK DEF ReceiveTimes
    <3>5. ~upd[i].press
      OBVIOUS
    <3> QED
      BY <3>2, <3>3, <3>4, <3>5 DEF Handled, Saves
  <2> QED
    BY <1>3, <2>1, <2>2 DEF ReceiveTimes
<1> QED
  BY <1>1, <1>2, <1>3

LEMMA HandlerOK ==
    ASSUME TypeInv, NEW i \in Slot, upd[i].pc = "new", Routed(i), Handler(i)
    PROVE  Handled(i)
<1>1. /\ U(i) \in User /\ upd[i].press \in BOOLEAN
      /\ IF upd[i].press THEN Event(i) \in Key ELSE TextOK(Event(i))
  BY DEF TypeInv, UpdOK, U, Event
<1>2. CASE \/ InFlow(i, "identifier") /\ ReceiveChannel(i)
           \/ InFlow(i, "times") /\ ReceiveTimes(i)
           \/ InFlow(i, "file") /\ ReceiveUpload(i)
  BY <1>1, <1>2, TextsOK DEF InFlow
<1>3. CASE \/ ShowMenu(i) \/ ShowChannels(i) \/ ShowScheduler(i) \/ ShowPanel(i)
           \/ DownloadLogs(i) \/ Start(i) \/ Help(i) \/ Language(i)
  BY <1>1, <1>3, ScreensOK
<1>4. CASE /\ upd[i].press \/ upd[i].raw = "none"
           /\ \/ ChangeSchedulePrefs(i) \/ SetContentLanguage(i) \/ SetLanguage(i)
              \/ Suspend(i) \/ RemoveChannel(i)
              \/ PromptForTimes(i) \/ PickHour(i) \/ PickMinute(i) \/ UndoPick(i)
  <2>1. upd[i].press \/ Event(i).cb \in Commands \cup {"/menu", "/cancel"}
    BY <1>1, <1>4 DEF Routed
  <2>2. Event(i).cb \notin Commands \cup {"/menu", "/cancel"}
    BY <1>4 DEF Commands, ChangeSchedulePrefs, SetContentLanguage, SetLanguage, Suspend,
                RemoveChannel, PromptForTimes, PickHour, PickMinute, UndoPick
  <2>3. Event(i) \in Key
    BY <1>1, <2>1, <2>2
  <2> QED
    BY <1>1, <1>4, <2>3, WritesOK, PicksOK
<1> QED
  BY <1>2, <1>3, <1>4 DEF Handler

(***************************************************************************)
(* How a step of one update carries over.                                  *)
(***************************************************************************)
UpdsOK == DOMAIN upd = Slot /\ \A i \in Slot : UpdOK(upd[i])

LEMMA NoUpdateOK == UpdOK(NoUpdate) /\ NoUpdate.pc = "none" /\ NoUpdate.writes.what = "nothing"
BY DEF UpdOK, NoUpdate, Fields, Pcs, InSession, TextOK, Plain, Button, NoReply, WriteOK, NoWrite

LEMMA OthersOK ==
    ASSUME TypeInv, NEW i \in Slot, Others(i), UpdOK(upd'[i])
    PROVE  UpdsOK'
BY DEF TypeInv, Others, UpdsOK

LEMMA EndOK ==
    ASSUME TypeInv, NEW i \in Slot, upd' = [upd EXCEPT ![i] = NoUpdate]
    PROVE  UpdsOK' /\ Others(i) /\ upd'[i] = NoUpdate
<1>1. Others(i) /\ upd'[i] = NoUpdate
  BY DEF TypeInv, Others
<1> QED
  BY <1>1, NoUpdateOK, OthersOK

LEMMA RowsKept ==
    ASSUME RowsOwned, NEW i \in Slot, Others(i), UNCHANGED chan,
           \/ U(i)' = U(i) /\ upd'[i].writes = upd[i].writes
           \/ upd'[i].writes.what # "chan"
    PROVE  RowsOwned'
<1>1. \A j \in Slot : \A c \in Chat :
         WritesChat(upd'[j], c) => WritesChat(upd[j], c) /\ U(j)' = U(j)
  BY DEF Others, WritesChat, U
<1>2. \A j \in Slot : \A c \in Chat : WritesChat(upd[j], c)' = WritesChat(upd'[j], c)
  BY DEF WritesChat
<1> QED
  BY <1>1, <1>2 DEF RowsOwned

LEMMA RowsTaken ==
    ASSUME RowsOwned, NEW i \in Slot, Others(i), UNCHANGED chan, U(i)' = U(i), U(i) \in User,
           \A c \in Chat : WritesChat(upd'[i], c) => chan[c].owner = U(i)
    PROVE  RowsOwned'
<1>1. \A j \in Slot \ {i} : \A c \in Chat :
         WritesChat(upd'[j], c) => WritesChat(upd[j], c) /\ U(j)' = U(j)
  BY DEF Others, WritesChat, U
<1>2. \A j \in Slot : \A c \in Chat :
         WritesChat(upd'[j], c) => chan[c].owner \in {U(j)', NoUser}
  BY <1>1 DEF RowsOwned
<1>3. \A j \in Slot \ {i} : \A c \in Chat :
         WritesChat(upd'[j], c) /\ WritesChat(upd'[i], c) => U(j)' = U(i)'
  BY <1>1, PanelAssumption DEF RowsOwned
<1>4. \A j, k \in Slot \ {i} : \A c \in Chat :
         WritesChat(upd'[j], c) /\ WritesChat(upd'[k], c) => U(j)' = U(k)'
  BY <1>1 DEF RowsOwned
<1>5. \A j \in Slot : \A c \in Chat : WritesChat(upd[j], c)' = WritesChat(upd'[j], c)
  BY DEF WritesChat
<1>6. \A j, k \in Slot : \A c \in Chat :
         WritesChat(upd'[j], c) /\ WritesChat(upd'[k], c) => U(j)' = U(k)'
  BY <1>3, <1>4
<1> QED
  BY <1>2, <1>5, <1>6 DEF RowsOwned

LEMMA RowsCommitted ==
    ASSUME TypeInv, RowsOwned, NEW i \in Slot, Others(i), CommitWrites(i),
           upd'[i].writes.what # "chan"
    PROVE  RowsOwned'
<1>1. \A j \in Slot : \A c \in Chat :
         WritesChat(upd'[j], c) => WritesChat(upd[j], c) /\ U(j)' = U(j)
  BY DEF Others, WritesChat, U
<1>2. \A c \in Chat : \/ chan'[c] = chan[c]
                      \/ WritesChat(upd[i], c) /\ chan'[c].owner = U(i)
  <2> SUFFICES ASSUME NEW c \in Chat
               PROVE  \/ chan'[c] = chan[c]
                      \/ WritesChat(upd[i], c) /\ chan'[c].owner = U(i)
    OBVIOUS
  <2>1. WriteOK(upd[i].writes, U(i)) /\ DOMAIN chan = Chat
    BY DEF TypeInv, UpdOK, U
  <2>2. CASE upd[i].writes.what = "chan"
    <3>1. chan' = [chan EXCEPT ![upd[i].writes.chat] = upd[i].writes.row]
      BY <2>2 DEF CommitWrites
    <3>2. upd[i].writes.row.owner = U(i)
      BY <2>1, <2>2 DEF WriteOK
    <3>3. CASE upd[i].writes.chat = c
      <4>1. chan'[c] = upd[i].writes.row
        BY <2>1, <3>1, <3>3
      <4> QED
        BY <2>2, <3>2, <3>3, <4>1 DEF WritesChat
    <3>4. CASE upd[i].writes.chat # c
      BY <2>1, <3>1, <3>4
    <3> QED
      BY <3>3, <3>4
  <2>3. CASE upd[i].writes.what # "chan"
    <3>1. chan' = chan
      BY <2>3 DEF CommitWrites
    <3> QED
      BY <3>1
  <2> QED
    BY <2>2, <2>3
<1>3. \A j \in Slot : \A c \in Chat :
         WritesChat(upd'[j], c) => chan'[c].owner \in {U(j)', NoUser}
  BY <1>1, <1>2 DEF RowsOwned
<1>4. \A j, k \in Slot : \A c \in Chat :
         WritesChat(upd'[j], c) /\ WritesChat(upd'[k], c) => U(j)' = U(k)'
  BY <1>1 DEF RowsOwned
<1>5. \A j \in Slot : \A c \in Chat : WritesChat(upd[j], c)' = WritesChat(upd'[j], c)
  BY DEF WritesChat
<1> QED
  BY <1>3, <1>4, <1>5 DEF RowsOwned

LEMMA PicksKept ==
    ASSUME PicksShort, NEW i \in Slot, Others(i), UNCHANGED fsm,
           \/ upd[i].pc \notin {"save", "reload"}
           \/ U(i)' = U(i) /\ upd'[i].pc \in {"save", "reload"}
    PROVE  PicksShort'
<1>1. \A u \in User : Saving(u) => Saving(u)'
  BY DEF Saving, Others, U
<1>2. \A u \in User : Short(fsm[u]) => Short(fsm[u])'
  OBVIOUS
<1> QED
  BY <1>1, <1>2 DEF PicksShort

LEMMA PicksCleared ==
    ASSUME TypeInv, PicksShort, NEW i \in Slot, Others(i), Talk(i, NoFlow)
    PROVE  PicksShort'
<1>1. \A u \in User \ {U(i)} : fsm'[u] = fsm[u] /\ (Saving(u) => Saving(u)')
  BY DEF Saving, Others, U, Talk, TypeInv
<1>2. U(i) \in User => fsm'[U(i)] = NoFlow
  BY DEF Talk, TypeInv
<1>3. \A u \in User : Saving(u)' \/ Short(fsm'[u])
  BY <1>1, <1>2, ShortNoFlow DEF PicksShort
<1>4. \A u \in User : Short(fsm[u])' = Short(fsm'[u])
  BY DEF Short, Expected
<1> QED
  BY <1>3, <1>4 DEF PicksShort

(* commit() writes values of the right types. *)
LEMMA CommitOK ==
    ASSUME TypeInv, NEW i \in Slot, upd[i].pc # "none", CommitWrites(i)
    PROVE  /\ known' \subseteq User
           /\ slots' \in [User -> SUBSET Time]
           /\ prefs' \in [User -> Preference]
           /\ chan' \in [Chat -> ChannelRow]
<1> DEFINE w == upd[i].writes
           u == U(i)
<1>1. u \in User /\ WriteOK(w, u)
  BY DEF TypeInv, UpdOK, U
<1>2. known' \subseteq User /\ slots' \in [User -> SUBSET Time]
  BY <1>1 DEF CommitWrites, TypeInv, WriteOK
<1>3. chan' \in [Chat -> ChannelRow]
  BY <1>1 DEF CommitWrites, TypeInv, WriteOK
<1>4. prefs' \in [User -> Preference]
  <2>1. CASE w.what # "prefs"
    BY <2>1 DEF CommitWrites, TypeInv
  <2>2. CASE w.what = "prefs"
    <3>1. [prefs[u] EXCEPT ![w.key] = w.value] \in Preference
      BY <1>1, <2>2 DEF WriteOK, TypeInv, Preference
    <3>2. prefs' = [prefs EXCEPT ![u] = [prefs[u] EXCEPT ![w.key] = w.value]]
      BY <2>2 DEF CommitWrites
    <3> QED
      BY <3>1, <3>2 DEF TypeInv
  <2> QED
    BY <2>1, <2>2
<1> QED
  BY <1>2, <1>3, <1>4

(***************************************************************************)
(* Each action keeps the invariant.                                        *)
(***************************************************************************)
LEMMA FailKeeps ==
    ASSUME IInv, NEW i \in Slot, upd[i].pc \notin {"save", "reload"},
           NEW told \in BOOLEAN, told \/ upd[i].pc \in {"reply", "tell"},
           Fail(i, told), UNCHANGED <<fsm, scope>>, recent' \subseteq User
    PROVE  IInv'
<1>1. UpdsOK' /\ Others(i) /\ upd'[i] = NoUpdate
  BY EndOK DEF Fail, IInv
<1>2. spinning' \subseteq {"sc:batch"}
  <2>1. told \/ upd[i].answered \/ Event(i).cb = "sc:batch"
    BY DEF IInv, TypeInv, UpdOK, InSession, Event
  <2>2. spinning \subseteq {"sc:batch"}
    BY DEF IInv, TypeInv, EveryPressAnswered
  <2> QED
    BY <2>1, <2>2 DEF Fail, Spins
<1>3. TypeInv'
  BY <1>1, <1>2 DEF IInv, TypeInv, UpdsOK, Fail, dbVars, scope, ReachOK, EveryPressAnswered
<1>4. RowsOwned'
  BY <1>1, NoUpdateOK, RowsKept DEF IInv, Fail, dbVars
<1>5. PicksShort'
  BY <1>1, PicksKept DEF IInv
<1> QED
  BY <1>3, <1>4, <1>5 DEF IInv

LEMMA DismissKeeps ==
    ASSUME IInv, NEW i \in Slot, NEW answered \in BOOLEAN, upd[i].pc = "new",
           Dismiss(i, answered), ~upd[i].press \/ answered,
           UNCHANGED <<fsm, scope>>, recent' \subseteq User
    PROVE  IInv'
<1>1. UpdsOK' /\ Others(i) /\ upd'[i] = NoUpdate
  BY EndOK DEF Dismiss, IInv
<1>2. spinning' = spinning
  BY DEF Dismiss, Spins
<1>3. known' \subseteq User
  BY DEF Dismiss, IInv, TypeInv, UpdOK, U
<1>4. TypeInv'
  BY <1>1, <1>2, <1>3 DEF IInv, TypeInv, UpdsOK, Dismiss, scope, ReachOK, EveryPressAnswered
<1>5. RowsOwned'
  BY <1>1, NoUpdateOK, RowsKept DEF IInv, Dismiss
<1>6. PicksShort'
  BY <1>1, PicksKept DEF IInv
<1> QED
  BY <1>4, <1>5, <1>6 DEF IInv

LEMMA BeforeHandlerKeeps ==
    ASSUME IInv, NEW i \in Slot,
           TouchFails(i) \/ Unhandled(i) \/ Throttled(i) \/ Denied(i)
    PROVE  IInv'
<1>1. upd[i].pc = "new"
  BY DEF TouchFails, Unhandled, Throttled, Denied, Touched, Ready
<1>2. U(i) \in User /\ recent \subseteq User
  BY <1>1 DEF IInv, TypeInv, UpdOK, U
<1>3. CASE TouchFails(i)
  BY <1>1, <1>2, <1>3, FailKeeps DEF TouchFails
<1>4. CASE Unhandled(i)
  <2>1. ~upd[i].press /\ Dismiss(i, FALSE) /\ UNCHANGED <<fsm, recent, scope>>
    BY <1>4 DEF Unhandled, Routed
  <2> QED
    BY <1>1, <1>2, <2>1, DismissKeeps
<1>5. CASE Throttled(i)
  <2>1. Dismiss(i, TRUE) /\ UNCHANGED <<fsm, recent, scope>>
    BY <1>5 DEF Throttled
  <2> QED
    BY <1>1, <1>2, <2>1, DismissKeeps
<1>6. CASE Denied(i)
  <2>1. Dismiss(i, TRUE) /\ UNCHANGED <<fsm, scope>> /\ recent' \subseteq User
    BY <1>2, <1>6 DEF Denied
  <2> QED
    BY <1>1, <2>1, DismissKeeps
<1> QED
  BY <1>3, <1>4, <1>5, <1>6

LEMMA HandleKeeps == ASSUME IInv, NEW i \in Slot, Handle(i) PROVE IInv' /\ Handled(i)
<1>1. /\ upd[i].pc = "new" /\ ~Waiting(i) /\ Routed(i) /\ Handler(i) /\ TypeInv
      /\ recent' = recent \cup {U(i)} /\ UNCHANGED <<dbVars, screen, spinning, scope>>
  BY DEF Handle, Touched, Ready, IInv
<1>2. U(i) \in User /\ UpdOK(upd[i]) /\ DOMAIN fsm = User
  BY <1>1 DEF TypeInv, UpdOK, U
<1>3. Handled(i)
  BY <1>1, HandlerOK
<1>4. UpdOK(upd'[i])
  BY <1>2, <1>3 DEF Handled, Goes, UpdOK, Pcs, InSession, U, Event
<1>5. UpdsOK' /\ Others(i)
  BY <1>1, <1>3, <1>4, OthersOK DEF Handled, Goes
<1>6. PICK f \in Conversation :
         /\ fsm' = [fsm EXCEPT ![U(i)] = f] /\ FlowOK(f)
         /\ upd'[i].pc = "save" \/ (Short(Flow(i)) => Short(f))
  BY <1>3 DEF Handled, Talks
<1>7. TypeInv'
  BY <1>1, <1>2, <1>5, <1>6 DEF TypeInv, UpdsOK, dbVars, scope, ReachOK, EveryPressAnswered
<1>8. RowsOwned'
  BY <1>1, <1>2, <1>3, RowsTaken DEF IInv, Handled, Goes, dbVars
<1>9. PicksShort'
  <2>1. \A u \in User \ {U(i)} : fsm'[u] = fsm[u] /\ (Saving(u) => Saving(u)')
    BY <1>2, <1>5, <1>6 DEF Saving, Others, U
  <2>2. Saving(U(i))' \/ Short(fsm'[U(i)])
    <3>1. CASE upd'[i].pc = "save"
      <4>1. U(i)' = U(i)
        BY <1>3 DEF Handled, Goes
      <4>2. \E j \in Slot : upd'[j].user = upd[i].user /\ upd'[j].pc \in {"save", "reload"}
        BY <3>1, <4>1 DEF U
      <4> QED
        BY <4>1, <4>2 DEF Saving, U
    <3>2. CASE Saving(U(i)) /\ upd'[i].pc # "save"
      <4>1. PICK j \in Slot : U(j) = U(i) /\ upd[j].pc \in {"save", "reload"}
        BY <3>2 DEF Saving
      <4>2. j # i /\ upd'[j] = upd[j]
        BY <1>1, <1>5, <4>1 DEF Others
      <4>3. upd'[i].user = upd[i].user
        BY <1>3 DEF Handled, Goes, U
      <4> QED
        BY <4>1, <4>2, <4>3 DEF Saving, U
    <3>3. CASE ~Saving(U(i)) /\ upd'[i].pc # "save"
      BY <1>2, <1>6, <3>3 DEF IInv, PicksShort, Flow
    <3> QED
      BY <3>1, <3>2, <3>3
  <2>3. \A u \in User : Saving(u)' \/ Short(fsm'[u])
    <3> TAKE u \in User
    <3>1. CASE u = U(i)
      <4>1. upd'[i].user = upd[i].user
        BY <1>3 DEF Handled, Goes, U
      <4> QED
        BY <2>2, <3>1, <4>1 DEF Saving, U
    <3>2. CASE u # U(i)
      BY <2>1, <3>2 DEF IInv, PicksShort
    <3> QED
      BY <3>1, <3>2
  <2>4. \A u \in User : Short(fsm[u])' = Short(fsm'[u])
    BY DEF Short, Expected
  <2> QED
    BY <2>3, <2>4 DEF PicksShort
<1> QED
  BY <1>3, <1>7, <1>8, <1>9 DEF IInv

LEMMA VerifyKeeps ==
    ASSUME IInv, NEW i \in Slot, Refused(i) \/ Verified(i)
    PROVE  IInv'
<1> DEFINE c == Event(i).arg
           w == Row(c, [owner |-> U(i), active |-> TRUE])
<1>1. /\ upd[i].pc = "verify" /\ TypeInv /\ UpdOK(upd[i]) /\ DOMAIN upd = Slot
      /\ UNCHANGED <<dbVars, recent, screen, spinning, scope>>
  BY DEF Refused, Verified, IInv, TypeInv
<1>2. /\ U(i) \in User /\ c \in Chat /\ DOMAIN upd[i] = Fields /\ Back("ch") \subseteq Key
      /\ upd[i].writes = NoWrite /\ (upd[i].answered \/ Event(i).cb = "sc:batch")
  BY <1>1, KeyboardsAreKeys DEF UpdOK, U, Event, InSession
<1>3. WriteOK(w, U(i)) /\ w.what = "chan" /\ w.chat = c
  BY <1>2 DEF WriteOK, Row, ChannelRow
<1>4. Others(i)
  BY <1>1 DEF Refused, Verified, Others
<1>5. /\ DOMAIN upd'[i] = Fields /\ upd'[i].user = upd[i].user /\ upd'[i].event = upd[i].event
      /\ upd'[i].press = upd[i].press /\ upd'[i].answered = upd[i].answered
      /\ \/ upd'[i].pc = "reply" /\ upd'[i].reply = Back("ch") /\ upd'[i].writes = NoWrite
         \/ /\ upd'[i].pc = "reply" /\ upd'[i].reply = Back("ch") /\ upd'[i].writes = w
            /\ chan[c].owner = U(i)
         \/ upd'[i].pc = "insert" /\ upd'[i].reply = upd[i].reply /\ upd'[i].writes = NoWrite
  BY <1>1, <1>2 DEF Refused, Verified, Fields
<1> HIDE DEF w
<1>6. UpdOK(upd'[i])
  BY <1>1, <1>2, <1>3, <1>5, NoWriteOK DEF UpdOK, Pcs, InSession, U, Event
<1>7. (UNCHANGED fsm \/ Talk(i, NoFlow)) /\ UpdsOK'
  BY <1>1, <1>4, <1>6, OthersOK DEF Refused, Verified, Silent
<1>8. fsm' \in [User -> Conversation] /\ \A u \in User : FlowOK(fsm'[u])
  BY <1>1, <1>7, ShortNoFlow DEF Talk, TypeInv, FlowOK
<1>9. TypeInv'
  BY <1>1, <1>7, <1>8 DEF TypeInv, UpdsOK, dbVars, scope, ReachOK, EveryPressAnswered
<1>10. \A d \in Chat : WritesChat(upd'[i], d) => chan[d].owner = U(i)
  BY <1>3, <1>5, NoWriteOK DEF WritesChat
<1>11. RowsOwned'
  BY <1>1, <1>2, <1>4, <1>5, <1>10, RowsTaken DEF IInv, U, dbVars
<1>12. PicksShort'
  BY <1>1, <1>4, <1>7, PicksKept, PicksCleared DEF IInv
<1> QED
  BY <1>9, <1>11, <1>12 DEF IInv

LEMMA InsertKeeps == ASSUME IInv, NEW i \in Slot, Insert(i) PROVE IInv'
<1> DEFINE c == Event(i).arg
           w == Row(c, [owner |-> U(i), active |-> TRUE])
<1>1. /\ upd[i].pc = "insert" /\ TypeInv /\ UpdOK(upd[i]) /\ DOMAIN upd = Slot
      /\ UNCHANGED <<recent, scope>>
  BY DEF Insert, IInv, TypeInv
<1>2. /\ U(i) \in User /\ c \in Chat /\ DOMAIN upd[i] = Fields /\ Back("ch") \subseteq Key
      /\ upd[i].writes = NoWrite /\ (upd[i].answered \/ Event(i).cb = "sc:batch")
  BY <1>1, KeyboardsAreKeys DEF UpdOK, U, Event, InSession
<1>3. CASE UNCHANGED fsm /\ Fail(i, TRUE)
  <2>1. UNCHANGED <<fsm, scope>> /\ recent' \subseteq User /\ upd[i].pc \notin {"save", "reload"}
    BY <1>1, <1>3 DEF TypeInv
  <2> QED
    BY <1>3, <2>1, FailKeeps
<1>4. CASE /\ chan[c] = NoChannel /\ Talk(i, NoFlow)
           /\ \A j \in Slot \ {i} : upd[j].writes.what = "chan" => upd[j].writes.chat # c
           /\ upd' = [upd EXCEPT ![i].pc = "reply", ![i].reply = Back("ch"), ![i].writes = w]
           /\ UNCHANGED <<dbVars, screen, spinning>>
  <2>1. WriteOK(w, U(i)) /\ w.what = "chan" /\ w.chat = c
    BY <1>2 DEF WriteOK, Row, ChannelRow
  <2> HIDE DEF w
  <2>2. /\ Others(i) /\ DOMAIN upd'[i] = Fields
        /\ upd'[i].user = upd[i].user /\ upd'[i].event = upd[i].event
        /\ upd'[i].press = upd[i].press /\ upd'[i].answered = upd[i].answered
        /\ upd'[i].pc = "reply" /\ upd'[i].reply = Back("ch") /\ upd'[i].writes = w
    BY <1>1, <1>2, <1>4 DEF Others, Fields
  <2>3. UpdOK(upd'[i])
    BY <1>1, <1>2, <2>1, <2>2 DEF UpdOK, Pcs, InSession, U, Event
  <2>4. UpdsOK'
    BY <1>1, <2>2, <2>3, OthersOK
  <2>5. fsm' \in [User -> Conversation] /\ \A u \in User : FlowOK(fsm'[u])
    BY <1>1, <1>4, ShortNoFlow DEF Talk, TypeInv, FlowOK
  <2>6. TypeInv'
    BY <1>1, <1>4, <2>4, <2>5 DEF TypeInv, UpdsOK, dbVars, scope, ReachOK, EveryPressAnswered
  <2>7. RowsOwned'
    <3>1. \A j \in Slot \ {i} : \A d \in Chat :
             WritesChat(upd'[j], d) => WritesChat(upd[j], d) /\ U(j)' = U(j) /\ d # c
      BY <1>4, <2>2 DEF Others, WritesChat, U
    <3>2. \A d \in Chat : WritesChat(upd'[i], d) => d = c
      BY <2>1, <2>2 DEF WritesChat
    <3>3. chan' = chan /\ chan[c].owner = NoUser
      BY <1>4 DEF dbVars, NoChannel
    <3>4. \A j \in Slot : \A d \in Chat :
             WritesChat(upd'[j], d) => chan'[d].owner \in {U(j)', NoUser}
      BY <3>1, <3>2, <3>3 DEF IInv, RowsOwned
    <3>5. \A j, k \in Slot : \A d \in Chat :
             WritesChat(upd'[j], d) /\ WritesChat(upd'[k], d) => U(j)' = U(k)'
      BY <3>1, <3>2 DEF IInv, RowsOwned
    <3>6. \A j \in Slot : \A d \in Chat : WritesChat(upd[j], d)' = WritesChat(upd'[j], d)
      BY DEF WritesChat
    <3> QED
      BY <3>4, <3>5, <3>6 DEF RowsOwned
  <2>8. PicksShort'
    BY <1>1, <1>4, <2>2, PicksCleared DEF IInv
  <2> QED
    BY <2>6, <2>7, <2>8 DEF IInv
<1> QED
  BY <1>3, <1>4 DEF Insert, Silent

LEMMA SaveCommitKeeps == ASSUME IInv, NEW i \in Slot, SaveCommit(i) PROVE IInv'
<1>1. /\ upd[i].pc \in {"save", "commit"} /\ TypeInv /\ UpdOK(upd[i]) /\ DOMAIN upd = Slot
      /\ CommitWrites(i) /\ UNCHANGED <<fsm, recent, screen, spinning, scope>>
  BY DEF SaveCommit, IInv, TypeInv
<1>2. /\ Others(i) /\ DOMAIN upd'[i] = Fields
      /\ upd'[i].pc = IF upd[i].pc = "save" THEN "reload" ELSE "flag"
      /\ upd'[i].writes = NoWrite /\ upd'[i].user = upd[i].user /\ upd'[i].event = upd[i].event
      /\ upd'[i].press = upd[i].press /\ upd'[i].answered = upd[i].answered
      /\ upd'[i].reply = upd[i].reply
  BY <1>1 DEF SaveCommit, Others, UpdOK, Fields
<1>3. UpdOK(upd'[i])
  BY <1>1, <1>2, NoWriteOK DEF UpdOK, Pcs, InSession
<1>4. UpdsOK'
  BY <1>1, <1>2, <1>3, OthersOK
<1>5. TypeInv'
  BY <1>1, <1>4, CommitOK DEF TypeInv, UpdsOK, scope, ReachOK, EveryPressAnswered
<1>6. RowsOwned'
  BY <1>1, <1>2, NoWriteOK, RowsCommitted DEF IInv
<1>7. PicksShort'
  BY <1>1, <1>2, PicksKept DEF IInv, U
<1> QED
  BY <1>5, <1>6, <1>7 DEF IInv

LEMMA SchedulerKeeps == ASSUME IInv, NEW i \in Slot, Reloaded(i) \/ Flagged(i) PROVE IInv'
<1>1. /\ upd[i].pc \in {"reload", "flag"} /\ TypeInv /\ UpdOK(upd[i]) /\ DOMAIN upd = Slot
      /\ U(i) \in User /\ UNCHANGED <<known, slots, chan, recent, screen, spinning, scope>>
  BY DEF Reloaded, Flagged, IInv, TypeInv, UpdOK, U, dbVars
<1>2. /\ Others(i) /\ DOMAIN upd'[i] = Fields /\ upd'[i].pc = "tell"
      /\ upd'[i].writes = upd[i].writes /\ upd'[i].user = upd[i].user
      /\ upd'[i].event = upd[i].event /\ upd'[i].press = upd[i].press
      /\ upd'[i].reply = upd[i].reply
      /\ \/ upd[i].pc = "reload" /\ upd'[i].answered = upd[i].answered
         \/ upd'[i].answered = TRUE
  BY <1>1 DEF Reloaded, Flagged, Others, UpdOK, Fields
<1>3. UpdOK(upd'[i])
  BY <1>1, <1>2 DEF UpdOK, Pcs, InSession
<1>4. UpdsOK'
  BY <1>1, <1>2, <1>3, OthersOK
<1>5. RowsOwned'
  BY <1>1, <1>2, RowsKept DEF IInv, U
<1>6. CASE Reloaded(i)
  <2>1. fsm' \in [User -> Conversation] /\ \A u \in User : FlowOK(fsm'[u])
    BY <1>1, <1>6, ShortNoFlow DEF Reloaded, Talk, TypeInv, FlowOK
  <2>2. TypeInv'
    BY <1>1, <1>4, <1>6, <2>1 DEF Reloaded, TypeInv, UpdsOK, dbVars, scope, ReachOK, EveryPressAnswered
  <2>3. PicksShort'
    BY <1>1, <1>2, <1>6, PicksCleared DEF IInv, Reloaded
  <2> QED
    BY <1>5, <2>2, <2>3 DEF IInv
<1>7. CASE Flagged(i)
  <2>1. [prefs[U(i)] EXCEPT !.paused = Event(i).cb = "sc:pause"] \in Preference
    BY <1>1 DEF TypeInv, Preference
  <2>2. prefs' \in [User -> Preference] /\ UNCHANGED fsm /\ upd[i].pc = "flag"
    BY <1>1, <1>7, <2>1 DEF Flagged, TypeInv
  <2>3. TypeInv'
    BY <1>1, <1>4, <2>2 DEF TypeInv, UpdsOK, scope, ReachOK, EveryPressAnswered
  <2>4. PicksShort'
    BY <1>2, <2>2, PicksKept DEF IInv
  <2> QED
    BY <1>5, <2>3, <2>4 DEF IInv
<1> QED
  BY <1>6, <1>7

LEMMA ReplyKeeps == ASSUME IInv, NEW i \in Slot, Reply(i) \/ ReplyFails(i) PROVE IInv'
<1>1. /\ upd[i].pc \in {"reply", "tell"} /\ TypeInv /\ UpdOK(upd[i])
      /\ UNCHANGED <<fsm, recent, scope>>
  BY DEF Reply, ReplyFails, IInv, TypeInv
<1>2. CASE ReplyFails(i)
  <2>1. PICK told \in BOOLEAN : Fail(i, told)
    BY <1>2 DEF ReplyFails
  <2>2. UNCHANGED <<fsm, scope>> /\ recent' \subseteq User
    BY <1>1 DEF TypeInv
  <2> QED
    BY <1>1, <2>1, <2>2, FailKeeps
<1>3. CASE Reply(i)
  <2>1. UpdsOK' /\ Others(i) /\ upd'[i] = NoUpdate
    BY <1>1, <1>3, EndOK DEF Reply
  <2>2. spinning' \subseteq {"sc:batch"}
    BY <1>1, <1>3 DEF Reply, Spins, UpdOK, InSession, Event, TypeInv, EveryPressAnswered
  <2>3. screen' \in [User -> [Msg -> SUBSET Key]]
    BY <1>1, <1>3 DEF Reply, UpdOK, TypeInv, U
  <2>4. CommitWrites(i) /\ upd[i].pc # "none"
    BY <1>1, <1>3 DEF Reply
  <2>5. TypeInv'
    BY <1>1, <2>1, <2>2, <2>3, <2>4, CommitOK DEF TypeInv, UpdsOK, scope, ReachOK, EveryPressAnswered
  <2>6. RowsOwned'
    BY <1>1, <2>1, <2>4, NoUpdateOK, RowsCommitted DEF IInv
  <2>7. PicksShort'
    BY <1>1, <2>1, PicksKept DEF IInv
  <2> QED
    BY <2>5, <2>6, <2>7 DEF IInv
<1> QED
  BY <1>2, <1>3

LEMMA ArriveKeeps ==
    ASSUME IInv, NEW u \in User, NEW press \in BOOLEAN, NEW event, NEW m,
           Arrive(u, press, event, m), IF press THEN event \in Key ELSE TextOK(event)
    PROVE  IInv'
<1>1. PICK i \in Slot :
         /\ upd[i].pc = "none"
         /\ upd' = [upd EXCEPT ![i] = [NoUpdate EXCEPT
                      !.pc = "new", !.user = u, !.event = event, !.press = press,
                      !.on = m, !.raw = fsm[u].state, !.new = u \notin known]]
         /\ UNCHANGED <<dbVars, fsm, recent, screen, spinning, reach>>
  BY DEF Arrive
<1> DEFINE x == [NoUpdate EXCEPT !.pc = "new", !.user = u, !.event = event, !.press = press,
                                 !.on = m, !.raw = fsm[u].state, !.new = u \notin known]
<1>2. /\ DOMAIN x = Fields /\ x.pc = "new" /\ x.user = u /\ x.event = event /\ x.press = press
      /\ x.writes = NoWrite /\ x.reply = NoReply /\ x.answered = FALSE
  BY DEF NoUpdate, Fields
<1>3. UpdOK(x)
  BY <1>1, <1>2, NoWriteOK, KeyboardsAreKeys DEF UpdOK, Pcs, InSession
<1> HIDE DEF x
<1>4. Others(i) /\ upd'[i] = x
  BY <1>1 DEF Others, IInv, TypeInv, x
<1>5. UpdsOK'
  BY <1>3, <1>4, OthersOK DEF IInv
<1>6. TypeInv'
  BY <1>1, <1>5 DEF IInv, TypeInv, UpdsOK, dbVars, ReachOK, EveryPressAnswered
<1>7. RowsOwned'
  BY <1>1, <1>2, <1>4, NoWriteOK, RowsKept DEF IInv, dbVars
<1>8. PicksShort'
  BY <1>1, <1>4, PicksKept DEF IInv
<1> QED
  BY <1>6, <1>7, <1>8 DEF IInv

LEMMA RestartKeeps == ASSUME IInv, Restart PROVE IInv'
<1>1. DOMAIN upd' = Slot /\ \A i \in Slot : upd'[i] = NoUpdate /\ U(i)' = NoUpdate.user
  BY DEF Restart, U
<1>2. \A u \in User : fsm'[u] = NoFlow
  BY DEF Restart
<1>3. fsm' \in [User -> Conversation] /\ \A u \in User : FlowOK(fsm'[u])
  BY <1>2, ShortNoFlow DEF Restart, FlowOK
<1>4. TypeInv'
  BY <1>1, <1>3, NoUpdateOK DEF Restart, IInv, TypeInv, dbVars, ReachOK, EveryPressAnswered
<1>5. RowsOwned'
  BY <1>1, NoUpdateOK DEF RowsOwned, WritesChat
<1>6. \A u \in User : Short(fsm[u])' = Short(fsm'[u])
  BY DEF Short, Expected
<1>7. PicksShort'
  BY <1>2, <1>6, ShortNoFlow DEF PicksShort
<1> QED
  BY <1>4, <1>5, <1>7 DEF IInv

LEMMA StepKeeps == ASSUME IInv, NEW i \in Slot, Step(i) PROVE IInv'
<1>1. CASE TouchFails(i) \/ Unhandled(i) \/ Throttled(i) \/ Denied(i)
  BY <1>1, BeforeHandlerKeeps
<1>2. CASE Handle(i)
  BY <1>2, HandleKeeps
<1>3. CASE Refused(i) \/ Verified(i)
  BY <1>3, VerifyKeeps
<1>4. CASE Insert(i)
  BY <1>4, InsertKeeps
<1>5. CASE SaveCommit(i)
  BY <1>5, SaveCommitKeeps
<1>6. CASE Reloaded(i) \/ Flagged(i)
  BY <1>6, SchedulerKeeps
<1>7. CASE Reply(i) \/ ReplyFails(i)
  BY <1>7, ReplyKeeps
<1> QED
  BY <1>1, <1>2, <1>3, <1>4, <1>5, <1>6, <1>7 DEF Step

LEMMA NextKeeps == IInv /\ [Next]_vars => IInv'
<1> SUFFICES ASSUME IInv, [Next]_vars PROVE IInv'
  OBVIOUS
<1>1. ASSUME NEW u \in User, Press(u) \/ Type(u) PROVE IInv'
  <2>1. CASE Press(u)
    <3>1. PICK m \in Msg : \E b \in screen[u][m] : Arrive(u, TRUE, b, m)
      BY <2>1 DEF Press
    <3>2. PICK b \in screen[u][m] : Arrive(u, TRUE, b, m)
      BY <3>1
    <3>3. b \in Key
      BY DEF IInv, TypeInv
    <3> QED
      BY <3>2, <3>3, ArriveKeeps
  <2>2. CASE Type(u)
    <3>1. PICK t \in reach.texts, m \in Msg : Arrive(u, FALSE, t, m)
      BY <2>2 DEF Type
    <3>2. TextOK(t)
      BY DEF IInv, TypeInv, ReachOK
    <3> QED
      BY <3>1, <3>2, ArriveKeeps
  <2> QED
    BY <1>1, <2>1, <2>2
<1>2. CASE \E i \in Slot : Step(i)
  BY <1>2, StepKeeps
<1>3. CASE Restart
  BY <1>3, RestartKeeps
<1>4. CASE UNCHANGED vars
  <2>1. UNCHANGED <<known, slots, prefs, chan, fsm, recent, screen, upd, spinning, reach>>
    BY <1>4 DEF vars, dbVars, scope
  <2>2. TypeInv'
    BY <2>1 DEF IInv, TypeInv, ReachOK, EveryPressAnswered
  <2>3. \A i \in Slot : U(i)' = U(i)
    BY <2>1 DEF U
  <2>4. RowsOwned'
    BY <2>1, <2>3 DEF IInv, RowsOwned, WritesChat
  <2>5. PicksShort'
    BY <2>1, <2>3 DEF IInv, PicksShort, Saving, Short, Expected
  <2> QED
    BY <2>2, <2>4, <2>5 DEF IInv
<1> QED
  BY <1>1, <1>2, <1>3, <1>4 DEF Next, Quiescent

(* The invariant holds for any users, chats, keyboards, times and number of
   updates in flight. *)
THEOREM Invariance == Spec => []IInv
BY InitOK, NextKeeps, PTL DEF Spec

(***************************************************************************)
(* What follows.                                                           *)
(***************************************************************************)

(* Rows, conversations and keyboards have their types: a saved time is a time,
   and every button is one the handlers know. *)
THEOREM TypeCorrect == Spec => []TypeOK
BY Invariance, InvTypeOK, PTL DEF IInv

(* No press ends without an answer, but for the batch-size prompt's. *)
THEOREM PressesAnswered == Spec => []EveryPressAnswered
BY Invariance, InvTypeOK, PTL DEF IInv

(* Who changes a row: the user whose update commits. *)
LEMMA CommitTouches ==
    ASSUME IInv, NEW i \in Slot, upd[i].pc # "none", CommitWrites(i),
           NEW u \in User, Touches(u)
    PROVE  u = U(i)
<1> DEFINE w == upd[i].writes
<1>1. WriteOK(w, U(i)) /\ DOMAIN chan = Chat /\ DOMAIN slots = User /\ DOMAIN prefs = User
  BY DEF IInv, TypeInv, UpdOK, U
<1>2. slots'[u] # slots[u] => u = U(i)
  BY <1>1 DEF CommitWrites
<1>3. prefs'[u] # prefs[u] => u = U(i)
  BY <1>1 DEF CommitWrites
<1>4. ASSUME NEW c \in Chat, chan'[c] # chan[c], u \in {chan[c].owner, chan'[c].owner}
      PROVE  u = U(i)
  <2>1. w.what = "chan" /\ chan' = [chan EXCEPT ![w.chat] = w.row] /\ w.row.owner = U(i)
    BY <1>1, <1>4 DEF CommitWrites, WriteOK
  <2>2. c = w.chat /\ chan'[c] = w.row
    BY <1>1, <1>4, <2>1
  <2>3. chan[c].owner \in {U(i), NoUser}
    BY <2>1, <2>2 DEF IInv, RowsOwned, WritesChat
  <2> QED
    BY <1>4, <2>1, <2>2, <2>3, PanelAssumption
<1> QED
  BY <1>2, <1>3, <1>4 DEF Touches

LEMMA TouchesMoves ==
    ASSUME IInv, [Next]_vars, NEW u \in User, Touches(u)
    PROVE  Moves(u)
<1>1. CASE UNCHANGED <<slots, prefs, chan>>
  BY <1>1 DEF Touches
<1>2. ASSUME NEW i \in Slot, SaveCommit(i) \/ Reply(i) PROVE Moves(u)
  <2>1. CommitWrites(i) /\ upd[i].pc \in {"save", "commit", "reply", "tell"} /\ DOMAIN upd = Slot
    BY <1>2 DEF SaveCommit, Reply, IInv, TypeInv
  <2>2. upd'[i] # upd[i]
    BY <1>2, <2>1, NoUpdateOK DEF SaveCommit, Reply, IInv, TypeInv, UpdOK, Fields
  <2> QED
    BY <2>1, <2>2, CommitTouches DEF Moves
<1>3. ASSUME NEW i \in Slot, Flagged(i) PROVE Moves(u)
  <2>1. DOMAIN prefs = User /\ DOMAIN upd = Slot /\ DOMAIN upd[i] = Fields
    BY DEF IInv, TypeInv, UpdOK
  <2>2. u = U(i)
    BY <1>3, <2>1 DEF Flagged, Touches
  <2>3. upd'[i].pc = "tell" /\ upd[i].pc = "flag"
    BY <1>3, <2>1 DEF Flagged, Fields
  <2> QED
    BY <2>2, <2>3 DEF Moves
<1>4. ASSUME NEW i \in Slot, Step(i) PROVE Moves(u)
  <2>1. \/ SaveCommit(i) \/ Reply(i) \/ Flagged(i) \/ UNCHANGED <<slots, prefs, chan>>
    BY <1>4 DEF Step, TouchFails, Unhandled, Throttled, Denied, Handle, Refused, Verified,
                Insert, Reloaded, ReplyFails, Fail, Dismiss, dbVars
  <2> QED
    BY <1>1, <1>2, <1>3, <2>1
<1>5. CASE \/ \E v \in User : Press(v) \/ Type(v)
           \/ Restart \/ UNCHANGED vars
  BY <1>1, <1>5 DEF Press, Type, Arrive, Restart, vars, dbVars
<1> QED
  BY <1>4, <1>5 DEF Next, Quiescent

(* Nobody's schedule, settings or channels are changed by another's update,
   however many of them race. *)
THEOREM TenantsStayApart == Spec => TenantsApart
<1>1. IInv /\ [Next]_vars => [\A u \in User : Touches(u) => Moves(u)]_vars
  BY TouchesMoves
<1> QED
  BY <1>1, Invariance, PTL DEF Spec, TenantsApart

LEMMA StepOthers == ASSUME IInv, NEW i \in Slot, Step(i) PROVE Others(i)
<1>1. DOMAIN upd = Slot
  BY DEF IInv, TypeInv
<1>2. CASE Handle(i)
  BY <1>2, HandleKeeps DEF Handled, Goes
<1>3. CASE TouchFails(i) \/ Unhandled(i) \/ Throttled(i) \/ Denied(i)
  BY <1>1, <1>3 DEF TouchFails, Unhandled, Throttled, Denied, Fail, Dismiss, Others
<1>4. CASE Refused(i) \/ Verified(i) \/ Insert(i)
  BY <1>1, <1>4 DEF Refused, Verified, Insert, Fail, Others
<1>5. CASE SaveCommit(i) \/ Reloaded(i) \/ Flagged(i) \/ Reply(i) \/ ReplyFails(i)
  BY <1>1, <1>5 DEF SaveCommit, Reloaded, Flagged, Reply, ReplyFails, Fail, Others
<1> QED
  BY <1>2, <1>3, <1>4, <1>5 DEF Step

(* Only a handler decides on a save. *)
LEMMA SaveByHandler ==
    ASSUME IInv, [Next]_vars, NEW i \in Slot, upd[i].pc = "new", upd'[i].pc = "save"
    PROVE  Handle(i)
<1>1. DOMAIN upd = Slot /\ DOMAIN upd[i] = Fields
  BY DEF IInv, TypeInv, UpdOK
<1>2. ASSUME NEW j \in Slot, Step(j) PROVE Handle(i)
  <2>1. j = i
    BY <1>2, StepOthers DEF Others
  <2>2. TouchFails(i) \/ Unhandled(i) \/ Throttled(i) \/ Denied(i) \/ Handle(i)
    BY <1>2, <2>1 DEF Step, Refused, Verified, Insert, SaveCommit, Reloaded, Flagged, Reply, ReplyFails
  <2>3. Fail(i, TRUE) \/ Dismiss(i, FALSE) \/ Dismiss(i, TRUE) => upd'[i] = NoUpdate
    BY <1>1 DEF Fail, Dismiss
  <2> QED
    BY <2>2, <2>3, NoUpdateOK DEF TouchFails, Unhandled, Throttled, Denied
<1>3. ASSUME NEW u \in User, NEW press, NEW event, NEW m, Arrive(u, press, event, m)
      PROVE  FALSE
  <2>1. PICK j \in Slot : upd[j].pc = "none" /\ upd' = [upd EXCEPT ![j] = upd'[j]]
    BY <1>1, <1>3 DEF Arrive
  <2> QED
    BY <1>1, <2>1
<1>4. (\E u \in User : Press(u) \/ Type(u)) => FALSE
  BY <1>3 DEF Press, Type
<1>5. Restart => FALSE
  BY NoUpdateOK DEF Restart
<1>6. UNCHANGED vars => FALSE
  BY DEF vars
<1> QED
  BY <1>2, <1>4, <1>5, <1>6 DEF Next, Quiescent

LEMMA SaveDecided ==
    ASSUME IInv, [Next]_vars, NEW i \in Slot, upd[i].pc = "new", upd'[i].pc = "save",
           upd[i].press \/ fsm[U(i)].expected # 0,
           \A j \in Slot : U(j) = U(i) => upd[j].pc # "reload"
    PROVE  Cardinality(upd'[i].writes.times) = Expected(fsm[U(i)])
<1>1. Handle(i)
  BY SaveByHandler
<1>2. Handled(i)
  BY <1>1, HandleKeeps
<1>3. ~Saving(U(i))
  BY <1>1 DEF Saving, Handle, Touched, Ready, Waiting, InSession
<1>4. U(i) \in User
  BY DEF IInv, TypeInv, UpdOK, U
<1>5. Short(Flow(i))
  BY <1>3, <1>4 DEF IInv, PicksShort, Flow
<1> QED
  BY <1>2, <1>5 DEF Handled, Saves, Flow

(* Whatever presses and texts come in whatever order, the schedule written has
   as many times as the conversation asked for, while no other save of the
   user is still reloading and, for typed times, while the conversation's data
   is there. *)
THEOREM SavesAsAsked == Spec => SavedAsAsked
<1>1. IInv /\ [Next]_vars =>
        [ \A i \in Slot :
            /\ upd[i].pc = "new" /\ upd'[i].pc = "save"
            /\ upd[i].press \/ fsm[U(i)].expected # 0
            /\ \A j \in Slot : U(j) = U(i) => upd[j].pc # "reload"
            => Cardinality(upd'[i].writes.times) = Expected(fsm[U(i)]) ]_vars
  BY SaveDecided
<1> QED
  BY <1>1, Invariance, PTL DEF Spec, SavedAsAsked
================================================================================
