------------------------------ MODULE MCAdminPanel ------------------------------
(***************************************************************************)
(* A small instance of AdminPanel for TLC: an operator and a guest, in     *)
(* three situations.                                                       *)
(***************************************************************************)
EXTENDS AdminPanel, TLC

CONSTANTS op, guest, chat, nobody, nohour

Times == {8} \X {0, 15, 30}

Owned(u) == [c \in Chat |-> [owner |-> u, active |-> TRUE]]
Free == [c \in Chat |-> NoChannel]
Screens(keys1, keys2) == [u \in User |-> <<keys1, keys2>>]

(* Times are chosen, with a keyboard of an earlier conversation in the chat. *)
Picking ==
    [known |-> {op}, chan |-> Free,
     screen |-> [u \in User |-> IF u = op THEN <<CountKeys, MinuteKeys>> ELSE <<{}, {}>>],
     taps |-> {"sc:count", "sc:h", "sc:m", "sc:undo", "sc"},
     texts |-> {Button("times", <<<<8, 0>>, <<8, 15>>>>)}, most |-> 5]

(* One chat is connected and removed by both. *)
Connecting ==
    [known |-> {op, guest}, chan |-> Free,
     screen |-> Screens(ChannelList({}), ChannelList({chat})),
     taps |-> {"ch:add", "ch:rm"}, texts |-> {Button("name", chat)}, most |-> 5]

(* The guest is new, and finds an operator's keyboard. *)
Meeting ==
    [known |-> {op}, chan |-> Owned(op),
     screen |-> Screens(MainMenu(op, FALSE), SettingsKeys),
     taps |-> {"sc:pause", "sc:resume", "sc:batch", "im", "im:up", "lang:ui", "sc:wk"},
     texts |-> {Plain("/start"), Plain("/menu"), Plain("file")}, most |-> 3]

Started == {Picking, Connecting, Meeting}
================================================================================
