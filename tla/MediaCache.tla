------------------------------- MODULE MediaCache -------------------------------
(***************************************************************************)
(* Downloads of question pictures into MEDIA_ROOT.                         *)
(*                                                                         *)
(* A file is named by the hash of its URL, so the URL stands for it; bytes *)
(* go to <name>.part in a worker thread and are renamed by a second one.   *)
(* Tasks of the bot share one MediaService and its semaphore; a script has *)
(* its own, over the same directory.                                       *)
(***************************************************************************)
EXTENDS Integers, FiniteSets

CONSTANTS
    Task,           \* imports that may run
    Script,         \* those of scripts/refresh_questions.py, a process each
    Url,            \* picture addresses
    NoUrl,
    UsableUrl,      \* those with scheme http or https
    Concurrency,    \* size of the semaphore, 8 in the code
    MaxRetries      \* attempts per download

ASSUME MediaAssumption ==
    /\ Script \subseteq Task /\ UsableUrl \subseteq Url /\ NoUrl \notin Url
    /\ Concurrency \in Nat \ {0} /\ MaxRetries \in Nat \ {0}

VARIABLES
    part,       \* per URL: state of the .part file
    final,      \* per URL: state of the file itself
    work        \* per task and URL: the worker of download_many

mediaVars == <<part, final, work>>

(* "empty" and "torn" are what open(..., "wb") and an unfinished write leave. *)
FileState == {"none", "empty", "torn", "full"}

(* into: which name the worker's open file has at present. *)
Worker == [pc : {"idle", "look", "queue", "fetch", "open", "write", "rename", "ok", "failed"},
           tries : 0..MaxRetries, into : {"part", "final", "gone"}]
Unused == [pc |-> "idle", tries |-> 0, into |-> "part"]

MediaTypeOK ==
    /\ part \in [Url -> FileState]
    /\ final \in [Url -> FileState]
    /\ work \in [Task -> [Url -> Worker]]

MediaInit ==
    /\ part = [u \in Url |-> "none"]
    /\ final = [u \in Url |-> "none"]
    /\ work = [i \in Task |-> [u \in Url |-> Unused]]

(* find_cached: a non-empty file of that name. *)
Cached(u) == final[u] \in {"torn", "full"}

SharesService(i, j) == i = j \/ {i, j} \cap Script = {}
InFlight(i) == {w \in Task \X Url : SharesService(i, w[1]) /\ work[w[1]][w[2]].pc = "fetch"}

(* Workers with the file open under that name. *)
Writers(u, name) == {i \in Task : work[i][u].pc = "write" /\ work[i][u].into = name}

Settled(i, u) == work[i][u].pc \in {"ok", "failed"}
Become(i, u, pc) == work' = [work EXCEPT ![i][u] = [Unused EXCEPT !.pc = pc]]

(* download_many(urls): a worker per distinct address. *)
StartWorkers(i, urls) ==
    work' = [work EXCEPT ![i] = [u \in Url |->
                IF u \in urls THEN [Unused EXCEPT !.pc = "look"] ELSE Unused]]

(* download(): refuse the scheme, reuse the copy on disk, or queue. *)
Look(i, u) ==
    /\ work[i][u].pc = "look"
    /\ Become(i, u, CASE u \notin UsableUrl -> "failed"
                      [] u \in UsableUrl /\ Cached(u) -> "ok"
                      [] OTHER -> "queue")
    /\ UNCHANGED <<part, final>>

(* The semaphore is held over all attempts and the pauses between them. *)
Acquire(i, u) ==
    /\ work[i][u].pc = "queue" /\ Cardinality(InFlight(i)) < Concurrency
    /\ work' = [work EXCEPT ![i][u].pc = "fetch", ![i][u].tries = 1]
    /\ UNCHANGED <<part, final>>

(* An attempt brought a picture. *)
FetchOk(i, u) ==
    /\ work[i][u].pc = "fetch"
    /\ Become(i, u, "open")
    /\ UNCHANGED <<part, final>>

(* Mutant: a failed attempt gives its place back and starts over. *)
FetchTransient_Requeues(i, u) ==
    /\ work[i][u].pc = "fetch"
    /\ Become(i, u, "queue")
    /\ UNCHANGED <<part, final>>

(* Mutant: one attempt too many. *)
FetchTransient_OneMore(i, u) ==
    /\ work[i][u].pc = "fetch"
    /\ IF work[i][u].tries <= MaxRetries
       THEN work' = [work EXCEPT ![i][u].tries = @ + 1]
       ELSE Become(i, u, "failed")
    /\ UNCHANGED <<part, final>>

(* It failed in transport: again, until the attempts are used up. *)
FetchTransient(i, u) ==
    /\ work[i][u].pc = "fetch"
    /\ IF work[i][u].tries < MaxRetries
       THEN work' = [work EXCEPT ![i][u].tries = @ + 1]
       ELSE Become(i, u, "failed")
    /\ UNCHANGED <<part, final>>

(* Any other status than 200, a body over the cap, an empty one, or bytes,
   content type and suffix that name no picture: no second attempt. *)
FetchRefused(i, u) ==
    /\ work[i][u].pc = "fetch"
    /\ Become(i, u, "failed")
    /\ UNCHANGED <<part, final>>

(* write_bytes opens the .part file, truncating one that is there ... *)
OpenPart(i, u) ==
    /\ work[i][u].pc = "open"
    /\ part' = [part EXCEPT ![u] = "empty"]
    /\ Become(i, u, "write")
    /\ UNCHANGED final

(* ... puts some bytes into it, which may by now have its final name ... *)
WriteSome(i, u) ==
    /\ work[i][u].pc = "write"
    /\ \/ /\ work[i][u].into = "part" /\ part[u] = "empty"
          /\ part' = [part EXCEPT ![u] = "torn"] /\ UNCHANGED final
       \/ /\ work[i][u].into = "final" /\ final[u] = "empty"
          /\ final' = [final EXCEPT ![u] = "torn"] /\ UNCHANGED part
    /\ UNCHANGED work

(* ... and closes it.  It is whole once nobody else is writing to it. *)
WriteDone(i, u) ==
    LET name  == work[i][u].into
        state == IF Writers(u, name) = {i} THEN "full" ELSE "torn"
    IN /\ work[i][u].pc = "write"
       /\ part' = IF name = "part" THEN [part EXCEPT ![u] = state] ELSE part
       /\ final' = IF name = "final" THEN [final EXCEPT ![u] = state] ELSE final
       /\ Become(i, u, "rename")

(* Mutant: the file is written under its final name at once. *)
Rename_InPlace(i, u) ==
    /\ work[i][u].pc \in {"open", "rename"}
    /\ final' = [final EXCEPT ![u] = "torn"]
    /\ Become(i, u, "ok")
    /\ UNCHANGED part

(* What a rename does to a file another worker has open: the .part file gets
   the final name, the file that had it is unlinked. *)
Moved(into) == IF into = "part" THEN "final" ELSE "gone"

(* replace(): the .part file of that name becomes the picture, whoever wrote
   it and whoever is still writing to it. *)
Rename(i, u) ==
    /\ work[i][u].pc = "rename" /\ part[u] # "none"
    /\ final' = [final EXCEPT ![u] = part[u]]
    /\ part' = [part EXCEPT ![u] = "none"]
    /\ work' = [j \in Task |->
          IF j = i THEN [work[j] EXCEPT ![u].pc = "ok"]
          ELSE IF work[j][u].pc = "write" THEN [work[j] EXCEPT ![u].into = Moved(@)]
          ELSE work[j]]

(* Another worker renamed it away: FileNotFoundError, "unexpected error". *)
RenameLost(i, u) ==
    /\ work[i][u].pc = "rename" /\ part[u] = "none"
    /\ Become(i, u, "failed")
    /\ UNCHANGED <<part, final>>

MediaStep(i, u) ==
    \/ Look(i, u) \/ Acquire(i, u)
    \/ FetchOk(i, u) \/ FetchTransient(i, u) \/ FetchRefused(i, u)
    \/ OpenPart(i, u) \/ WriteSome(i, u) \/ WriteDone(i, u)
    \/ Rename(i, u) \/ RenameLost(i, u)

(* The workers of these tasks are gone; the files are as they left them. *)
StopWorkers(tasks) ==
    /\ work' = [i \in Task |-> IF i \in tasks THEN [u \in Url |-> Unused] ELSE work[i]]
    /\ UNCHANGED <<part, final>>
================================================================================
