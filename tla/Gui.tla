----------------------------------- MODULE Gui -----------------------------------
(***************************************************************************)
(* The desktop window (gui_app.py).  Handlers and callbacks run on the main  *)
(* loop; whatever talks to the server is a job for the one worker thread,    *)
(* which takes jobs in the order of their submission and hands its results    *)
(* back as idle callbacks, in order too.  Each kind of job that must not be   *)
(* submitted twice is guarded by a flag of the window.                      *)
(***************************************************************************)
EXTENDS Naturals, Sequences, FiniteSets

CONSTANTS
    Addresses,  \* a setting's values
    MaxJobs,    \* bound: jobs and callbacks under way when a handler runs
    MaxChanges, \* bound: actions and reconnects
    MaxTurns,   \* bound: turns of a conversation
    NoFlag

Flags == {"_refreshing", "page", "_busy", "dialog", "_settings_saving", "_chat_running"}

ASSUME GuiAssumption ==
    /\ Addresses # {} /\ NoFlag \notin Addresses /\ NoFlag \notin Flags
    /\ MaxChanges \in Nat

VARIABLES
    queue, now, ready,  \* submitted jobs, the one that runs, callbacks
    flags,      \* the flags that are up
    changes,    \* ghost: the actions and reconnects that have run
    shown,      \* the status on view: how many changes it knows of, and no errors
    memory, disk2,  \* the configuration and its file: host, url
    link2,      \* the host the connection was opened to, NoFlag for no connection
    crossed,    \* ghost: settings were saved while ollama was queried
    chat,       \* the roles of the conversation's turns
    parted      \* ghost: "New" was pressed while a reply was awaited

window == <<queue, now, ready, flags, changes, shown, memory, disk2, link2, crossed, chat, parted>>

Settings == [host : Addresses, url : Addresses]

(* A job, the flag it holds, what it found or will restore, and whether it    *)
(* returned.                                                                *)
Job(kind, flag, data) == [kind |-> kind, flag |-> flag, data |-> data, ok |-> TRUE]
Status(full) == Job("status", "_refreshing", IF full THEN 1 ELSE 0)
NoJob == Job("none", NoFlag, 0)

GuiInit ==
    /\ memory = (CHOOSE s \in Settings : s.host = s.url) /\ disk2 = memory /\ link2 = NoFlag
    /\ queue = <<Status(TRUE)>> /\ now = NoJob /\ ready = <<>>
    /\ flags = {"_refreshing"}
    /\ changes = 0 /\ shown = [of |-> 0, ok |-> TRUE]
    /\ crossed = FALSE /\ chat = <<>> /\ parted = FALSE

--------------------------------------------------------------------------------
(* Handlers: a step of the main loop that submits jobs.  `up` is the set of   *)
(* flags as the handler finds it.                                           *)

Room == Len(queue) + Len(ready) + (IF now = NoJob THEN 0 ELSE 1) < MaxJobs

Submit(up, jobs) ==
    /\ queue' = queue \o jobs
    /\ flags' = up \cup ({jobs[i].flag : i \in DOMAIN jobs} \ {NoFlag})

(* _refresh, and the refreshes of a page.  Mutant: the flag is not looked at. *)
MutantRefreshJobs(up, full) == <<Status(full)>>

RefreshJobs(up, full) == IF "_refreshing" \in up THEN <<>> ELSE <<Status(full)>>

PageJobs(up) ==
    IF up \cap {"page", "_busy"} # {} THEN <<>> ELSE <<Job("page", "page", 0)>>

(* _on_tick and _refresh_aux *)
Tick ==
    /\ Room /\ "_busy" \notin flags
    /\ \E full \in BOOLEAN : Submit(flags, RefreshJobs(flags, full) \o PageJobs(flags))
    /\ UNCHANGED <<now, ready, changes, shown, memory, disk2, link2, crossed, chat, parted>>

(* The "refresh" action, F5: a job may have taken the worker. *)
PressRefresh ==
    /\ Room /\ Submit(flags, RefreshJobs(flags, TRUE))
    /\ UNCHANGED <<now, ready, changes, shown, memory, disk2, link2, crossed, chat, parted>>

(* _run_action: the pages' buttons, _cfg_restart and the editors of           *)
(* server.properties and variables.txt; _cfg_save, which refreshes nothing;   *)
(* and jobs with flags of their own: a craft dialog, the doctor, the          *)
(* profiler, an analysis.  Console commands have no flag.  The data of an     *)
(* action says whether it refreshes the page too.                          *)
Act ==
    /\ Room
    /\ \E j \in {Job("action", "_busy", 0), Job("action", "_busy", 1), Job("edit", "_busy", 0),
                 Job("craft", "dialog", 0), Job("command", NoFlag, 0)} :
         /\ j.flag \notin flags /\ (j.kind = "action" => changes < MaxChanges)
         /\ Submit(flags, <<j>>)
    /\ UNCHANGED <<now, ready, changes, shown, memory, disk2, link2, crossed, chat, parted>>

--------------------------------------------------------------------------------
(* _on_settings_save, _reconnect, _on_ollama_choose *)

(* Mutant: a configuration that cannot be saved stays in use. *)
MutantRollback(typed) == memory' = typed

Rollback(typed) == UNCHANGED memory

(* The new host is connected to by the next job after the reconnect.  A save  *)
(* is one step: reading the fields, setting them and writing the file.       *)
SaveSettings ==
    /\ Room /\ "_settings_saving" \notin flags
    /\ \E typed \in Settings :
         \/ /\ Rollback(typed) /\ UNCHANGED <<disk2, queue, flags, crossed>>
         \/ /\ memory' = typed /\ disk2' = typed
            /\ crossed' = (now.kind = "ollama")
            /\ IF typed.host = memory.host THEN Submit(flags, RefreshJobs(flags, TRUE))
               ELSE /\ changes < MaxChanges
                    /\ Submit(flags, <<Job("reconnect", "_settings_saving", 0)>>)
    /\ UNCHANGED <<now, ready, changes, shown, link2, chat, parted>>

(* The query runs with the address that is typed, saved or not. *)
ChooseModel ==
    /\ Room
    /\ \E url \in Addresses : Submit(flags, <<Job("ollama", NoFlag, url)>>)
    /\ UNCHANGED <<now, ready, changes, shown, memory, disk2, link2, crossed, chat, parted>>

--------------------------------------------------------------------------------
(* The worker *)

Swap(url) == memory' = [memory EXCEPT !.url = url]

(* The first turn of a conversation is sent with the server's log; if that    *)
(* cannot be read, no turn is added.  `data` says that it was added.         *)
Take2 ==
    /\ now = NoJob /\ queue # <<>>
    /\ LET j == Head(queue)
       IN  CASE j.kind = "ollama" ->
                  now' = [j EXCEPT !.data = memory.url] /\ Swap(j.data) /\ UNCHANGED <<chat, link2>>
             [] j.kind = "chat" ->
                  /\ \/ now' = j /\ chat' = Append(chat, "user")
                     \/ now' = [j EXCEPT !.ok = FALSE] /\ j.data = 1 /\ UNCHANGED chat
                  /\ UNCHANGED <<memory, link2>>
             [] j.kind = "reconnect" -> now' = j /\ UNCHANGED <<memory, chat, link2>>
             [] OTHER ->
                  /\ now' = IF j.kind = "status" THEN [j EXCEPT !.data = changes] ELSE j
                  /\ link2' = IF link2 = NoFlag THEN memory.host ELSE link2
                  /\ UNCHANGED <<memory, chat>>
    /\ queue' = Tail(queue)
    /\ UNCHANGED <<ready, flags, changes, shown, disk2, crossed, parted>>

Finish ==
    /\ now # NoJob
    /\ \E ok \in {now.ok} \cup (IF now.kind = "reconnect" THEN {} ELSE {FALSE}) :
         /\ ready' = Append(ready, [now EXCEPT !.ok = ok])
         /\ chat' = IF now.kind = "chat" /\ ok THEN Append(chat, "assistant") ELSE chat
    /\ IF now.kind = "ollama" THEN Swap(now.data) ELSE UNCHANGED memory
    /\ link2' = IF now.kind = "reconnect" THEN NoFlag ELSE link2
    /\ changes' = IF now.kind \in {"action", "reconnect"} THEN changes + 1 ELSE changes
    /\ now' = NoJob
    /\ UNCHANGED <<queue, flags, shown, disk2, crossed, parted>>

--------------------------------------------------------------------------------
(* Callbacks.  The flag comes down, then the callback may submit more. *)

(* Mutant: only a success refreshes the status. *)
MutantFollowUp(up, j) ==
    CASE j.kind = "action" /\ ~j.ok -> <<>>
      [] j.kind = "action" /\ j.ok -> RefreshJobs(up, TRUE) \o (IF j.data = 1 THEN PageJobs(up) ELSE <<>>)
      [] j.kind = "reconnect" -> RefreshJobs(up, TRUE)
      [] j.kind = "craft" /\ j.ok -> <<Job("preview", "dialog", 0)>>
      [] OTHER -> <<>>

FollowUp(up, j) ==
    CASE j.kind = "action" ->
             RefreshJobs(up, j.ok) \o (IF j.ok /\ j.data = 1 THEN PageJobs(up) ELSE <<>>)
      [] j.kind = "reconnect" -> RefreshJobs(up, TRUE)
      [] j.kind = "craft" /\ j.ok -> <<Job("preview", "dialog", 0)>>
      [] OTHER -> <<>>

(* Mutant: a turn that got no reply stays. *)
MutantAnswered(j) == chat

(* The half-sent turn is dropped. *)
Answered(j) ==
    IF j.kind = "chat" /\ ~j.ok /\ chat # <<>> /\ chat[Len(chat)] = "user"
    THEN SubSeq(chat, 1, Len(chat) - 1) ELSE chat

Callback ==
    /\ ready # <<>>
    /\ LET j == Head(ready)
           up == flags \ {j.flag}
       IN  /\ Submit(up, FollowUp(up, j))
           /\ shown' = IF j.kind # "status" THEN shown
                       ELSE IF j.ok THEN [of |-> j.data, ok |-> TRUE] ELSE [shown EXCEPT !.ok = FALSE]
           /\ chat' = Answered(j)
    /\ ready' = Tail(ready)
    /\ UNCHANGED <<now, changes, memory, disk2, link2, crossed, parted>>

--------------------------------------------------------------------------------
(* _on_chat_send, _on_chat_new *)

SendChat ==
    /\ Room /\ "_chat_running" \notin flags /\ Len(chat) < MaxTurns
    /\ Submit(flags, <<Job("chat", "_chat_running", IF chat = <<>> THEN 1 ELSE 0)>>)
    /\ UNCHANGED <<now, ready, changes, shown, memory, disk2, link2, crossed, chat, parted>>

NewChat ==
    /\ chat' = <<>> /\ parted' = ("_chat_running" \in flags)
    /\ UNCHANGED <<queue, now, ready, flags, changes, shown, memory, disk2, link2, crossed>>

GuiNext ==
    \/ Tick \/ PressRefresh \/ Act \/ SaveSettings \/ ChooseModel \/ SendChat \/ NewChat
    \/ Take2 \/ Finish \/ Callback

GuiSpec == GuiInit /\ [][GuiNext]_window

--------------------------------------------------------------------------------
(* Every flag that is up belongs to exactly one job that waits, runs or has   *)
(* its callback pending: a button that was greyed out comes back, and no job  *)
(* of a kind is queued twice behind a slow one (the guards of Worker.submit's *)
(* callers, gui_app.py 1166-1193, 1326-1362, 2715-2742).                     *)
FlagsAreJobs ==
    LET jobs == queue \o <<now>> \o ready
        With(f) == {i \in DOMAIN jobs : jobs[i].flag = f}
    IN  \A f \in flags \cup ({jobs[i].flag : i \in DOMAIN jobs} \ {NoFlag}) :
            f \in flags /\ Cardinality(With(f)) = 1

(* When nothing is left to do, the status on view knows of every action and   *)
(* reconnect that has run, or says that it could not be read (_run_action's   *)
(* and _reconnect's refresh, which a refresh under way must not swallow).    *)
ShownIsFresh ==
    (queue = <<>> /\ now = NoJob /\ ready = <<>> /\ shown.ok) => shown.of = changes

(* Between two jobs the settings in use are the saved ones, and a connection  *)
(* that outlives the reconnect leads to the host they name.  Not so after a   *)
(* save while the models were queried: the query puts the old address back.  *)
SettingsKept ==
    /\ now.kind # "ollama" /\ ~crossed => memory = disk2
    /\ "_settings_saving" \notin flags => link2 \in {NoFlag, memory.host}

(* A conversation that waits for no reply alternates, begins with the user    *)
(* and ends with a reply, which the providers demand of the next request     *)
(* (the half-sent turn that is dropped, gui_app.py 2008-2010); unless "New"   *)
(* was pressed while a reply was awaited.                                   *)
ChatAlternates ==
    ("_chat_running" \notin flags /\ ~parted) =>
        /\ \A i \in DOMAIN chat : chat[i] = IF i % 2 = 1 THEN "user" ELSE "assistant"
        /\ Len(chat) % 2 = 0

================================================================================
