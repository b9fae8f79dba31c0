----------------------------- MODULE Management -----------------------------
(***************************************************************************)
(* Who changes the configuration, and how the changes meet: agents that    *)
(* start and stop, command lines that reach an agent over the local socket *)
(* or fall back to their own process, the windows and the tray of the      *)
(* desktop application, and the configuration file they all write.         *)
(***************************************************************************)
EXTENDS ConfigTransfer

CONSTANTS Agents,       \* processes that run the agent
          Desktop,      \* those that are the desktop application
          Clients,      \* command lines and desktop commands, one command each
          Invocations,  \* the commands of each client
          Exports,      \* export files, or NoExport, there may be at first
          MaxStarts,    \* bound on agent starts
          MaxFaults     \* bound on crashes and failing writes

ASSUME ManagementAssumption ==
    /\ Desktop \subseteq Agents
    /\ Agents \cap Clients = {}
    /\ None \notin Agents \cup Clients
    /\ MaxStarts \in Nat /\ MaxFaults \in Nat
    \* Desktop commands run in a desktop agent; no command line names a field of
    \* its own, and an export carries fields of the transfer format only.
    /\ \A c \in Clients : \A inv \in Invocations[c] :
         /\ inv # None
         /\ inv.kind \in {"gui", "tray"} => inv.agent \in Desktop
         /\ inv.kind = "edit" => inv.op.cmd # "autostart"
         /\ inv.kind = "export" => inv.only \subseteq TransferFields
    /\ \A x \in Exports :
         /\ x.hash \in Nat
         /\ DOMAIN x.payload \subseteq TransferFields

VARIABLES file,      \* the configuration file
          exported,  \* the encrypted export file, NoExport when there is none
          socket,    \* who last bound the socket path; None when it does not exist
          agent,     \* each agent's phase and the port it listens on
          mem,       \* the AgentState configuration of each process
          os,        \* whether the system starts the desktop application
          client,    \* each client's program
          req,       \* the request each client has under way, in the executing process
          starts, faults,    \* bounds
          latest,    \* the client whose save began last, if no other was under way
          clean      \* so far commands ran one at a time, and no save was cut, failed
                     \* after a toggle or ran beside another agent

vars == <<file, exported, socket, agent, mem, os, client, req, starts, faults,
          latest, clean>>
world == <<exported, socket, agent, starts>>

Procs == Agents \cup Clients
NoRequest == [stage |-> "none", exec |-> None, base |-> None, config |-> None]
NoCommand == [inv |-> None, pc |-> "idle", config |-> None, was |-> FALSE,
              seen |-> None, result |-> "none"]

Init ==
    /\ file = [kind |-> "absent", config |-> None]
    /\ exported \in Exports
    /\ socket = None
    /\ agent = [a \in Agents |-> [phase |-> "down", listen |-> None]]
    /\ mem = [p \in Procs |-> None]
    /\ os = FALSE
    /\ client = [c \in Clients |-> NoCommand]
    /\ req = [c \in Clients |-> NoRequest]
    /\ starts = 0 /\ faults = 0
    /\ latest = None /\ clean = TRUE
-----------------------------------------------------------------------------
(* The file *)

\* AgentConfig::load fails on a file that is not one whole document.
Loadable == file.kind \in {"absent", "whole"}
Load == IF file.kind = "absent" THEN DefaultConfig ELSE normalized(file.config)

\* fs::write truncates, then writes from the start of the file: over what a
\* second writer put there meanwhile, a shorter text leaves the longer one's end.
Truncated == [kind |-> "empty", config |-> None]
Whole(c) == [kind |-> "whole", config |-> c]
Written(c) ==
    IF file.kind = "empty" THEN {Whole(c)}
    ELSE {Whole(c), [kind |-> "mixed", config |-> None]}
-----------------------------------------------------------------------------
(* The agents *)

Up(a) == agent[a].phase = "up"

PortFree(p) == \A a \in Agents : agent[a].listen # p

\* RuntimeBuilder::build.
AgentLoad(a) ==
    /\ agent[a].phase = "down" /\ starts < MaxStarts
    /\ Loadable
    /\ mem' = [mem EXCEPT ![a] = Load]
    /\ agent' = [agent EXCEPT ![a].phase = "loaded"]
    /\ starts' = starts + 1
    /\ UNCHANGED <<file, exported, socket, os, client, req, faults, latest, clean>>

\* AgentRuntime::start: the port is probed and bound, then the socket is bound
\* after whatever file has its path is removed.
AgentStart(a) ==
    /\ agent[a].phase = "loaded"
    /\ PortFree(mem[a].port)
    /\ agent' = [agent EXCEPT ![a] = [phase |-> "up", listen |-> mem[a].port]]
    /\ socket' = a
    /\ UNCHANGED <<file, exported, mem, os, client, req, starts, faults, latest, clean>>

\* PortOccupied.
AgentRefused(a) ==
    /\ agent[a].phase = "loaded"
    /\ ~PortFree(mem[a].port)
    /\ agent' = [agent EXCEPT ![a].phase = "down"]
    /\ mem' = [mem EXCEPT ![a] = None]
    /\ UNCHANGED <<file, exported, socket, os, client, req, starts, faults, latest, clean>>

\* A command that has ended keeps its result.
Finish(c, result) ==
    [client[c] EXCEPT !.pc = "done", !.result = result, !.config = None, !.was = FALSE]

\* The requests and the desktop commands that run in a process end with it.
RunsIn(c, p) == client[c].inv # None /\ client[c].inv.kind \in {"gui", "tray"}
                    /\ client[c].inv.agent = p /\ client[c].pc \notin {"idle", "done"}
InFlight(c) == req[c].stage \in {"read", "merge", "begin", "write", "apply"}
Gone(p) ==
    /\ mem' = [mem EXCEPT ![p] = None]
    /\ req' = [c \in Clients |->
                IF req[c].exec = p /\ InFlight(c) THEN [req[c] EXCEPT !.stage = "dead"]
                ELSE req[c]]
    /\ client' = [c \in Clients |->
                IF RunsIn(c, p) \/ (c = p /\ client[c].pc # "idle")
                THEN Finish(c, "err") ELSE client[c]]
    /\ clean' = (clean /\ \A c \in Clients :
                    ~RunsIn(c, p) /\ ~(req[c].exec = p /\ InFlight(c)) /\ c # p)

\* A crash, or the desktop application's exit, which does not shut its runtime
\* down: the socket file stays.
AgentKilled(a) ==
    /\ agent[a].phase # "down"
    /\ a \notin Desktop => faults < MaxFaults
    /\ faults' = IF a \in Desktop THEN faults ELSE faults + 1
    /\ agent' = [agent EXCEPT ![a] = [phase |-> "down", listen |-> None]]
    /\ Gone(a)
    /\ UNCHANGED <<file, exported, socket, os, starts, latest>>

\* AgentHandle::shutdown of the headless server: the socket task removes the
\* path.  A write that a worker thread has begun still ends.
AgentStop(a) ==
    /\ Up(a) /\ a \notin Desktop
    /\ \A c \in Clients : req[c].exec = a => req[c].stage # "write"
    /\ agent' = [agent EXCEPT ![a] = [phase |-> "down", listen |-> None]]
    /\ socket' = None
    /\ Gone(a)
    /\ UNCHANGED <<file, exported, os, starts, faults, latest>>
-----------------------------------------------------------------------------
(* Commands and where they run *)

\* Command::policy.
policy(cmd) ==
    CASE cmd \in {"GetLogs", "TestRemoteConnection", "TestPrint", "Status"} -> "OnlineOnly"
      [] cmd = "ValidateConfig" -> "OfflineAllowed"
      [] OTHER -> "OnlinePreferred"

InProcess(c) == client[c].inv.kind \in {"gui", "tray"}

\* The process CommandService::execute runs a command in: none when the
\* connection is refused by a socket file that nobody listens on, or when the
\* command needs an agent and the file does not exist.
Executor(c, cmd) ==
    IF InProcess(c) THEN {client[c].inv.agent}
    ELSE CASE policy(cmd) = "OfflineAllowed" -> {c}
           [] socket # None -> {a \in {socket} : Up(a)}
           [] policy(cmd) = "OnlinePreferred" -> {c}
           [] OTHER -> {}

\* The command each step of a client's program executes.
CommandOf(c) ==
    CASE client[c].pc = "get" -> "GetConfig"
      [] client[c].pc = "save" -> "SaveConfig"
      [] client[c].pc = "export" -> "ExportConfig"
      [] client[c].pc = "preview" -> "PreviewConfigImport"
      [] client[c].pc = "import" -> "ImportConfig"
      [] client[c].pc = "query" -> client[c].inv.cmd
      [] OTHER -> None

\* An error of CommandService::execute ends the command; nothing is rolled back.
\* The desktop's own commands run in the agent's process and are never refused.
Refused(c) ==
    /\ CommandOf(c) # None
    /\ Executor(c, CommandOf(c)) = {}
    /\ client' = [client EXCEPT ![c] = Finish(c, "err")]
    /\ clean' = (clean /\ client[c].inv.kind # "autostart")
    /\ UNCHANGED <<world, file, mem, os, req, faults, latest>>

\* The password rules of `config import`, and the first step of each command.
ImportRefused(inv) ==
    /\ ~inv.interactive
    /\ \/ ~inv.password_file
       \/ ~inv.preview /\ ~inv.yes
       \/ inv.password = "" /\ ~inv.allow_empty

FirstPc(inv) ==
    CASE inv.kind \in {"edit", "gui"} -> "get"
      [] inv.kind \in {"autostart", "tray"} -> "os"
      [] inv.kind = "export" -> IF inv.interactive \/ inv.password_file THEN "get" ELSE "done"
      [] inv.kind = "import" -> IF ImportRefused(inv) THEN "done" ELSE "preview"
      [] OTHER -> "query"

\* A command line loads the file into a state of its own before it connects.
\* A desktop command needs its application to be running.
Start(c) ==
    /\ client[c].pc = "idle"
    /\ clean' = (clean /\ \A d \in Clients \ {c} :
                            client[d].pc \in {"idle", "done"} /\ ~InFlight(d))
    /\ \E inv \in Invocations[c] :
        IF inv.kind \in {"gui", "tray"}
        THEN /\ Up(inv.agent)
             /\ client' = [client EXCEPT ![c].inv = inv, ![c].pc = FirstPc(inv)]
             /\ UNCHANGED mem
        ELSE IF Loadable
        THEN /\ client' = [client EXCEPT ![c] =
                    [@ EXCEPT !.inv = inv, !.pc = FirstPc(inv),
                              !.result = IF FirstPc(inv) = "done" THEN "err" ELSE "none"]]
             /\ mem' = [mem EXCEPT ![c] = Load]
        ELSE /\ client' = [client EXCEPT ![c] =
                    [@ EXCEPT !.inv = inv, !.pc = "done", !.result = "err"]]
             /\ UNCHANGED mem
    /\ UNCHANGED <<world, file, os, req, faults, latest>>

\* set_autostart of the command line and toggle_autostart of the tray change the
\* system first; the tray writes what it changed it to.
SetOs(c) ==
    /\ client[c].pc = "os"
    /\ LET on == IF client[c].inv.kind = "tray" THEN ~os ELSE client[c].inv.arg
       IN  /\ os' = on
           /\ client' = [client EXCEPT ![c].pc = "get", ![c].was = on]
    /\ UNCHANGED <<world, file, mem, req, faults, latest, clean>>

\* The system refuses, or the last rollback fails.
OsFails(c) ==
    /\ client[c].pc \in {"os", "gui", "rollback"} /\ faults < MaxFaults
    /\ faults' = faults + 1
    /\ client' = [client EXCEPT ![c] = Finish(c, "err")]
    /\ clean' = (clean /\ client[c].pc # "rollback")
    /\ UNCHANGED <<world, file, mem, os, req, latest>>

\* The configurations a client may go on to save, none when it refuses the
\* arguments.
Intended(c, current) ==
    LET inv == client[c].inv
    IN  CASE inv.kind = "edit" -> Edit(current, inv.op, PortFree(inv.op.arg))
          [] inv.kind = "gui" -> {[f \in DOMAIN current |->
                                    IF f \in DOMAIN inv.form THEN inv.form[f] ELSE current[f]]}
          [] inv.kind = "export" -> {current}
          [] OTHER -> {[current EXCEPT !.autostart = client[c].was]}

\* approve_empty_password is called for an empty password and a token.
NeedsApproval(inv, current) ==
    /\ inv.kind = "export" /\ inv.password = "" /\ ~inv.allow_empty
    /\ "token" \in export_options(inv.only) /\ current.token # None

\* GetConfig, and what the client makes of the answer.
Get(c) ==
    /\ client[c].pc = "get"
    /\ \E e \in Executor(c, "GetConfig") :
        LET inv == client[c].inv
            next == CASE inv.kind = "gui" -> "gui"
                      [] inv.kind = "export" -> "export"
                      [] OTHER -> "save"
        IN  \/ /\ NeedsApproval(inv, mem[e]) => inv.interactive
               /\ \E n \in Intended(c, mem[e]) :
                    client' = [client EXCEPT ![c].config = n, ![c].pc = next]
            \/ /\ Intended(c, mem[e]) = {} \/ NeedsApproval(inv, mem[e])
               /\ client' = [client EXCEPT ![c] = Finish(c, "err")]
    /\ UNCHANGED <<world, file, mem, os, req, faults, latest, clean>>

\* The desktop's save_config up to the save: a changed port is probed, then the
\* system's autostart is set.  The value to go back to is read here.
GuiApply(c) ==
    /\ client[c].pc = "gui"
    /\ LET current == mem[client[c].inv.agent]
           wanted == client[c].config
       IN  IF wanted.port # current.port
                 /\ ~(wanted.port \in MinPort .. MaxPort /\ PortFree(wanted.port))
           THEN /\ client' = [client EXCEPT ![c] = Finish(c, "err")]
                /\ UNCHANGED os
           ELSE /\ os' = wanted.autostart
                /\ client' = [client EXCEPT ![c].pc = "save", ![c].was = current.autostart]
    /\ UNCHANGED <<world, file, mem, req, faults, latest, clean>>

\* MUTANT: the system keeps the setting of the failed save.
GuiRollback_None(c) ==
    /\ client[c].pc = "rollback"
    /\ client' = [client EXCEPT ![c] = Finish(c, "err")]
    /\ UNCHANGED <<world, file, mem, os, req, faults, latest, clean>>

\* The answer to a failed SaveConfig.
GuiRollback(c) ==
    /\ client[c].pc = "rollback"
    /\ os' = client[c].was
    /\ client' = [client EXCEPT ![c] = Finish(c, "err")]
    /\ UNCHANGED <<world, file, mem, req, faults, latest, clean>>

\* ExportConfig reads the configuration again.
Export(c) ==
    /\ client[c].pc = "export"
    /\ \E e \in Executor(c, "ExportConfig") :
        exported' = encrypt_payload(
            build_transfer_payload(mem[e], export_options(client[c].inv.only)),
            client[c].inv.password, exported.hash + 1)
    /\ client' = [client EXCEPT ![c] = Finish(c, "ok")]
    /\ UNCHANGED <<socket, agent, starts, file, mem, os, req, faults, latest, clean>>

\* PreviewConfigImport answers with the items and the hash of the file.
Preview(c) ==
    /\ client[c].pc = "preview"
    /\ \E e \in Executor(c, "PreviewConfigImport") :
        client' =
            IF Decrypts(exported, client[c].inv.password) /\ Mergeable(exported.payload)
            THEN [client EXCEPT ![c].pc = IF client[c].inv.preview THEN "done" ELSE "confirm",
                                ![c].result = IF client[c].inv.preview THEN "ok" ELSE "none",
                                ![c].seen =
                     [file_hash |-> exported.hash,
                      items |-> preview_payload(mem[e], exported.payload),
                      payload |-> exported.payload]]
            ELSE [client EXCEPT ![c] = Finish(c, "err")]
    /\ UNCHANGED <<world, file, mem, os, req, faults, latest, clean>>

\* Without --yes the user may cancel.
Confirm(c) ==
    /\ client[c].pc = "confirm"
    /\ \/ client' = [client EXCEPT ![c].pc = "import"]
       \/ ~client[c].inv.yes /\ client' = [client EXCEPT ![c] = Finish(c, "cancelled")]
    /\ UNCHANGED <<world, file, mem, os, req, faults, latest, clean>>

\* The commands that only read, and the clearing of the history.
Query(c) ==
    /\ client[c].pc = "query"
    /\ Executor(c, client[c].inv.cmd) # {}
    /\ client' = [client EXCEPT ![c] = Finish(c, "ok")]
    /\ UNCHANGED <<world, file, mem, os, req, faults, latest, clean>>

\* SaveConfig and ImportConfig are handed to the executing process.
Submit(c) ==
    /\ client[c].pc \in {"save", "import"}
    /\ \E e \in Executor(c, CommandOf(c)) :
        req' = [req EXCEPT ![c] =
            [stage |-> IF client[c].pc = "save" THEN "begin" ELSE "read",
             exec |-> e, base |-> None, config |-> client[c].config]]
    /\ client' = [client EXCEPT ![c].pc = "wait"]
    /\ UNCHANGED <<world, file, mem, os, faults, latest, clean>>

\* The reply, or the end of a connection whose agent is gone.
Reply(c) ==
    /\ client[c].pc = "wait" /\ req[c].stage \in {"ok", "err", "dead"}
    /\ client' =
        IF req[c].stage = "ok" THEN [client EXCEPT ![c] = Finish(c, "ok")]
        ELSE IF client[c].inv.kind = "gui" THEN [client EXCEPT ![c].pc = "rollback"]
        ELSE [client EXCEPT ![c] = Finish(c, "err")]
    /\ clean' = (clean /\ (req[c].stage = "ok" \/ client[c].inv.kind \notin {"autostart", "tray"}))
    /\ UNCHANGED <<world, file, mem, os, req, faults, latest>>

\* MUTANT: the client waits for its agent without a limit.
TimesOut_Never(c) == FALSE /\ UNCHANGED vars

\* The client gives up after ten seconds; the agent goes on with the request.
\* The limit is on reading the answer.  Writing the request has none; it is taken
\* to fit into the buffer of the socket.
TimesOut(c) ==
    /\ client[c].pc = "wait" /\ req[c].exec \in Agents /\ ~InProcess(c)
    /\ client' = [client EXCEPT ![c] = Finish(c, "err")]
    /\ clean' = (clean /\ client[c].inv.kind # "autostart")
    /\ UNCHANGED <<world, file, mem, os, req, faults, latest>>

\* The user stops a command line.
ClientKilled(c) ==
    /\ client[c].pc \notin {"idle", "done"} /\ ~InProcess(c) /\ faults < MaxFaults
    /\ faults' = faults + 1
    /\ Gone(c)
    /\ UNCHANGED <<world, file, os, latest>>
-----------------------------------------------------------------------------
(* Requests in the process that executes them *)

At(c, stage) == req[c].stage = stage
Go(c, stage) == [req EXCEPT ![c].stage = stage]

\* ImportConfig: the current configuration is read first, then the file, whose
\* hash must be the previewed one.
ImportRead(c) ==
    /\ At(c, "read")
    /\ req' = [req EXCEPT ![c].stage = "merge", ![c].base = mem[req[c].exec]]
    /\ UNCHANGED <<world, file, mem, os, client, faults, latest, clean>>

\* MUTANT: the file is not compared with the previewed one.
ImportMerge_AnyFile(c) ==
    /\ At(c, "merge")
    /\ req' =
        IF Decrypts(exported, client[c].inv.password) /\ Mergeable(exported.payload)
        THEN [req EXCEPT ![c].stage = "begin",
                         ![c].config = merge_payload(req[c].base, exported.payload)]
        ELSE Go(c, "err")
    /\ UNCHANGED <<world, file, mem, os, client, faults, latest, clean>>

ImportMerge(c) ==
    /\ At(c, "merge")
    /\ req' =
        IF /\ exported.hash = client[c].seen.file_hash
           /\ Decrypts(exported, client[c].inv.password)
           /\ Mergeable(exported.payload)
        THEN [req EXCEPT ![c].stage = "begin",
                         ![c].config = merge_payload(req[c].base, exported.payload)]
        ELSE Go(c, "err")
    /\ UNCHANGED <<world, file, mem, os, client, faults, latest, clean>>

\* AgentState::save_config: checks, then AgentConfig::save opens the file.
SaveBegin(c) ==
    /\ At(c, "begin") /\ Saveable(req[c].config)
    /\ file' = Truncated
    /\ req' = [req EXCEPT ![c].stage = "write", ![c].config = normalized(@)]
    /\ latest' = IF \E d \in Clients \ {c} : req[d].stage \in {"write", "apply"}
                 THEN None ELSE c
    /\ clean' = (clean /\ \A a \in Agents \ {req[c].exec} : agent[a].phase = "down")
    /\ UNCHANGED <<world, mem, os, client, faults>>

SaveRejected(c) ==
    /\ At(c, "begin") /\ ~Saveable(req[c].config)
    /\ req' = Go(c, "err")
    /\ UNCHANGED <<world, file, mem, os, client, faults, latest, clean>>

SaveWrite(c) ==
    /\ At(c, "write")
    /\ file' \in Written(req[c].config)
    /\ req' = Go(c, "apply")
    /\ UNCHANGED <<world, mem, os, client, faults, latest, clean>>

\* MUTANT: the error of AgentConfig::save is dropped.
SaveFails_Dropped(c) ==
    /\ At(c, "begin") \/ At(c, "write")
    /\ faults < MaxFaults /\ faults' = faults + 1
    /\ req' = Go(c, "apply")
    /\ UNCHANGED <<world, file, mem, os, client, latest, clean>>

\* The file cannot be opened, or the disk is full.
SaveFails(c) ==
    /\ At(c, "begin") \/ At(c, "write")
    /\ faults < MaxFaults /\ faults' = faults + 1
    /\ req' = Go(c, "err")
    /\ UNCHANGED <<world, file, mem, os, client, latest, clean>>

SaveApply(c) ==
    /\ At(c, "apply")
    /\ mem' = [mem EXCEPT ![req[c].exec] = req[c].config]
    /\ req' = Go(c, "ok")
    /\ UNCHANGED <<world, file, os, client, faults, latest, clean>>

Execute(c) ==
    \/ ImportRead(c) \/ ImportMerge(c)
    \/ SaveBegin(c) \/ SaveRejected(c) \/ SaveWrite(c) \/ SaveApply(c)

ClientStep(c) ==
    \/ Refused(c) \/ SetOs(c) \/ Get(c) \/ GuiApply(c) \/ GuiRollback(c) \/ Export(c)
    \/ Preview(c) \/ Confirm(c) \/ Query(c) \/ Submit(c) \/ Reply(c)

Next ==
    \/ \E a \in Agents :
         AgentLoad(a) \/ AgentStart(a) \/ AgentRefused(a) \/ AgentKilled(a) \/ AgentStop(a)
    \/ \E c \in Clients :
         \/ Start(c) \/ ClientStep(c) \/ TimesOut(c) \/ OsFails(c) \/ ClientKilled(c)
         \/ Execute(c) \/ SaveFails(c)

\* A command line goes on as long as the user answers, and its own process does
\* what it is asked; nothing is assumed of the agents.
Fairness ==
    \A c \in Clients :
        WF_vars(ClientStep(c) \/ TimesOut(c) \/ (req[c].exec = c /\ Execute(c)))

ManagementSpec == Init /\ [][Next]_vars /\ Fairness
-----------------------------------------------------------------------------
(* Properties *)

Sound(c) ==
    /\ Loopback \in c.ips
    /\ \A e \in c.ips : ValidEntry(e)
    /\ \A o \in c.origins : ValidOrigin(o)
    /\ c.interval >= MinInterval /\ c.retries >= MinRetries

\* A configuration no command may store (an origin or an address that does not
\* parse, a list without the loopback address, a poll interval or a retry count
\* below its minimum) is in no process and in no readable file, whichever way it
\* came: command line, window, import or offline edit.
StoredSound ==
    /\ \A p \in Procs : mem[p] # None => Sound(mem[p])
    /\ file.kind = "whole" => Sound(file.config)

\* A save that was reported as done, and that no other save overlapped or
\* followed, is in the file and in the memory of the process that ran it.
AckedIsKept ==
    \A c \in Clients :
        (client[c].result = "ok" /\ req[c].stage = "ok" /\ latest = c) =>
            /\ file = Whole(req[c].config)
            /\ mem[req[c].exec] \in {None, req[c].config}

\* An import that was reported as done saved what the user was shown, on top of
\* the configuration the import read, even when the file was written again in
\* between.
ImportAsPreviewed ==
    \A c \in Clients :
        (client[c].result = "ok" /\ client[c].inv.kind = "import" /\ req[c].stage = "ok") =>
            LET saved == req[c].config
                items == client[c].seen.items
            IN  /\ saved = merge_payload(req[c].base, client[c].seen.payload)
                /\ \A f \in DOMAIN saved :
                     IF f \in DOMAIN items
                     THEN items[f] = Display(f, saved, client[c].seen.payload)
                     ELSE saved[f] = req[c].base[f]

Quiet == \A c \in Clients : client[c].pc \in {"idle", "done"} /\ ~InFlight(c)

\* With one command at a time, when none is under way, a readable file is what
\* every running agent works with, and the system's autostart is the configured
\* one, also after a save that failed.  `clean` excludes what the code does not
\* repair: a save cut short or run beside another agent, and a toggle whose save
\* failed.
StateAgrees ==
    (Quiet /\ clean /\ Loadable) =>
        /\ Load.autostart = os
        /\ \A a \in Agents : Up(a) => mem[a] = Load

\* Every command line ends, whether or not an agent answers.
CommandsEnd ==
    \A c \in Clients :
        (client[c].pc \notin {"idle", "done"} /\ ~InProcess(c)) ~> client[c].pc = "done"
=============================================================================
