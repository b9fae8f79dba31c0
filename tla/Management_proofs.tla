------------------------- MODULE Management_proofs -------------------------
(***************************************************************************)
(* What holds of the configuration for any agents, clients, commands and   *)
(* export files.  A configuration is known by its shape: a function of the *)
(* fields.  The argument has four layers, one for each property, that all  *)
(* rest on the first: which configurations there are and who still runs    *)
(* (StoredInv), the save that began last (AckInv), what the user of an     *)
(* import was shown (ImportInv), and one command at a time (AgreeInv).     *)
(***************************************************************************)
EXTENDS Management, TLAPS

Fields == TransferFields \cup LocalFields
IsConfig(c) == c = [f \in Fields |-> c[f]]
Good(c) == IsConfig(c) /\ Sound(c)

\* The loopback entry is a valid one, and not a blank line.
LEMMA LoopbackValid == ValidEntry(Loopback) /\ Loopback # Blank /\ ~ValidEntry(Blank)
<1>1. PICK a \in LoopbackAddrs : Loopback = Ip(a)
  BY AddressAssumption DEF Loopback
<1>2. a # 0
  BY AddressAssumption
<1> QED
  BY <1>1, <1>2 DEF Ip, Blank, ValidEntry

\* What normalized does to each field.
LEMMA NormalizedFields ==
    ASSUME NEW c, IsConfig(c)
    PROVE  /\ IsConfig(normalized(c))
           /\ normalized(c).ips = {Loopback} \cup {e \in c.ips : e # Blank}
           /\ \A f \in Fields \ {"ips"} : normalized(c)[f] = c[f]
  BY DEF IsConfig, normalized, normalize_allowed_ips, Fields, TransferFields, LocalFields

\* A configuration with the loopback address and no blank line is normalized already.
LEMMA NormalizedSame ==
    ASSUME NEW c, IsConfig(c), Loopback \in c.ips, Blank \notin c.ips
    PROVE  normalized(c) = c
<1>1. normalized(c).ips = c.ips
  BY NormalizedFields
<1>2. \A f \in Fields : normalized(c)[f] = c[f]
  BY <1>1, NormalizedFields
<1> QED
  BY <1>2, NormalizedFields DEF IsConfig

\* Loading a stored configuration gives it back.
LEMMA GoodNormalized ==
    ASSUME NEW c, Good(c)
    PROVE  normalized(c) = c
  BY NormalizedSame, LoopbackValid DEF Good, Sound

\* What save_config accepts is fit to be stored once it is normalized.
LEMMA SaveableGood ==
    ASSUME NEW c, IsConfig(c), Saveable(c)
    PROVE  Good(normalized(c))
<1>1. /\ normalized(c).origins = c.origins /\ normalized(c).interval = c.interval
      /\ normalized(c).retries = c.retries
  BY NormalizedFields DEF Fields, TransferFields
<1>2. \A e \in normalized(c).ips : ValidEntry(e)
  BY NormalizedFields, LoopbackValid DEF Saveable
<1>3. Loopback \in normalized(c).ips /\ IsConfig(normalized(c))
  BY NormalizedFields
<1> QED
  BY <1>1, <1>2, <1>3 DEF Good, Sound, Saveable, MinInterval, MinRetries

\* So is the default configuration.
LEMMA DefaultGood == Good(DefaultConfig)
<1>1. DOMAIN DefaultConfig = Fields
  BY DEF DefaultConfig, Fields, TransferFields, LocalFields
<1>3. DefaultConfig \in [Fields -> {DefaultConfig[f] : f \in Fields}]
  BY <1>1 DEF DefaultConfig
<1>4. IsConfig(DefaultConfig)
  BY <1>3 DEF IsConfig
<1>2. Sound(DefaultConfig)
  BY LoopbackValid DEF Sound, DefaultConfig, MinInterval, MinRetries
<1> QED
  BY <1>4, <1>2 DEF Good

\* Normalizing twice is normalizing once.
LEMMA NormalizedTwice ==
    ASSUME NEW c, IsConfig(c)
    PROVE  normalized(normalized(c)) = normalized(c)
  BY NormalizedFields, NormalizedSame, LoopbackValid

\* What merge_payload makes of each field of the current configuration.
LEMMA MergeFields ==
    ASSUME NEW c, IsConfig(c), NEW payload, DOMAIN payload \subseteq TransferFields,
           NEW m, m = merge_payload(c, payload)
    PROVE  /\ IsConfig(m) /\ normalized(m) = m /\ m.autostart = c.autostart
           /\ \A f \in Fields \ {"ips"} :
                m[f] = IF f \notin DOMAIN payload THEN c[f]
                       ELSE IF f = "token" /\ payload[f] \in {None, "blank"} THEN c[f]
                       ELSE IF f = "endpoint" THEN normalize_endpoint_url(payload[f])
                       ELSE payload[f]
           /\ m.ips = {Loopback} \cup
                {e \in IF "ips" \in DOMAIN payload THEN payload["ips"] ELSE c.ips : e # Blank}
<1> DEFINE r == [f \in DOMAIN c |->
                  IF f \notin DOMAIN payload THEN c[f]
                  ELSE CASE f = "token" /\ payload[f] \in {None, "blank"} -> c[f]
                         [] f = "endpoint" -> normalize_endpoint_url(payload[f])
                         [] OTHER -> payload[f]]
<1>1. m = normalized(r)
  BY DEF merge_payload
<1>2. DOMAIN c = Fields
  BY DEF IsConfig
<1>3. IsConfig(r)
  BY <1>2 DEF IsConfig
<1>4. \A f \in Fields :
        r[f] = IF f \notin DOMAIN payload THEN c[f]
               ELSE IF f = "token" /\ payload[f] \in {None, "blank"} THEN c[f]
               ELSE IF f = "endpoint" THEN normalize_endpoint_url(payload[f])
               ELSE payload[f]
  BY <1>2
<1> HIDE DEF r
<1>5. "ips" \in Fields /\ "autostart" \in Fields /\ "autostart" \notin DOMAIN payload
  BY DEF Fields, TransferFields, LocalFields
<1>6. r.ips = IF "ips" \in DOMAIN payload THEN payload["ips"] ELSE c.ips
  BY <1>4, <1>5
<1>7. \A f \in Fields \ {"ips"} : m[f] = r[f]
  BY <1>1, <1>3, NormalizedFields
<1>8. m.autostart = c.autostart
  BY <1>4, <1>5, <1>7
<1>9. IsConfig(m) /\ normalized(m) = m
  BY <1>1, <1>3, NormalizedFields, NormalizedTwice
<1>10. m.ips = {Loopback} \cup {e \in r.ips : e # Blank}
  BY <1>1, <1>3, NormalizedFields
<1> QED
  BY <1>4, <1>6, <1>7, <1>8, <1>9, <1>10

\* A field the payload does not carry keeps its stored value.
LEMMA MergeKeeps ==
    ASSUME NEW c, Good(c), NEW payload, DOMAIN payload \subseteq TransferFields,
           NEW f \in Fields \ DOMAIN payload
    PROVE  merge_payload(c, payload)[f] = c[f]
<1>1. IsConfig(c)
  BY DEF Good
<1> DEFINE m == merge_payload(c, payload)
<1>3. CASE f # "ips"
  BY <1>1, <1>3, MergeFields
<1>4. CASE f = "ips"
  <2>1. m.ips = {Loopback} \cup {e \in c.ips : e # Blank}
    BY <1>1, <1>4, MergeFields
  <2>2. Loopback \in c.ips /\ Blank \notin c.ips
    BY LoopbackValid DEF Good, Sound
  <2> QED
    BY <1>4, <2>1, <2>2
<1> QED
  BY <1>3, <1>4

\* What a preview shows depends on the file alone.
LEMMA PreviewShows ==
    ASSUME NEW c, IsConfig(c), NEW d, IsConfig(d),
           NEW payload, DOMAIN payload \subseteq TransferFields, NEW f \in DOMAIN payload
    PROVE  Display(f, merge_payload(c, payload), payload)
             = Display(f, merge_payload(d, payload), payload)
<1> DEFINE m == merge_payload(c, payload)
           n == merge_payload(d, payload)
<1>1. f \in Fields
  BY DEF Fields
<1>2. f # "token" => m[f] = n[f]
  <2>1. CASE f \notin {"token", "ips"}
    BY <1>1, <2>1, MergeFields
  <2>2. CASE f = "ips"
    <3> HIDE DEF m, n
    <3>1. m = merge_payload(c, payload) /\ n = merge_payload(d, payload)
      BY DEF m, n
    <3>2. m.ips = {Loopback} \cup {e \in payload["ips"] : e # Blank}
      BY <2>2, <3>1, MergeFields
    <3>3. n.ips = {Loopback} \cup {e \in payload["ips"] : e # Blank}
      BY <2>2, <3>1, MergeFields
    <3> QED
      BY <2>2, <3>2, <3>3
  <2> QED
    BY <2>1, <2>2
<1> QED
  BY <1>2 DEF Display

\* So every preview of a file is the one on top of the default configuration.
LEMMA PreviewSame ==
    ASSUME NEW c, IsConfig(c), NEW payload, DOMAIN payload \subseteq TransferFields
    PROVE  preview_payload(c, payload) = preview_payload(DefaultConfig, payload)
<1>1. IsConfig(DefaultConfig)
  BY DefaultGood DEF Good
<1>2. ASSUME NEW f \in DOMAIN payload
      PROVE  Display(f, merge_payload(c, payload), payload)
               = Display(f, merge_payload(DefaultConfig, payload), payload)
  BY <1>1, PreviewShows
<1> QED
  BY <1>2 DEF preview_payload

\* An edit changes a field of the configuration, but never the autostart.
LEMMA EditShape ==
    ASSUME NEW c, IsConfig(c), NEW op, op.cmd # "autostart", NEW free, NEW n \in Edit(c, op, free)
    PROVE  IsConfig(n) /\ n.autostart = c.autostart
<1>1. ASSUME NEW f, f # "autostart", NEW v
      PROVE  IsConfig([c EXCEPT ![f] = v]) /\ [c EXCEPT ![f] = v].autostart = c.autostart
  BY <1>1 DEF IsConfig, Fields, LocalFields
<1>2. ASSUME NEW d, IsConfig(d)
      PROVE  IsConfig(normalized(d)) /\ normalized(d).autostart = d.autostart
  BY <1>2, NormalizedFields DEF Fields, LocalFields
<1>3. CASE op.cmd = "service"
  <2>1. n = [c EXCEPT !["port"] = op.arg]
    BY <1>3 DEF Edit, service_config
  <2> QED
    BY <2>1, <1>1
<1>4. CASE op.cmd = "ip add"
  <2> DEFINE d == [c EXCEPT !["ips"] = c.ips \cup {op.arg}]
  <2>1. n = normalized(d)
    BY <1>4 DEF Edit, ip_add
  <2>2. IsConfig(d) /\ d.autostart = c.autostart
    BY <1>1
  <2> HIDE DEF d
  <2> QED
    BY <2>1, <2>2, <1>2
<1>5. CASE op.cmd = "ip delete"
  <2> DEFINE d == [c EXCEPT !["ips"] = c.ips \ {op.arg}]
  <2>1. n = normalized(d)
    BY <1>5 DEF Edit, ip_delete
  <2>2. IsConfig(d) /\ d.autostart = c.autostart
    BY <1>1
  <2> HIDE DEF d
  <2> QED
    BY <2>1, <2>2, <1>2
<1>6. CASE op.cmd = "origin add"
  <2>1. n = [c EXCEPT !["origins"] = @ \cup {op.arg}]
    BY <1>6 DEF Edit, origin_add
  <2> QED
    BY <2>1, <1>1
<1>7. CASE op.cmd = "origin delete"
  <2>1. n = [c EXCEPT !["origins"] = @ \ {op.arg}]
    BY <1>7 DEF Edit, origin_delete
  <2> QED
    BY <2>1, <1>1
<1>8. CASE op.cmd = "printer"
  <2>1. n = [c EXCEPT !["printer"] = op.arg]
    BY <1>8 DEF Edit, printer_set_default
  <2> QED
    BY <2>1, <1>1
<1>9. CASE op.cmd = "paper"
  <2>1. n = [c EXCEPT !["paper"] = op.arg]
    BY <1>9 DEF Edit, paper_set
  <2> QED
    BY <2>1, <1>1
<1>10. CASE op.cmd = "app"
  <2>1. n = [c EXCEPT !["language"] = op.arg]
    BY <1>10 DEF Edit, set_language
  <2> QED
    BY <2>1, <1>1
<1>11. CASE op.cmd \notin {"service", "ip add", "ip delete", "origin add", "origin delete",
                           "printer", "paper", "app"}
  <2>1. n \in remote_set(c, op.cmd, op.arg)
    BY <1>11 DEF Edit
  <2>2. n = [c EXCEPT ![op.cmd] = op.arg]
    BY <2>1 DEF remote_set
  <2> QED
    BY <2>2, <1>1
<1> QED
  BY <1>3, <1>4, <1>5, <1>6, <1>7, <1>8, <1>9, <1>10, <1>11

-----------------------------------------------------------------------------
(* Which configurations there are, and who still runs. *)

Busy(c) == client[c].pc \notin {"idle", "done"}

\* The places of a client before its request.
Before == {"idle", "os", "get", "gui", "export", "save", "preview", "confirm", "import", "query"}

AgentFields == {"phase", "listen"}
ClientFields == {"inv", "pc", "config", "was", "seen", "result"}
RequestFields == {"stage", "exec", "base", "config"}
IsAgent(r) == r = [f \in AgentFields |-> r[f]]
IsClient(r) == r = [f \in ClientFields |-> r[f]]
IsRequest(r) == r = [f \in RequestFields |-> r[f]]

Shape ==
    /\ DOMAIN agent = Agents /\ \A a \in Agents : IsAgent(agent[a])
    /\ DOMAIN mem = Procs
    /\ DOMAIN client = Clients /\ \A c \in Clients : IsClient(client[c])
    /\ DOMAIN req = Clients /\ \A c \in Clients : IsRequest(req[c])
    /\ socket \in Agents \cup {None}

\* Every configuration in memory or in a readable file is good, and an agent that
\* is not down has one.
AgentInv ==
    /\ \A p \in Procs : mem[p] = None \/ Good(mem[p])
    /\ \A a \in Agents : agent[a].phase # "down" => Good(mem[a])
    /\ file.kind \in {"absent", "empty", "whole", "mixed"}
    /\ file.kind = "whole" => Good(file.config)

\* A client that is under way has a process to run in, and no request before it
\* has made one.
ClientInv(c) ==
    /\ client[c].pc = "idle" => client[c] = NoCommand
    /\ client[c].pc # "idle" => client[c].inv \in Invocations[c]
    /\ (Busy(c) /\ InProcess(c)) => Up(client[c].inv.agent)
    /\ (Busy(c) /\ ~InProcess(c)) => Good(mem[c])
    /\ client[c].pc \in {"save", "gui", "export"} => IsConfig(client[c].config)
    /\ client[c].pc \in {"gui", "rollback"} => client[c].inv.kind = "gui"
    /\ client[c].pc \in {"preview", "confirm", "import"} => client[c].inv.kind = "import"
    /\ client[c].pc = "os" => client[c].inv.kind \in {"autostart", "tray"}
    /\ client[c].pc = "export" => client[c].inv.kind = "export"
    /\ client[c].pc \in Before => req[c] = NoRequest

\* So has a request, and what it is about to store is good.
RequestInv(c) ==
    /\ InFlight(c) => /\ req[c].exec \in Agents \cup {c}
                      /\ Good(mem[req[c].exec])
                      /\ req[c].exec \in Agents => Up(req[c].exec)
    /\ At(c, "ok") => req[c].exec \in Agents \cup {c}
    /\ At(c, "merge") => Good(req[c].base)
    /\ At(c, "begin") => IsConfig(req[c].config)
    /\ req[c].stage \in {"write", "apply", "ok"} => Good(req[c].config)

StoredInv ==
    Shape /\ AgentInv /\ \A c \in Clients : ClientInv(c) /\ RequestInv(c)

\* The constants' assumptions the proofs use.
LEMMA Constants ==
    /\ Desktop \subseteq Agents /\ Agents \cap Clients = {} /\ None \notin Procs
    /\ \A c \in Clients : \A inv \in Invocations[c] :
         /\ inv # None
         /\ inv.kind \in {"gui", "tray"} => inv.agent \in Agents
         /\ inv.kind = "edit" => inv.op.cmd # "autostart"
  BY ManagementAssumption DEF Procs

\* What loading the file gives is good.
LEMMA LoadGood ==
    ASSUME AgentInv, Loadable
    PROVE  Good(Load) /\ (file.kind = "whole" => Load = file.config)
  BY DefaultGood, GoodNormalized DEF AgentInv, Loadable, Load

\* The process that executes a command runs, and has a good configuration.
LEMMA ExecutorRuns ==
    ASSUME StoredInv, NEW c \in Clients, Busy(c), NEW cmd, NEW e \in Executor(c, cmd)
    PROVE  /\ e \in Agents \cup {c} /\ e \in Procs
           /\ Good(mem[e])
           /\ e \in Agents => Up(e)
<1>1. client[c].inv \in Invocations[c] /\ (InProcess(c) => Up(client[c].inv.agent))
      /\ (~InProcess(c) => Good(mem[c]))
  BY DEF StoredInv, ClientInv, Busy
<1>2. \A a \in Agents : Up(a) => Good(mem[a])
  BY DEF StoredInv, AgentInv, Up
<1>3. CASE InProcess(c)
  BY <1>1, <1>2, <1>3, Constants DEF Executor, InProcess, Procs
<1>4. CASE ~InProcess(c) /\ e = c
  BY <1>1, <1>4, Constants DEF Procs
<1>5. CASE ~InProcess(c) /\ e # c
  <2>1. e = socket /\ socket # None /\ Up(e)
    BY <1>5 DEF Executor
  <2>2. e \in Agents
    BY <2>1 DEF StoredInv, Shape
  <2> QED
    BY <2>1, <2>2, <1>2 DEF Procs
<1> QED
  BY <1>3, <1>4, <1>5

\* A step of one client's program leaves the rest of the system as it was.
LEMMA ClientFrame ==
    ASSUME StoredInv, NEW c \in Clients, UNCHANGED <<agent, mem, file, req, socket>>,
           DOMAIN client' = Clients, IsClient(client'[c]),
           \A d \in Clients \ {c} : client'[d] = client[d],
           ClientInv(c)'
    PROVE  StoredInv'
<1>1. Shape'
  BY DEF StoredInv, Shape, IsClient, IsRequest, IsAgent
<1>2. AgentInv'
  BY DEF StoredInv, AgentInv
<1>3. ASSUME NEW d \in Clients
      PROVE  ClientInv(d)'
  <2>1. CASE d # c
    BY <2>1 DEF StoredInv, ClientInv, Busy, InProcess, Up
  <2> QED
    BY <2>1
<1>4. ASSUME NEW d \in Clients
      PROVE  RequestInv(d)'
  BY DEF StoredInv, RequestInv, InFlight, At, Up
<1> QED
  BY <1>1, <1>2, <1>3, <1>4 DEF StoredInv

\* A command that ends needs nothing any more.
LEMMA FinishInv ==
    ASSUME StoredInv, NEW c \in Clients, client[c].pc # "idle", NEW result,
           client' = [client EXCEPT ![c] = Finish(c, result)]
    PROVE  /\ DOMAIN client' = Clients /\ IsClient(client'[c])
           /\ client'[c].pc = "done" /\ client'[c].inv = client[c].inv
           /\ client'[c].result = result /\ client'[c].seen = client[c].seen
           /\ \A d \in Clients \ {c} : client'[d] = client[d]
           /\ ClientInv(c)'
<1> DEFINE n == Finish(c, result)
<1>1. DOMAIN client = Clients /\ IsClient(client[c])
  BY DEF StoredInv, Shape
<1>2. /\ IsClient(n) /\ n.pc = "done" /\ n.inv = client[c].inv /\ n.result = result
      /\ n.seen = client[c].seen
  BY <1>1 DEF IsClient, ClientFields, Finish
<1>3. /\ DOMAIN client' = Clients /\ client'[c] = n
      /\ \A d \in Clients \ {c} : client'[d] = client[d]
  BY <1>1
<1> HIDE DEF n
<1>4. n.inv \in Invocations[c]
  BY <1>2 DEF StoredInv, ClientInv
<1>5. ClientInv(c)'
  BY <1>2, <1>3, <1>4 DEF ClientInv, Busy, Before
<1> QED
  BY <1>2, <1>3, <1>5

\* What a client goes on to save has the shape of a configuration; only the toggles
\* and a window's form change the autostart.
LEMMA IntendedShape ==
    ASSUME NEW c \in Clients, client[c].inv \in Invocations[c],
           NEW current, IsConfig(current), NEW n \in Intended(c, current)
    PROVE  /\ IsConfig(n)
           /\ client[c].inv.kind \in {"edit", "export"} => n.autostart = current.autostart
           /\ client[c].inv.kind \notin {"edit", "export", "gui"} => n.autostart = client[c].was
<1> DEFINE inv == client[c].inv
<1>1. CASE inv.kind = "edit"
  <2>1. n \in Edit(current, inv.op, PortFree(inv.op.arg))
    BY <1>1 DEF Intended
  <2>2. inv.op.cmd # "autostart"
    BY <1>1, Constants
  <2> QED
    BY <1>1, <2>1, <2>2, EditShape
<1>2. CASE inv.kind = "gui"
  <2>1. n = [f \in DOMAIN current |-> IF f \in DOMAIN inv.form THEN inv.form[f] ELSE current[f]]
    BY <1>2 DEF Intended
  <2>2. DOMAIN current = Fields
    BY DEF IsConfig
  <2> QED
    BY <1>2, <2>1, <2>2 DEF IsConfig
<1>3. CASE inv.kind = "export"
  BY <1>3 DEF Intended
<1>4. CASE inv.kind \notin {"edit", "gui", "export"}
  <2>1. n = [current EXCEPT !.autostart = client[c].was]
    BY <1>4 DEF Intended
  <2> QED
    BY <1>4, <2>1 DEF IsConfig, Fields, LocalFields
<1> QED
  BY <1>1, <1>2, <1>3, <1>4

\* Steps that end a command.
LEMMA EndsStored ==
    ASSUME StoredInv, NEW c \in Clients, client[c].pc # "idle", NEW result,
           client' = [client EXCEPT ![c] = Finish(c, result)],
           UNCHANGED <<agent, mem, file, req, socket>>
    PROVE  StoredInv'
  BY FinishInv, ClientFrame

\* A command that finds no process to run in ends.
LEMMA RefusedStored ==
    ASSUME StoredInv, NEW c \in Clients, Refused(c)
    PROVE  StoredInv'
<1>1. client[c].pc # "idle"
  BY DEF Refused, CommandOf
<1> QED
  BY <1>1, EndsStored DEF Refused, world

\* A command line starts with a good configuration, a desktop command in a running agent.
LEMMA StartStored ==
    ASSUME StoredInv, NEW c \in Clients, Start(c)
    PROVE  StoredInv'
<1>1. PICK inv \in Invocations[c] :
        IF inv.kind \in {"gui", "tray"}
        THEN /\ Up(inv.agent)
             /\ client' = [client EXCEPT ![c].inv = inv, ![c].pc = FirstPc(inv)]
             /\ UNCHANGED mem
        ELSE IF Loadable
        THEN /\ client' = [client EXCEPT ![c] =
                    [@ EXCEPT !.inv = inv, !.pc = FirstPc(inv),
                              !.result = IF FirstPc(inv) = "done" THEN "err" ELSE "none"]]
             /\ mem' = [mem EXCEPT ![c] = Load]
        ELSE /\ client' = [client EXCEPT ![c] =
                    [@ EXCEPT !.inv = inv, !.pc = "done", !.result = "err"]]
             /\ UNCHANGED mem
  BY DEF Start
<1>2. client[c].pc = "idle" /\ UNCHANGED <<agent, file, req, socket>>
  BY DEF Start, world
<1>3. DOMAIN client = Clients /\ IsClient(client[c]) /\ DOMAIN mem = Procs /\ c \in Procs
  BY DEF StoredInv, Shape, Procs
<1> DEFINE Effect ==
        /\ DOMAIN client' = Clients /\ IsClient(client'[c])
        /\ \A d \in Clients \ {c} : client'[d] = client[d]
        /\ client'[c].inv = inv
        /\ client'[c].pc \in {"done", FirstPc(inv)}
        /\ (inv.kind \notin {"gui", "tray"} /\ ~Loadable) => client'[c].pc = "done"
<1>4. Effect
  <2>1. CASE inv.kind \in {"gui", "tray"}
    BY <1>1, <1>3, <2>1 DEF IsClient, ClientFields
  <2>2. CASE inv.kind \notin {"gui", "tray"} /\ Loadable
    BY <1>1, <1>3, <2>2 DEF IsClient, ClientFields
  <2>3. CASE inv.kind \notin {"gui", "tray"} /\ ~Loadable
    BY <1>1, <1>3, <2>3 DEF IsClient, ClientFields
  <2> QED
    BY <2>1, <2>2, <2>3
<1>5. /\ FirstPc(inv) \in {"get", "os", "done", "preview", "query"}
      /\ FirstPc(inv) = "os" => inv.kind \in {"autostart", "tray"}
      /\ FirstPc(inv) = "preview" => inv.kind = "import"
  BY DEF FirstPc
<1>6. req[c] = NoRequest
  BY <1>2 DEF StoredInv, ClientInv, Before
<1>7. CASE inv.kind \in {"gui", "tray"} \/ ~Loadable
  <2>1. client'[c].pc # "done" => inv.kind \in {"gui", "tray"} /\ Up(inv.agent)
    BY <1>1, <1>4, <1>7
  <2>3. UNCHANGED mem
    BY <1>1, <1>7
  <2>2. ClientInv(c)'
    BY <1>2, <1>4, <1>5, <1>6, <2>1, <2>3 DEF ClientInv, Busy, InProcess, Up, Before
  <2> QED
    BY <1>2, <1>4, <2>3, <2>2, ClientFrame
<1>8. CASE Loadable /\ inv.kind \notin {"gui", "tray"}
  <2>1. Good(Load)
    BY <1>8, LoadGood DEF StoredInv
  <2>2. DOMAIN mem' = Procs /\ mem'[c] = Load /\ \A p \in Procs \ {c} : mem'[p] = mem[p]
    BY <1>1, <1>3, <1>8
  <2>3. Shape'
    BY <1>2, <1>4, <2>2 DEF StoredInv, Shape, IsClient, IsAgent, IsRequest
  <2>4. AgentInv'
    BY <1>2, <2>1, <2>2, Constants DEF StoredInv, AgentInv, Procs
  <2>5. ASSUME NEW d \in Clients
        PROVE  ClientInv(d)'
    <3>1. CASE d = c
      BY <1>2, <1>4, <1>5, <1>6, <1>8, <2>1, <2>2, <3>1 DEF ClientInv, Busy, InProcess, Up, Before
    <3>2. CASE d # c
      <4>1. mem'[d] = mem[d]
        BY <3>2, <2>2 DEF Procs
      <4> QED
        BY <1>2, <1>4, <4>1, <3>2 DEF StoredInv, ClientInv, Busy, InProcess, Up
    <3> QED
      BY <3>1, <3>2
  <2>6. ASSUME NEW d \in Clients
        PROVE  RequestInv(d)'
    <3>1. InFlight(d) => mem'[req[d].exec] = mem[req[d].exec]
      <4>1. CASE d = c
        BY <1>6, <4>1 DEF InFlight, NoRequest
      <4>2. CASE d # c /\ InFlight(d)
        <5>1. req[d].exec \in Agents \cup {d}
          BY <4>2 DEF StoredInv, RequestInv
        <5> QED
          BY <5>1, <4>2, <2>2, Constants DEF Procs
      <4> QED
        BY <4>1, <4>2
    <3> QED
      BY <1>2, <3>1 DEF StoredInv, RequestInv, InFlight, At, Up
  <2> QED
    BY <2>3, <2>4, <2>5, <2>6 DEF StoredInv
<1> QED
  BY <1>1, <1>7, <1>8

\* Setting the system touches no configuration.
LEMMA SetOsStored ==
    ASSUME StoredInv, NEW c \in Clients, SetOs(c)
    PROVE  StoredInv'
<1>1. PICK on : client' = [client EXCEPT ![c].pc = "get", ![c].was = on]
  BY DEF SetOs
<1>2. client[c].pc = "os" /\ UNCHANGED <<agent, mem, file, req, socket>>
  BY DEF SetOs, world
<1>3. DOMAIN client = Clients /\ IsClient(client[c])
  BY DEF StoredInv, Shape
<1>4. /\ DOMAIN client' = Clients /\ IsClient(client'[c])
      /\ \A d \in Clients \ {c} : client'[d] = client[d]
      /\ client'[c].inv = client[c].inv /\ client'[c].pc = "get"
  BY <1>1, <1>3 DEF IsClient, ClientFields
<1>5. ClientInv(c)'
  BY <1>2, <1>4 DEF StoredInv, ClientInv, Busy, InProcess, Up, Before
<1> QED
  BY <1>2, <1>4, <1>5, ClientFrame

\* A system that refuses ends the command.
LEMMA OsFailsStored ==
    ASSUME StoredInv, NEW c \in Clients, OsFails(c)
    PROVE  StoredInv'
  BY EndsStored DEF OsFails, world

\* What a client makes of the configuration it is given has the shape of one.
LEMMA GetStored ==
    ASSUME StoredInv, NEW c \in Clients, Get(c)
    PROVE  StoredInv'
<1>1. client[c].pc = "get" /\ UNCHANGED <<agent, mem, file, req, socket>>
  BY DEF Get, world
<1>2. CASE client' = [client EXCEPT ![c] = Finish(c, "err")]
  BY <1>1, <1>2, EndsStored
<1>3. ASSUME NEW e \in Executor(c, "GetConfig"), NEW n \in Intended(c, mem[e]),
             NEW next \in {"gui", "export", "save"}, next = "gui" => client[c].inv.kind = "gui",
             next = "export" => client[c].inv.kind = "export",
             client' = [client EXCEPT ![c].config = n, ![c].pc = next]
      PROVE  StoredInv'
  <2>1. IsConfig(mem[e])
    BY <1>1, ExecutorRuns DEF Busy, Good
  <2>2. client[c].inv \in Invocations[c] /\ DOMAIN client = Clients /\ IsClient(client[c])
    BY <1>1 DEF StoredInv, ClientInv, Shape
  <2>3. IsConfig(n)
    BY <2>1, <2>2, IntendedShape
  <2>4. /\ DOMAIN client' = Clients /\ IsClient(client'[c])
        /\ \A d \in Clients \ {c} : client'[d] = client[d]
        /\ client'[c].inv = client[c].inv /\ client'[c].pc = next /\ client'[c].config = n
    BY <1>3, <2>2 DEF IsClient, ClientFields
  <2>5. ClientInv(c)'
    BY <1>1, <1>3, <2>3, <2>4 DEF StoredInv, ClientInv, Busy, InProcess, Up, Before
  <2> QED
    BY <1>1, <2>4, <2>5, ClientFrame
<1>4. \/ client' = [client EXCEPT ![c] = Finish(c, "err")]
      \/ \E e \in Executor(c, "GetConfig") : \E n \in Intended(c, mem[e]) :
           \E next \in {"gui", "export", "save"} :
             /\ next = "gui" => client[c].inv.kind = "gui"
             /\ next = "export" => client[c].inv.kind = "export"
             /\ client' = [client EXCEPT ![c].config = n, ![c].pc = next]
  BY DEF Get
<1> QED
  BY <1>2, <1>3, <1>4

\* The window's save passes on the configuration it was given.
LEMMA GuiApplyStored ==
    ASSUME StoredInv, NEW c \in Clients, GuiApply(c)
    PROVE  StoredInv'
<1>1. client[c].pc = "gui" /\ UNCHANGED <<agent, mem, file, req, socket>>
  BY DEF GuiApply, world
<1>2. CASE client' = [client EXCEPT ![c] = Finish(c, "err")]
  BY <1>1, <1>2, EndsStored
<1>3. ASSUME NEW was, client' = [client EXCEPT ![c].pc = "save", ![c].was = was]
      PROVE  StoredInv'
  <2>1. DOMAIN client = Clients /\ IsClient(client[c])
    BY DEF StoredInv, Shape
  <2>2. /\ DOMAIN client' = Clients /\ IsClient(client'[c])
        /\ \A d \in Clients \ {c} : client'[d] = client[d]
        /\ client'[c].inv = client[c].inv /\ client'[c].pc = "save"
        /\ client'[c].config = client[c].config
    BY <1>3, <2>1 DEF IsClient, ClientFields
  <2>3. ClientInv(c)'
    BY <1>1, <2>2 DEF StoredInv, ClientInv, Busy, InProcess, Up, Before
  <2> QED
    BY <1>1, <2>2, <2>3, ClientFrame
<1> QED
  BY <1>2, <1>3 DEF GuiApply

\* A rollback changes the system only.
LEMMA GuiRollbackStored ==
    ASSUME StoredInv, NEW c \in Clients, GuiRollback(c)
    PROVE  StoredInv'
  BY EndsStored DEF GuiRollback, world

\* An export changes no configuration.
LEMMA ExportStored ==
    ASSUME StoredInv, NEW c \in Clients, Export(c)
    PROVE  StoredInv'
  BY EndsStored DEF Export

\* What a preview that succeeds leaves in the client.
LEMMA PreviewEffect ==
    ASSUME StoredInv, NEW c \in Clients, NEW pc, NEW result, NEW seen,
           client' = [client EXCEPT ![c].pc = pc, ![c].result = result, ![c].seen = seen]
    PROVE  /\ DOMAIN client' = Clients /\ IsClient(client'[c])
           /\ \A d \in Clients \ {c} : client'[d] = client[d]
           /\ client'[c].inv = client[c].inv /\ client'[c].pc = pc
           /\ client'[c].result = result /\ client'[c].seen = seen
<1>1. DOMAIN client = Clients /\ IsClient(client[c])
  BY DEF StoredInv, Shape
<1> QED
  BY <1>1 DEF IsClient, ClientFields

\* Neither does a preview.
LEMMA PreviewStored ==
    ASSUME StoredInv, NEW c \in Clients, Preview(c)
    PROVE  StoredInv'
<1>1. client[c].pc = "preview" /\ UNCHANGED <<agent, mem, file, req, socket>>
  BY DEF Preview, world
<1>2. CASE client' = [client EXCEPT ![c] = Finish(c, "err")]
  BY <1>1, <1>2, EndsStored
<1>3. ASSUME NEW pc \in {"done", "confirm"}, NEW result, NEW seen,
             client' = [client EXCEPT ![c].pc = pc, ![c].result = result, ![c].seen = seen]
      PROVE  StoredInv'
  <2>1. /\ DOMAIN client' = Clients /\ IsClient(client'[c])
        /\ \A d \in Clients \ {c} : client'[d] = client[d]
        /\ client'[c].inv = client[c].inv /\ client'[c].pc = pc
    BY <1>3, PreviewEffect
  <2>2. ClientInv(c)'
    BY <1>1, <1>3, <2>1 DEF StoredInv, ClientInv, Busy, InProcess, Up, Before
  <2> QED
    BY <1>1, <2>1, <2>2, ClientFrame
<1>4. PICK e : client' =
            IF Decrypts(exported, client[c].inv.password) /\ Mergeable(exported.payload)
            THEN [client EXCEPT ![c].pc = IF client[c].inv.preview THEN "done" ELSE "confirm",
                                ![c].result = IF client[c].inv.preview THEN "ok" ELSE "none",
                                ![c].seen =
                     [file_hash |-> exported.hash,
                      items |-> preview_payload(mem[e], exported.payload),
                      payload |-> exported.payload]]
            ELSE [client EXCEPT ![c] = Finish(c, "err")]
  BY DEF Preview
<1> DEFINE pc == IF client[c].inv.preview THEN "done" ELSE "confirm"
<1>5. pc \in {"done", "confirm"}
  OBVIOUS
<1> HIDE DEF pc
<1>6. CASE ~(Decrypts(exported, client[c].inv.password) /\ Mergeable(exported.payload))
  BY <1>2, <1>4, <1>6
<1>7. CASE Decrypts(exported, client[c].inv.password) /\ Mergeable(exported.payload)
  <2>1. \E result, seen :
          client' = [client EXCEPT ![c].pc = pc, ![c].result = result, ![c].seen = seen]
    BY <1>4, <1>7 DEF pc
  <2> QED
    BY <2>1, <1>3, <1>5
<1> QED
  BY <1>6, <1>7

\* A step that moves the client to another place only.
LEMMA MoveEffect ==
    ASSUME StoredInv, NEW c \in Clients, NEW pc, client' = [client EXCEPT ![c].pc = pc]
    PROVE  /\ DOMAIN client' = Clients /\ IsClient(client'[c])
           /\ \A d \in Clients \ {c} : client'[d] = client[d]
           /\ client'[c].inv = client[c].inv /\ client'[c].pc = pc
           /\ client'[c].result = client[c].result /\ client'[c].seen = client[c].seen
           /\ client'[c].was = client[c].was /\ client'[c].config = client[c].config
<1>1. DOMAIN client = Clients /\ IsClient(client[c])
  BY DEF StoredInv, Shape
<1> QED
  BY <1>1 DEF IsClient, ClientFields

\* Nor does the answer to it.
LEMMA ConfirmStored ==
    ASSUME StoredInv, NEW c \in Clients, Confirm(c)
    PROVE  StoredInv'
<1>1. client[c].pc = "confirm" /\ UNCHANGED <<agent, mem, file, req, socket>>
  BY DEF Confirm, world
<1>2. CASE client' = [client EXCEPT ![c] = Finish(c, "cancelled")]
  BY <1>1, <1>2, EndsStored
<1>3. CASE client' = [client EXCEPT ![c].pc = "import"]
  <2>1. ClientInv(c)'
    BY <1>1, <1>3, MoveEffect DEF StoredInv, ClientInv, Busy, InProcess, Up, Before
  <2> QED
    BY <1>1, <1>3, <2>1, MoveEffect, ClientFrame
<1> QED
  BY <1>2, <1>3 DEF Confirm

\* Nor does a command that only reads.
LEMMA QueryStored ==
    ASSUME StoredInv, NEW c \in Clients, Query(c)
    PROVE  StoredInv'
  BY EndsStored DEF Query, world

\* A client that gets its reply ends, or goes on to the rollback.
LEMMA ReplyStored ==
    ASSUME StoredInv, NEW c \in Clients, Reply(c)
    PROVE  StoredInv'
<1>1. client[c].pc = "wait" /\ UNCHANGED <<agent, mem, file, req, socket>>
  BY DEF Reply, world
<1>2. ASSUME NEW result, client' = [client EXCEPT ![c] = Finish(c, result)]
      PROVE  StoredInv'
  BY <1>1, <1>2, EndsStored
<1>3. CASE client' = [client EXCEPT ![c].pc = "rollback"] /\ client[c].inv.kind = "gui"
  <2>1. ClientInv(c)'
    BY <1>1, <1>3, MoveEffect DEF StoredInv, ClientInv, Busy, InProcess, Up, Before
  <2> QED
    BY <1>1, <1>3, <2>1, MoveEffect, ClientFrame
<1> QED
  BY <1>2, <1>3 DEF Reply

\* A client that gives up needs no process any more.
LEMMA TimesOutStored ==
    ASSUME StoredInv, NEW c \in Clients, TimesOut(c)
    PROVE  StoredInv'
  BY EndsStored DEF TimesOut, world

\* A step that changes one request only.
LEMMA RequestFrame ==
    ASSUME StoredInv, NEW c \in Clients, UNCHANGED <<agent, mem, socket, client>>,
           DOMAIN req' = Clients, IsRequest(req'[c]),
           \A d \in Clients \ {c} : req'[d] = req[d],
           client[c].pc \notin Before, RequestInv(c)', AgentInv'
    PROVE  StoredInv'
<1>1. Shape'
  BY DEF StoredInv, Shape, IsClient, IsRequest, IsAgent
<1>3. ASSUME NEW d \in Clients
      PROVE  ClientInv(d)'
  <2>1. client[d].pc \in Before => req'[d] = req[d]
    OBVIOUS
  <2> QED
    BY <2>1 DEF StoredInv, ClientInv, Busy, InProcess, Up
<1>4. ASSUME NEW d \in Clients
      PROVE  RequestInv(d)'
  <2>1. CASE d # c
    BY <2>1 DEF StoredInv, RequestInv, InFlight, At, Up
  <2> QED
    BY <2>1
<1> QED
  BY <1>1, <1>3, <1>4 DEF StoredInv

\* The request a client makes.
LEMMA SubmitEffect ==
    ASSUME StoredInv, NEW c \in Clients, Submit(c)
    PROVE  /\ client[c].pc \in {"save", "import"} /\ req[c] = NoRequest
           /\ DOMAIN req' = Clients /\ \A d \in Clients \ {c} : req'[d] = req[d]
           /\ IsRequest(req'[c]) /\ req'[c].config = client[c].config
           /\ req'[c].exec \in Executor(c, CommandOf(c))
           /\ req'[c].stage = IF client[c].pc = "save" THEN "begin" ELSE "read"
           /\ DOMAIN client' = Clients /\ IsClient(client'[c])
           /\ \A d \in Clients \ {c} : client'[d] = client[d]
           /\ client'[c].inv = client[c].inv /\ client'[c].pc = "wait"
           /\ client'[c].was = client[c].was /\ client'[c].seen = client[c].seen
<1>1. client[c].pc \in {"save", "import"} /\ client' = [client EXCEPT ![c].pc = "wait"]
  BY DEF Submit
<1>2. PICK e \in Executor(c, CommandOf(c)) :
        req' = [req EXCEPT ![c] =
            [stage |-> IF client[c].pc = "save" THEN "begin" ELSE "read",
             exec |-> e, base |-> None, config |-> client[c].config]]
  BY DEF Submit
<1>3. req[c] = NoRequest
  BY <1>1 DEF StoredInv, ClientInv, Before
<1>4. /\ DOMAIN req' = Clients /\ \A d \in Clients \ {c} : req'[d] = req[d]
      /\ IsRequest(req'[c]) /\ req'[c].exec = e /\ req'[c].config = client[c].config
      /\ req'[c].stage = IF client[c].pc = "save" THEN "begin" ELSE "read"
  BY <1>2 DEF StoredInv, Shape, IsRequest, RequestFields
<1> QED
  BY <1>1, <1>3, <1>4, MoveEffect

\* A request is made in a running process, with a configuration.
LEMMA SubmitStored ==
    ASSUME StoredInv, NEW c \in Clients, Submit(c)
    PROVE  StoredInv'
<1>1. client[c].pc \in {"save", "import"} /\ UNCHANGED <<agent, mem, file, socket>>
  BY DEF Submit, world
<1> DEFINE e == req'[c].exec
<1>3. e \in Agents \cup {c} /\ Good(mem[e]) /\ (e \in Agents => Up(e))
  BY <1>1, SubmitEffect, ExecutorRuns DEF Busy
<1>4. /\ DOMAIN req' = Clients /\ \A d \in Clients \ {c} : req'[d] = req[d]
      /\ IsRequest(req'[c]) /\ req'[c].exec = e /\ req'[c].config = client[c].config
      /\ req'[c].stage = IF client[c].pc = "save" THEN "begin" ELSE "read"
  BY SubmitEffect
<1>9. /\ DOMAIN client' = Clients /\ IsClient(client'[c])
      /\ \A d \in Clients \ {c} : client'[d] = client[d]
      /\ client'[c].inv = client[c].inv /\ client'[c].pc = "wait"
  BY SubmitEffect
<1> HIDE DEF e
<1>5. Shape'
  BY <1>1, <1>4, <1>9 DEF StoredInv, Shape, IsClient, IsRequest, IsAgent
<1>6. AgentInv'
  BY <1>1 DEF StoredInv, AgentInv
<1>7. ASSUME NEW d \in Clients
      PROVE  ClientInv(d)'
  <2>1. CASE d # c
    BY <1>1, <1>4, <2>1, <1>9 DEF StoredInv, ClientInv, Busy, InProcess, Up
  <2>2. ClientInv(c)'
    BY <1>1, <1>9 DEF StoredInv, ClientInv, Busy, InProcess, Up, Before
  <2> QED
    BY <2>1, <2>2
<1>8. ASSUME NEW d \in Clients
      PROVE  RequestInv(d)'
  <2>1. CASE d # c
    BY <1>1, <1>4, <2>1 DEF StoredInv, RequestInv, InFlight, At, Up
  <2>2. CASE d = c
    <3>1. client[c].pc = "save" => IsConfig(client[c].config)
      BY DEF StoredInv, ClientInv
    <3> QED
      BY <1>1, <1>3, <1>4, <2>2, <3>1 DEF RequestInv, InFlight, At, Up
  <2> QED
    BY <2>1, <2>2
<1> QED
  BY <1>5, <1>6, <1>7, <1>8 DEF StoredInv

\* A client whose request exists has got past the steps before it.
LEMMA RequestMade ==
    ASSUME StoredInv, NEW c \in Clients, req[c].stage # "none"
    PROVE  client[c].pc \notin Before
  BY DEF StoredInv, ClientInv, NoRequest

\* A step that moves a request to another stage only.
LEMMA GoEffect ==
    ASSUME StoredInv, NEW c \in Clients, NEW stage, req' = Go(c, stage)
    PROVE  /\ DOMAIN req' = Clients /\ IsRequest(req'[c])
           /\ \A d \in Clients \ {c} : req'[d] = req[d]
           /\ req'[c].stage = stage /\ req'[c].exec = req[c].exec
           /\ req'[c].base = req[c].base /\ req'[c].config = req[c].config
<1>1. DOMAIN req = Clients /\ IsRequest(req[c])
  BY DEF StoredInv, Shape
<1> QED
  BY <1>1 DEF Go, IsRequest, RequestFields

\* An import starts from a good configuration.
LEMMA ImportReadStored ==
    ASSUME StoredInv, NEW c \in Clients, ImportRead(c)
    PROVE  StoredInv'
<1>1. /\ req[c].stage = "read" /\ UNCHANGED <<agent, mem, socket, client, file>>
      /\ req' = [req EXCEPT ![c].stage = "merge", ![c].base = mem[req[c].exec]]
  BY DEF ImportRead, At, world
<1>2. DOMAIN req = Clients /\ IsRequest(req[c])
  BY DEF StoredInv, Shape
<1>3. /\ DOMAIN req' = Clients /\ IsRequest(req'[c])
      /\ \A d \in Clients \ {c} : req'[d] = req[d]
      /\ req'[c].stage = "merge" /\ req'[c].exec = req[c].exec
      /\ req'[c].base = mem[req[c].exec]
  BY <1>1, <1>2 DEF IsRequest, RequestFields
<1>4. RequestInv(c)'
  BY <1>1, <1>3 DEF StoredInv, RequestInv, InFlight, At, Up
<1>5. AgentInv'
  BY <1>1 DEF StoredInv, AgentInv
<1>6. client[c].pc \notin Before
  BY <1>1, RequestMade
<1> QED
  BY <1>1, <1>3, <1>4, <1>5, <1>6, RequestFrame

\* A request that ends with an error, or goes on with what it has.
LEMMA GoStored ==
    ASSUME StoredInv, NEW c \in Clients, NEW stage, req' = Go(c, stage),
           UNCHANGED <<agent, mem, socket, client, file>>, req[c].stage # "none",
           stage = "err"
    PROVE  StoredInv'
<1>1. RequestInv(c)'
  BY GoEffect DEF RequestInv, InFlight, At
<1>2. AgentInv'
  BY DEF StoredInv, AgentInv
<1>3. client[c].pc \notin Before
  BY RequestMade
<1> QED
  BY <1>1, <1>2, <1>3, GoEffect, RequestFrame

\* What it merges has the shape of a configuration.
LEMMA ImportMergeStored ==
    ASSUME StoredInv, NEW c \in Clients, ImportMerge(c),
           DOMAIN exported.payload \subseteq TransferFields
    PROVE  StoredInv'
<1>1. req[c].stage = "merge" /\ UNCHANGED <<agent, mem, socket, client, file>>
  BY DEF ImportMerge, At, world
<1>2. CASE req' = Go(c, "err")
  BY <1>1, <1>2, GoStored
<1>3. CASE req' = [req EXCEPT ![c].stage = "begin",
                              ![c].config = merge_payload(req[c].base, exported.payload)]
  <2>1. DOMAIN req = Clients /\ IsRequest(req[c])
    BY DEF StoredInv, Shape
  <2>2. /\ DOMAIN req' = Clients /\ IsRequest(req'[c])
        /\ \A d \in Clients \ {c} : req'[d] = req[d]
        /\ req'[c].stage = "begin" /\ req'[c].exec = req[c].exec
        /\ req'[c].config = merge_payload(req[c].base, exported.payload)
    BY <1>3, <2>1 DEF IsRequest, RequestFields
  <2>3. IsConfig(req[c].base)
    BY <1>1 DEF StoredInv, RequestInv, At, Good
  <2>4. IsConfig(req'[c].config)
    BY <2>2, <2>3, MergeFields
  <2>5. RequestInv(c)'
    BY <1>1, <2>2, <2>4 DEF StoredInv, RequestInv, InFlight, At, Up
  <2>6. AgentInv'
    BY <1>1 DEF StoredInv, AgentInv
  <2>7. client[c].pc \notin Before
    BY <1>1, RequestMade
  <2> QED
    BY <1>1, <2>2, <2>5, <2>6, <2>7, RequestFrame
<1> QED
  BY <1>2, <1>3 DEF ImportMerge

\* What the beginning of a save does to its request.
LEMMA SaveBeginEffect ==
    ASSUME StoredInv, NEW c \in Clients, SaveBegin(c)
    PROVE  /\ DOMAIN req' = Clients /\ IsRequest(req'[c])
           /\ \A d \in Clients \ {c} : req'[d] = req[d]
           /\ req'[c].stage = "write" /\ req'[c].exec = req[c].exec /\ req'[c].base = req[c].base
           /\ req'[c].config = normalized(req[c].config)
<1>1. req' = [req EXCEPT ![c].stage = "write", ![c].config = normalized(@)]
  BY DEF SaveBegin
<1>2. DOMAIN req = Clients /\ IsRequest(req[c])
  BY DEF StoredInv, Shape
<1> QED
  BY <1>1, <1>2 DEF IsRequest, RequestFields

\* A save begins with a good configuration only: the checks come first.
LEMMA SaveBeginStored ==
    ASSUME StoredInv, NEW c \in Clients, SaveBegin(c)
    PROVE  StoredInv'
<1>1. /\ req[c].stage = "begin" /\ UNCHANGED <<agent, mem, socket, client>>
      /\ file' = Truncated /\ Saveable(req[c].config)
  BY DEF SaveBegin, At, world
<1>2. IsConfig(req[c].config)
  BY <1>1 DEF StoredInv, RequestInv, At
<1>3. Good(req'[c].config)
  BY <1>1, <1>2, SaveableGood, SaveBeginEffect
<1>4. RequestInv(c)'
  <2>1. req'[c].stage = "write" /\ req'[c].exec = req[c].exec
    BY SaveBeginEffect
  <2> QED
    BY <1>1, <1>3, <2>1 DEF StoredInv, RequestInv, InFlight, At, Up
<1>5. AgentInv'
  BY <1>1 DEF StoredInv, AgentInv, Truncated
<1>6. client[c].pc \notin Before
  BY <1>1, RequestMade
<1> QED
  BY <1>1, <1>4, <1>5, <1>6, SaveBeginEffect, RequestFrame

\* A save that is rejected stores nothing.
LEMMA SaveRejectedStored ==
    ASSUME StoredInv, NEW c \in Clients, SaveRejected(c)
    PROVE  StoredInv'
  BY GoStored DEF SaveRejected, At, world

\* Neither does one that fails.
LEMMA SaveFailsStored ==
    ASSUME StoredInv, NEW c \in Clients, SaveFails(c)
    PROVE  StoredInv'
  BY GoStored DEF SaveFails, At, world

\* What is written is the checked configuration, or unreadable.
LEMMA SaveWriteStored ==
    ASSUME StoredInv, NEW c \in Clients, SaveWrite(c)
    PROVE  StoredInv'
<1>1. /\ req[c].stage = "write" /\ UNCHANGED <<agent, mem, socket, client>>
      /\ file' \in Written(req[c].config) /\ req' = Go(c, "apply")
  BY DEF SaveWrite, At, world
<1>2. Good(req[c].config)
  BY <1>1 DEF StoredInv, RequestInv
<1>3. /\ req'[c].stage = "apply" /\ req'[c].exec = req[c].exec
      /\ req'[c].config = req[c].config
  BY <1>1, GoEffect
<1>4. RequestInv(c)'
  BY <1>1, <1>2, <1>3 DEF StoredInv, RequestInv, InFlight, At, Up
<1>5. AgentInv'
  BY <1>1, <1>2 DEF StoredInv, AgentInv, Written, Whole
<1>6. client[c].pc \notin Before
  BY <1>1, RequestMade
<1> QED
  BY <1>1, <1>4, <1>5, <1>6, GoEffect, RequestFrame

\* What is put into memory is the checked configuration.
LEMMA SaveApplyStored ==
    ASSUME StoredInv, NEW c \in Clients, SaveApply(c)
    PROVE  StoredInv'
<1>1. /\ req[c].stage = "apply" /\ UNCHANGED <<agent, file, socket, client>>
      /\ mem' = [mem EXCEPT ![req[c].exec] = req[c].config] /\ req' = Go(c, "ok")
  BY DEF SaveApply, At, world
<1> DEFINE e == req[c].exec
<1>2. Good(req[c].config) /\ e \in Agents \cup {c}
  BY <1>1 DEF StoredInv, RequestInv, InFlight
<1>3. /\ DOMAIN req' = Clients /\ IsRequest(req'[c])
      /\ \A d \in Clients \ {c} : req'[d] = req[d]
      /\ req'[c].stage = "ok" /\ req'[c].exec = e
      /\ req'[c].config = req[c].config
  BY <1>1, GoEffect
<1>4. DOMAIN mem' = Procs /\ e \in Procs /\ mem'[e] = req[c].config
      /\ \A p \in Procs \ {e} : mem'[p] = mem[p]
  BY <1>1, <1>2 DEF StoredInv, Shape, Procs
<1>5. \A p \in Procs : Good(mem[p]) => Good(mem'[p])
  BY <1>2, <1>4
<1> HIDE DEF e
<1>6. Shape'
  BY <1>1, <1>3, <1>4 DEF StoredInv, Shape, IsClient, IsRequest, IsAgent
<1>7. AgentInv'
  BY <1>1, <1>2, <1>4, <1>5 DEF StoredInv, AgentInv, Procs
<1>8. ASSUME NEW d \in Clients
      PROVE  ClientInv(d)'
  <2>1. client[d].pc \in Before => req'[d] = req[d]
    BY <1>1, <1>3, RequestMade
  <2>2. d \in Procs
    BY DEF Procs
  <2> QED
    BY <1>1, <1>5, <2>1, <2>2 DEF StoredInv, ClientInv, Busy, InProcess, Up
<1>9. ASSUME NEW d \in Clients
      PROVE  RequestInv(d)'
  <2>1. CASE d = c
    BY <1>2, <1>3, <2>1 DEF RequestInv, InFlight, At
  <2>2. CASE d # c
    <3>1. InFlight(d) => req[d].exec \in Procs
      BY DEF StoredInv, RequestInv, Procs
    <3> QED
      BY <1>1, <1>3, <1>5, <2>2, <3>1 DEF StoredInv, RequestInv, InFlight, At, Up
  <2> QED
    BY <2>1, <2>2
<1> QED
  BY <1>6, <1>7, <1>8, <1>9 DEF StoredInv

\* The agents' own steps that change the memory of one of them.
LEMMA AgentFrame ==
    ASSUME StoredInv, NEW a \in Agents, UNCHANGED <<file, client, req>>,
           DOMAIN agent' = Agents, IsAgent(agent'[a]),
           \A b \in Agents \ {a} : agent'[b] = agent[b],
           DOMAIN mem' = Procs, \A p \in Procs \ {a} : mem'[p] = mem[p],
           agent[a].phase # "up", socket' \in Agents \cup {None},
           mem'[a] = None \/ Good(mem'[a]),
           agent'[a].phase # "down" => Good(mem'[a])
    PROVE  StoredInv'
<1>1. Shape'
  BY DEF StoredInv, Shape, IsClient, IsRequest, IsAgent
<1>2. AgentInv'
  BY DEF StoredInv, AgentInv, Procs
<1>3. ASSUME NEW d \in Clients
      PROVE  ClientInv(d)'
  <2>1. mem'[d] = mem[d]
    BY Constants DEF Procs
  <2>2. (client[d].pc # "idle" /\ InProcess(d)) => client[d].inv.agent \in Agents
    BY Constants DEF StoredInv, ClientInv, InProcess
  <2> QED
    BY <2>1, <2>2 DEF StoredInv, ClientInv, Busy, InProcess, Up
<1>4. ASSUME NEW d \in Clients
      PROVE  RequestInv(d)'
  <2>1. InFlight(d) => req[d].exec # a /\ req[d].exec \in Procs
    BY DEF StoredInv, RequestInv, Procs, Up
  <2> QED
    BY <2>1 DEF StoredInv, RequestInv, InFlight, At, Up
<1> QED
  BY <1>1, <1>2, <1>3, <1>4 DEF StoredInv

\* An agent loads a good configuration.
LEMMA AgentLoadStored ==
    ASSUME StoredInv, NEW a \in Agents, AgentLoad(a)
    PROVE  StoredInv'
<1>1. /\ DOMAIN agent = Agents /\ IsAgent(agent[a]) /\ DOMAIN mem = Procs
      /\ socket \in Agents \cup {None} /\ a \in Procs
  BY DEF StoredInv, Shape, Procs
<1>2. /\ agent[a].phase = "down" /\ Loadable /\ UNCHANGED <<file, client, req, socket>>
      /\ mem' = [mem EXCEPT ![a] = Load]
      /\ agent' = [agent EXCEPT ![a].phase = "loaded"]
  BY DEF AgentLoad
<1>3. Good(Load)
  BY <1>2, LoadGood DEF StoredInv
<1>4. /\ DOMAIN agent' = Agents /\ IsAgent(agent'[a])
      /\ \A b \in Agents \ {a} : agent'[b] = agent[b]
  BY <1>1, <1>2 DEF IsAgent, AgentFields
<1>5. /\ DOMAIN mem' = Procs /\ \A p \in Procs \ {a} : mem'[p] = mem[p]
      /\ mem'[a] = Load
  BY <1>1, <1>2
<1> QED
  BY <1>1, <1>2, <1>3, <1>4, <1>5, AgentFrame

\* Starting keeps it.
LEMMA AgentStartStored ==
    ASSUME StoredInv, NEW a \in Agents, AgentStart(a)
    PROVE  StoredInv'
<1>1. DOMAIN agent = Agents /\ DOMAIN mem = Procs /\ a \in Procs
  BY DEF StoredInv, Shape, Procs
<1>2. /\ agent[a].phase = "loaded" /\ UNCHANGED <<file, client, req, mem>> /\ socket' = a
      /\ agent' = [agent EXCEPT ![a] = [phase |-> "up", listen |-> mem[a].port]]
  BY DEF AgentStart
<1>3. Good(mem[a])
  BY <1>2 DEF StoredInv, AgentInv
<1>4. /\ DOMAIN agent' = Agents /\ IsAgent(agent'[a])
      /\ \A b \in Agents \ {a} : agent'[b] = agent[b]
  BY <1>1, <1>2 DEF IsAgent, AgentFields
<1> QED
  BY <1>1, <1>2, <1>3, <1>4, AgentFrame

\* An agent whose port is taken drops it.
LEMMA AgentRefusedStored ==
    ASSUME StoredInv, NEW a \in Agents, AgentRefused(a)
    PROVE  StoredInv'
<1>1. /\ DOMAIN agent = Agents /\ IsAgent(agent[a]) /\ DOMAIN mem = Procs
      /\ socket \in Agents \cup {None} /\ a \in Procs
  BY DEF StoredInv, Shape, Procs
<1>2. /\ agent[a].phase = "loaded" /\ UNCHANGED <<file, client, req, socket>>
      /\ mem' = [mem EXCEPT ![a] = None]
      /\ agent' = [agent EXCEPT ![a].phase = "down"]
  BY DEF AgentRefused
<1>4. /\ DOMAIN agent' = Agents /\ IsAgent(agent'[a]) /\ agent'[a].phase = "down"
      /\ \A b \in Agents \ {a} : agent'[b] = agent[b]
  BY <1>1, <1>2 DEF IsAgent, AgentFields
<1>5. /\ DOMAIN mem' = Procs /\ \A p \in Procs \ {a} : mem'[p] = mem[p]
      /\ mem'[a] = None
  BY <1>1, <1>2
<1> QED
  BY <1>1, <1>2, <1>4, <1>5, AgentFrame

\* What the end of a process does to the requests, and to the clients.
LEMMA GoneEffect ==
    ASSUME StoredInv, NEW p \in Procs, Gone(p)
    PROVE  /\ DOMAIN mem' = Procs /\ mem'[p] = None
           /\ \A q \in Procs \ {p} : mem'[q] = mem[q]
           /\ DOMAIN req' = Clients /\ DOMAIN client' = Clients
           /\ \A c \in Clients :
                /\ IsRequest(req'[c]) /\ IsClient(client'[c])
                /\ (req[c].exec = p /\ InFlight(c)) => req'[c].stage = "dead"
                /\ ~(req[c].exec = p /\ InFlight(c)) => req'[c] = req[c]
                /\ (RunsIn(c, p) \/ (c = p /\ client[c].pc # "idle")) =>
                     /\ client'[c].pc = "done" /\ client'[c].inv = client[c].inv
                     /\ client'[c].result = "err" /\ client'[c].seen = client[c].seen
                /\ ~(RunsIn(c, p) \/ (c = p /\ client[c].pc # "idle")) => client'[c] = client[c]
<1>1. /\ DOMAIN mem = Procs
      /\ DOMAIN client = Clients /\ \A c \in Clients : IsClient(client[c])
      /\ DOMAIN req = Clients /\ \A c \in Clients : IsRequest(req[c])
  BY DEF StoredInv, Shape
<1>2. /\ DOMAIN mem' = Procs /\ mem'[p] = None
      /\ \A q \in Procs \ {p} : mem'[q] = mem[q]
  BY <1>1 DEF Gone
<1>3. DOMAIN req' = Clients /\ DOMAIN client' = Clients
  BY DEF Gone
<1>4. ASSUME NEW c \in Clients
      PROVE  /\ IsRequest(req'[c])
             /\ (req[c].exec = p /\ InFlight(c)) => req'[c].stage = "dead"
             /\ ~(req[c].exec = p /\ InFlight(c)) => req'[c] = req[c]
  <2>1. req'[c] = IF req[c].exec = p /\ InFlight(c) THEN [req[c] EXCEPT !.stage = "dead"]
                  ELSE req[c]
    BY DEF Gone
  <2> QED
    BY <1>1, <2>1 DEF IsRequest, RequestFields
<1>5. ASSUME NEW c \in Clients
      PROVE  /\ IsClient(client'[c])
             /\ (RunsIn(c, p) \/ (c = p /\ client[c].pc # "idle")) =>
                  /\ client'[c].pc = "done" /\ client'[c].inv = client[c].inv
                  /\ client'[c].result = "err" /\ client'[c].seen = client[c].seen
             /\ ~(RunsIn(c, p) \/ (c = p /\ client[c].pc # "idle")) => client'[c] = client[c]
  <2>1. client'[c] = IF RunsIn(c, p) \/ (c = p /\ client[c].pc # "idle")
                     THEN Finish(c, "err") ELSE client[c]
    BY DEF Gone
  <2> QED
    BY <1>1, <2>1 DEF Finish, IsClient, ClientFields
<1> QED
  BY <1>2, <1>3, <1>4, <1>5

\* The end of a process leaves nothing under way in it.
LEMMA GoneStored ==
    ASSUME StoredInv, NEW p \in Procs, Gone(p), UNCHANGED file,
           socket' \in Agents \cup {None},
           DOMAIN agent' = Agents, \A a \in Agents : IsAgent(agent'[a]),
           \A a \in Agents \ {p} : agent'[a] = agent[a],
           p \in Agents => agent'[p].phase = "down"
    PROVE  StoredInv'
<1>1. Shape'
  BY GoneEffect DEF Shape, IsClient, IsRequest, IsAgent
<1>2. AgentInv'
  <2>1. /\ mem'[p] = None /\ \A q \in Procs \ {p} : mem'[q] = mem[q]
    BY GoneEffect
  <2> QED
    BY <2>1 DEF StoredInv, AgentInv, Procs
<1>3. ASSUME NEW d \in Clients
      PROVE  ClientInv(d)'
  <2>1. CASE RunsIn(d, p) \/ (d = p /\ client[d].pc # "idle")
    <3>1. client[d].pc # "idle"
      BY <2>1 DEF RunsIn
    <3>2. client'[d].pc = "done" /\ client'[d].inv = client[d].inv
      BY <2>1, GoneEffect
    <3>3. client[d].inv \in Invocations[d]
      BY <3>1 DEF StoredInv, ClientInv
    <3> QED
      BY <3>2, <3>3 DEF ClientInv, Busy, Before
  <2>2. CASE ~(RunsIn(d, p) \/ (d = p /\ client[d].pc # "idle"))
    <3>1. client'[d] = client[d]
      BY <2>2, GoneEffect
    <3>2. ClientInv(d)
      BY DEF StoredInv
    <3>3. client[d].pc \in Before => req'[d] = req[d]
      <4>1. client[d].pc \in Before => ~InFlight(d)
        BY <3>2 DEF ClientInv, InFlight, NoRequest
      <4> QED
        BY <4>1, GoneEffect
    <3>4. (Busy(d) /\ InProcess(d)) => client[d].inv.agent \in Agents \ {p}
      BY <2>2, <3>2, Constants DEF ClientInv, RunsIn, Busy, InProcess
    <3>5. (Busy(d) /\ ~InProcess(d)) => mem'[d] = mem[d]
      <4>1. Busy(d) => d # p
        BY <2>2 DEF Busy
      <4> QED
        BY <4>1, GoneEffect DEF Procs
    <3> QED
      BY <3>1, <3>2, <3>3, <3>4, <3>5 DEF ClientInv, Busy, InProcess, Up
  <2> QED
    BY <2>1, <2>2
<1>4. ASSUME NEW d \in Clients
      PROVE  RequestInv(d)'
  <2>1. CASE req[d].exec = p /\ InFlight(d)
    <3>1. req'[d].stage = "dead"
      BY <2>1, GoneEffect
    <3> QED
      BY <3>1 DEF RequestInv, InFlight, At
  <2>2. CASE ~(req[d].exec = p /\ InFlight(d))
    <3>1. req'[d] = req[d]
      BY <2>2, GoneEffect
    <3>2. RequestInv(d)
      BY DEF StoredInv
    <3>3. InFlight(d) => mem'[req[d].exec] = mem[req[d].exec]
      <4>1. InFlight(d) => req[d].exec \in Procs \ {p}
        BY <2>2, <3>2 DEF RequestInv, Procs
      <4> QED
        BY <4>1, GoneEffect
    <3> QED
      BY <2>2, <3>1, <3>2, <3>3 DEF RequestInv, InFlight, At, Up
  <2> QED
    BY <2>1, <2>2
<1> QED
  BY <1>1, <1>2, <1>3, <1>4 DEF StoredInv

\* Nothing runs in an agent that was stopped or killed.
LEMMA AgentEndsStored ==
    ASSUME StoredInv, NEW a \in Agents, AgentKilled(a) \/ AgentStop(a)
    PROVE  StoredInv'
<1>1. /\ DOMAIN agent = Agents /\ \A b \in Agents : IsAgent(agent[b])
      /\ socket \in Agents \cup {None} /\ a \in Procs
  BY DEF StoredInv, Shape, Procs
<1>2. /\ agent' = [agent EXCEPT ![a] = [phase |-> "down", listen |-> None]]
      /\ Gone(a) /\ UNCHANGED file /\ socket' \in {socket, None}
  BY DEF AgentKilled, AgentStop
<1>3. /\ DOMAIN agent' = Agents /\ agent'[a].phase = "down"
      /\ \A b \in Agents \ {a} : agent'[b] = agent[b]
      /\ \A b \in Agents : IsAgent(agent'[b])
  BY <1>1, <1>2 DEF IsAgent, AgentFields
<1> QED
  BY <1>1, <1>2, <1>3, GoneStored

\* Nor in a command line that was stopped.
LEMMA ClientKilledStored ==
    ASSUME StoredInv, NEW c \in Clients, ClientKilled(c)
    PROVE  StoredInv'
<1>1. /\ DOMAIN agent = Agents /\ \A b \in Agents : IsAgent(agent[b])
      /\ socket \in Agents \cup {None} /\ c \in Procs /\ c \notin Agents
  BY Constants DEF StoredInv, Shape, Procs
<1>2. Gone(c) /\ UNCHANGED <<file, agent, socket>>
  BY DEF ClientKilled, world
<1> QED
  BY <1>1, <1>2, GoneStored

-----------------------------------------------------------------------------

\* The export file carries fields of the transfer format only, whoever wrote it.
ExportInv == exported.hash \in Nat /\ DOMAIN exported.payload \subseteq TransferFields

\* Export is the only step that writes it.
LEMMA ExportUnchanged ==
    ASSUME [Next]_vars, ~\E c \in Clients : Export(c)
    PROVE  UNCHANGED exported
<1>1. ASSUME NEW a \in Agents,
             AgentLoad(a) \/ AgentStart(a) \/ AgentRefused(a) \/ AgentKilled(a) \/ AgentStop(a)
      PROVE  UNCHANGED exported
  BY <1>1 DEF AgentLoad, AgentStart, AgentRefused, AgentKilled, AgentStop
<1>2. ASSUME NEW c \in Clients, ClientStep(c), ~Export(c)
      PROVE  UNCHANGED exported
  <2>1. CASE Refused(c) \/ SetOs(c) \/ GuiRollback(c) \/ Confirm(c) \/ Query(c)
    BY <2>1 DEF Refused, SetOs, GuiRollback, Confirm, Query, world
  <2>2. CASE Get(c) \/ Submit(c) \/ Reply(c)
    BY <2>2 DEF Get, Submit, Reply, world
  <2>3. CASE GuiApply(c) \/ Preview(c)
    BY <2>3 DEF GuiApply, Preview, world
  <2> QED
    BY <1>2, <2>1, <2>2, <2>3 DEF ClientStep
<1>3. ASSUME NEW c \in Clients, Execute(c)
      PROVE  UNCHANGED exported
  BY <1>3 DEF Execute, ImportRead, ImportMerge, SaveBegin, SaveRejected, SaveWrite, SaveApply, world
<1>4. ASSUME NEW c \in Clients,
             Start(c) \/ TimesOut(c) \/ OsFails(c) \/ ClientKilled(c) \/ SaveFails(c)
      PROVE  UNCHANGED exported
  BY <1>4 DEF Start, TimesOut, OsFails, ClientKilled, SaveFails, world
<1>5. CASE UNCHANGED vars
  BY <1>5 DEF vars
<1> QED
  BY <1>1, <1>2, <1>3, <1>4, <1>5 DEF Next

\* ExportInv is inductive.
LEMMA ExportStep ==
    ASSUME StoredInv, ExportInv, [Next]_vars
    PROVE  ExportInv'
<1>1. ASSUME NEW c \in Clients, Export(c)
      PROVE  ExportInv'
  <2>1. PICK e : exported' = encrypt_payload(
            build_transfer_payload(mem[e], export_options(client[c].inv.only)),
            client[c].inv.password, exported.hash + 1)
    BY <1>1 DEF Export
  <2>2. client[c].inv.only \subseteq TransferFields
    BY <1>1, ManagementAssumption DEF Export, StoredInv, ClientInv
  <2>3. export_options(client[c].inv.only) \subseteq TransferFields
    BY <2>2 DEF export_options
  <2> DEFINE h == exported.hash + 1
  <2>4. h \in Nat
    BY DEF ExportInv
  <2> HIDE DEF h
  <2>5. /\ exported'.hash = h
        /\ DOMAIN exported'.payload = export_options(client[c].inv.only)
    BY <2>1 DEF encrypt_payload, build_transfer_payload, h
  <2> QED
    BY <2>3, <2>4, <2>5 DEF ExportInv
<1>2. CASE UNCHANGED exported
  BY <1>2 DEF ExportInv
<1> QED
  BY <1>1, <1>2, ExportUnchanged

\* StoredInv is inductive.
LEMMA StoredStep ==
    ASSUME StoredInv, ExportInv, [Next]_vars
    PROVE  StoredInv'
<1>1. ASSUME NEW a \in Agents,
             AgentLoad(a) \/ AgentStart(a) \/ AgentRefused(a) \/ AgentKilled(a) \/ AgentStop(a)
      PROVE  StoredInv'
  BY <1>1, AgentLoadStored, AgentStartStored, AgentRefusedStored, AgentEndsStored
<1>2. ASSUME NEW c \in Clients, ClientStep(c)
      PROVE  StoredInv'
  BY <1>2, RefusedStored, SetOsStored, GetStored, GuiApplyStored, GuiRollbackStored, ExportStored,
     PreviewStored, ConfirmStored, QueryStored, SubmitStored, ReplyStored DEF ClientStep
<1>3. ASSUME NEW c \in Clients, Execute(c)
      PROVE  StoredInv'
  BY <1>3, ImportReadStored, ImportMergeStored, SaveBeginStored, SaveRejectedStored,
     SaveWriteStored, SaveApplyStored DEF Execute, ExportInv
<1>4. ASSUME NEW c \in Clients,
             Start(c) \/ TimesOut(c) \/ OsFails(c) \/ ClientKilled(c) \/ SaveFails(c)
      PROVE  StoredInv'
  BY <1>4, StartStored, TimesOutStored, OsFailsStored, ClientKilledStored, SaveFailsStored
<1>5. CASE UNCHANGED vars
  BY <1>5 DEF vars, StoredInv, Shape, AgentInv, ClientInv, RequestInv, IsAgent, IsClient, IsRequest,
              Busy, InProcess, InFlight, At, Up
<1> QED
  BY <1>1, <1>2, <1>3, <1>4, <1>5 DEF Next

\* Both hold at first.
LEMMA StoredInit == Init => StoredInv /\ ExportInv
<1> SUFFICES ASSUME Init
             PROVE  StoredInv /\ ExportInv
  OBVIOUS
<1>1. Shape
  <2>1. ASSUME NEW a \in Agents
        PROVE  IsAgent(agent[a])
    BY DEF Init, IsAgent, AgentFields
  <2>2. ASSUME NEW c \in Clients
        PROVE  IsClient(client[c])
    <3>1. client[c] = NoCommand
      BY DEF Init
    <3>2. DOMAIN NoCommand = ClientFields
      BY DEF NoCommand, ClientFields
    <3>3. NoCommand \in [ClientFields -> {NoCommand[f] : f \in ClientFields}]
      BY <3>2 DEF NoCommand
    <3> QED
      BY <3>1, <3>3 DEF IsClient
  <2>3. ASSUME NEW c \in Clients
        PROVE  IsRequest(req[c])
    BY DEF Init, IsRequest, RequestFields, NoRequest
  <2> QED
    BY <2>1, <2>2, <2>3 DEF Init, Shape
<1>2. AgentInv
  BY DEF Init, AgentInv
<1>3. ASSUME NEW c \in Clients
      PROVE  ClientInv(c) /\ RequestInv(c)
  BY DEF Init, ClientInv, RequestInv, NoCommand, NoRequest, Busy, Before, InFlight, At
<1>4. ExportInv
  BY ManagementAssumption DEF Init, ExportInv
<1> QED
  BY <1>1, <1>2, <1>3, <1>4 DEF StoredInv

\* No process and no readable file ever has a configuration that no command may
\* store: whichever way it came, save_config checked and normalized it.
THEOREM OnlySoundIsStored == ManagementSpec => []StoredSound
<1>1. StoredInv /\ ExportInv /\ [Next]_vars => StoredInv' /\ ExportInv'
  BY StoredStep, ExportStep
<1>2. StoredInv => StoredSound
  BY DEF StoredInv, AgentInv, StoredSound, Good
<1> QED
  BY StoredInit, <1>1, <1>2, PTL DEF ManagementSpec

-----------------------------------------------------------------------------
(* The save that began last. *)

\* While the client whose save began last writes, nobody else does, so the file
\* is what it made of it, and the process that ran the save has it or nothing.
AckOf(c) ==
    latest = c =>
        /\ \A d \in Clients \ {c} : req[d].stage \notin {"write", "apply"}
        /\ At(c, "write") => file.kind = "empty"
        /\ req[c].stage \in {"apply", "ok"} => file = Whole(req[c].config)
        /\ At(c, "ok") => mem[req[c].exec] \in {None, req[c].config}

AckInv == \A c \in Clients : AckOf(c)

\* Steps that touch neither the file, the memories nor the requests.
LEMMA AckFrame ==
    ASSUME AckInv, UNCHANGED <<file, mem, req, latest>>
    PROVE  AckInv'
  BY DEF AckInv, AckOf, At

\* Steps that change requests, but not to or from a save that wrote the file.
LEMMA AckRequest ==
    ASSUME AckInv, UNCHANGED <<file, mem, latest>>,
           \A d \in Clients : \/ req'[d] = req[d]
                              \/ req'[d].stage \notin {"write", "apply", "ok"}
    PROVE  AckInv'
<1>1. ASSUME NEW c \in Clients, latest = c
      PROVE  AckOf(c)'
  <2>1. AckOf(c)
    BY DEF AckInv
  <2>2. \A d \in Clients \ {c} : req'[d].stage \notin {"write", "apply"}
    BY <1>1, <2>1 DEF AckOf
  <2>3. CASE req'[c] = req[c]
    BY <1>1, <2>1, <2>2, <2>3 DEF AckOf, At
  <2>4. CASE req'[c].stage \notin {"write", "apply", "ok"}
    BY <2>2, <2>4 DEF AckOf, At
  <2> QED
    BY <2>3, <2>4
<1> QED
  BY <1>1 DEF AckInv, AckOf

\* Steps that change memories, but only to nothing or to what the file says.
LEMMA AckMemory ==
    ASSUME StoredInv, AckInv, UNCHANGED <<file, req, latest>>, DOMAIN mem' = Procs,
           \A p \in Procs : \/ mem'[p] \in {None, mem[p]}
                            \/ Loadable /\ mem'[p] = Load
    PROVE  AckInv'
<1>1. ASSUME NEW c \in Clients, latest = c
      PROVE  AckOf(c)'
  <2>1. AckOf(c) /\ RequestInv(c)
    BY DEF AckInv, StoredInv
  <2>2. At(c, "ok") => mem'[req[c].exec] \in {None, req[c].config}
    <3>1. ASSUME At(c, "ok")
          PROVE  /\ req[c].exec \in Procs /\ file = Whole(req[c].config)
                 /\ mem[req[c].exec] \in {None, req[c].config}
      BY <1>1, <2>1, <3>1 DEF AckOf, RequestInv, At, Procs
    <3>2. ASSUME At(c, "ok")
          PROVE  Load = req[c].config
      BY <3>1, <3>2, LoadGood DEF StoredInv, Whole, Loadable
    <3> QED
      BY <3>1, <3>2
  <2> QED
    BY <1>1, <2>1, <2>2 DEF AckOf, At
<1> QED
  BY <1>1 DEF AckInv, AckOf

\* A save that begins beside no other becomes the latest.
LEMMA SaveBeginAck ==
    ASSUME StoredInv, AckInv, NEW c \in Clients, SaveBegin(c)
    PROVE  AckInv'
<1>1. /\ file' = Truncated /\ UNCHANGED mem
      /\ latest' = IF \E d \in Clients \ {c} : req[d].stage \in {"write", "apply"}
                   THEN None ELSE c
  BY DEF SaveBegin
<1>2. req'[c].stage = "write" /\ \A d \in Clients \ {c} : req'[d] = req[d]
  BY SaveBeginEffect
<1>3. ASSUME NEW d \in Clients, latest' = d
      PROVE  AckOf(d)'
  <2>1. d = c /\ \A x \in Clients \ {c} : req[x].stage \notin {"write", "apply"}
    BY <1>1, <1>3, Constants DEF Procs
  <2> QED
    BY <1>1, <1>2, <2>1 DEF AckOf, At, Truncated
<1> QED
  BY <1>3 DEF AckInv, AckOf

\* Written into an empty file, its configuration is whole.
LEMMA SaveWriteAck ==
    ASSUME StoredInv, AckInv, NEW c \in Clients, SaveWrite(c)
    PROVE  AckInv'
<1>1. /\ At(c, "write") /\ UNCHANGED <<mem, latest>>
      /\ file' \in Written(req[c].config) /\ req' = Go(c, "apply")
  BY DEF SaveWrite
<1>2. /\ req'[c].stage = "apply" /\ req'[c].config = req[c].config
      /\ \A d \in Clients \ {c} : req'[d] = req[d]
  BY <1>1, GoEffect
<1>3. ASSUME NEW d \in Clients, latest = d
      PROVE  AckOf(d)'
  <2>1. AckOf(d)
    BY DEF AckInv
  <2>2. d = c
    BY <1>1, <1>3, <2>1 DEF AckOf, At
  <2>3. file' = Whole(req[c].config)
    BY <1>1, <1>3, <2>1, <2>2 DEF AckOf, Written
  <2> QED
    BY <1>1, <1>2, <1>3, <2>1, <2>2, <2>3 DEF AckOf, At, Whole
<1> QED
  BY <1>1, <1>3 DEF AckInv, AckOf

\* Then it is in the memory of its process.
LEMMA SaveApplyAck ==
    ASSUME StoredInv, AckInv, NEW c \in Clients, SaveApply(c)
    PROVE  AckInv'
<1>1. /\ At(c, "apply") /\ UNCHANGED <<file, latest>>
      /\ mem' = [mem EXCEPT ![req[c].exec] = req[c].config] /\ req' = Go(c, "ok")
  BY DEF SaveApply, world
<1>2. /\ req'[c].stage = "ok" /\ req'[c].config = req[c].config /\ req'[c].exec = req[c].exec
      /\ \A d \in Clients \ {c} : req'[d] = req[d]
  BY <1>1, GoEffect
<1>3. req[c].exec \in Procs /\ DOMAIN mem = Procs
  BY <1>1 DEF StoredInv, Shape, RequestInv, InFlight, At, Procs
<1>4. mem'[req[c].exec] = req[c].config
  BY <1>1, <1>3
<1>5. ASSUME NEW d \in Clients, latest = d
      PROVE  AckOf(d)'
  <2>1. AckOf(d)
    BY DEF AckInv
  <2>2. d = c
    BY <1>1, <1>5, <2>1 DEF AckOf, At
  <2> QED
    BY <1>1, <1>2, <1>4, <1>5, <2>1, <2>2 DEF AckOf, At, Whole
<1> QED
  BY <1>1, <1>5 DEF AckInv, AckOf

\* A process that ends drops its memory, and no file.
LEMMA GoneAck ==
    ASSUME StoredInv, AckInv, NEW p \in Procs, Gone(p), UNCHANGED <<file, latest>>
    PROVE  AckInv'
<1>1. ASSUME NEW c \in Clients, latest = c
      PROVE  AckOf(c)'
  <2>1. AckOf(c) /\ RequestInv(c)
    BY DEF AckInv, StoredInv
  <2>2. \A d \in Clients : req'[d] = req[d] \/ req'[d].stage = "dead"
    BY GoneEffect
  <2>3. \A q \in Procs : mem'[q] \in {None, mem[q]}
    BY GoneEffect
  <2>4. At(c, "ok") => req[c].exec \in Procs
    BY <2>1 DEF RequestInv, Procs
  <2>5. CASE req'[c] = req[c]
    BY <1>1, <2>1, <2>2, <2>3, <2>4, <2>5 DEF AckOf, At
  <2>6. CASE req'[c].stage = "dead"
    BY <1>1, <2>1, <2>2, <2>6 DEF AckOf, At
  <2> QED
    BY <2>2, <2>5, <2>6
<1> QED
  BY <1>1 DEF AckInv, AckOf

\* AckInv is inductive.
LEMMA AckStep ==
    ASSUME StoredInv, AckInv, [Next]_vars
    PROVE  AckInv'
<1>1. ASSUME NEW a \in Agents, AgentLoad(a) \/ AgentStart(a) \/ AgentRefused(a)
      PROVE  AckInv'
  <2>1. DOMAIN mem = Procs /\ a \in Procs
    BY DEF StoredInv, Shape, Procs
  <2>2. CASE AgentLoad(a)
    <3>1. /\ Loadable /\ mem' = [mem EXCEPT ![a] = Load] /\ UNCHANGED <<file, req, latest>>
      BY <2>2 DEF AgentLoad
    <3>2. DOMAIN mem' = Procs /\ mem'[a] = Load /\ \A p \in Procs \ {a} : mem'[p] = mem[p]
      BY <2>1, <3>1
    <3> QED
      BY <3>1, <3>2, AckMemory
  <2>3. CASE AgentStart(a)
    BY <2>3, AckFrame DEF AgentStart
  <2>4. CASE AgentRefused(a)
    <3>1. /\ mem' = [mem EXCEPT ![a] = None] /\ UNCHANGED <<file, req, latest>>
      BY <2>4 DEF AgentRefused
    <3>2. DOMAIN mem' = Procs /\ mem'[a] = None /\ \A p \in Procs \ {a} : mem'[p] = mem[p]
      BY <2>1, <3>1
    <3> QED
      BY <3>1, <3>2, AckMemory
  <2> QED
    BY <1>1, <2>2, <2>3, <2>4
<1>2. ASSUME NEW a \in Agents, AgentKilled(a) \/ AgentStop(a)
      PROVE  AckInv'
  BY <1>2, GoneAck DEF AgentKilled, AgentStop, Procs
<1>3. ASSUME NEW c \in Clients, ClientKilled(c)
      PROVE  AckInv'
  BY <1>3, GoneAck DEF ClientKilled, Procs, world
<1>4. ASSUME NEW c \in Clients, Start(c)
      PROVE  AckInv'
  <2>1. UNCHANGED <<file, req, latest>>
    BY <1>4 DEF Start
  <2>2. UNCHANGED mem \/ (Loadable /\ mem' = [mem EXCEPT ![c] = Load])
    BY <1>4 DEF Start
  <2>3. DOMAIN mem = Procs /\ c \in Procs
    BY DEF StoredInv, Shape, Procs
  <2>4. /\ DOMAIN mem' = Procs
        /\ \A p \in Procs : mem'[p] = mem[p] \/ (Loadable /\ mem'[p] = Load)
    BY <2>2, <2>3
  <2> QED
    BY <2>1, <2>4, AckMemory
<1>5. ASSUME NEW c \in Clients, ClientStep(c), ~Submit(c)
      PROVE  AckInv'
  <2>1. CASE Refused(c) \/ SetOs(c) \/ GuiRollback(c) \/ Confirm(c) \/ Query(c) \/ Export(c)
    BY <2>1, AckFrame DEF Refused, SetOs, GuiRollback, Confirm, Query, Export
  <2>2. CASE Get(c) \/ Reply(c)
    BY <2>2, AckFrame DEF Get, Reply
  <2>3. CASE GuiApply(c) \/ Preview(c)
    BY <2>3, AckFrame DEF GuiApply, Preview
  <2> QED
    BY <1>5, <2>1, <2>2, <2>3 DEF ClientStep
<1>6. ASSUME NEW c \in Clients, Submit(c)
      PROVE  AckInv'
  <2>1. UNCHANGED <<file, mem, latest>>
    BY <1>6 DEF Submit
  <2>2. /\ \A d \in Clients \ {c} : req'[d] = req[d]
        /\ req'[c].stage \in {"begin", "read"}
    BY <1>6, SubmitEffect
  <2> QED
    BY <2>1, <2>2, AckRequest
<1>7. ASSUME NEW c \in Clients, ImportRead(c) \/ ImportMerge(c) \/ SaveRejected(c) \/ SaveFails(c)
      PROVE  AckInv'
  <2>1. UNCHANGED <<file, mem, latest>>
    BY <1>7 DEF ImportRead, ImportMerge, SaveRejected, SaveFails
  <2>2. DOMAIN req = Clients /\ IsRequest(req[c])
    BY DEF StoredInv, Shape
  <2>3. /\ \A d \in Clients \ {c} : req'[d] = req[d]
        /\ req'[c].stage \in {"merge", "begin", "err"}
    <3>1. CASE ImportRead(c)
      BY <3>1, <2>2 DEF ImportRead, IsRequest, RequestFields
    <3>2. CASE ImportMerge(c)
      BY <3>2, <2>2 DEF ImportMerge, Go, IsRequest, RequestFields
    <3>3. CASE SaveRejected(c) \/ SaveFails(c)
      BY <3>3, GoEffect DEF SaveRejected, SaveFails
    <3> QED
      BY <1>7, <3>1, <3>2, <3>3
  <2> QED
    BY <2>1, <2>3, AckRequest
<1>8. ASSUME NEW c \in Clients, SaveBegin(c) \/ SaveWrite(c) \/ SaveApply(c)
      PROVE  AckInv'
  BY <1>8, SaveBeginAck, SaveWriteAck, SaveApplyAck
<1>9. ASSUME NEW c \in Clients, TimesOut(c) \/ OsFails(c)
      PROVE  AckInv'
  BY <1>9, AckFrame DEF TimesOut, OsFails
<1>10. CASE UNCHANGED vars
  BY <1>10, AckFrame DEF vars
<1> QED
  BY <1>1, <1>2, <1>3, <1>4, <1>5, <1>6, <1>7, <1>8, <1>9, <1>10 DEF Next, Execute

\* A save that was reported as done, and that no other overlapped or followed, is in
\* the file, and in the memory of the process that ran it as long as that runs.
THEOREM AcknowledgedIsKept == ManagementSpec => []AckedIsKept
<1>1. Init => AckInv
  BY Constants DEF Init, AckInv, AckOf, Procs
<1>2. StoredInv /\ ExportInv /\ AckInv /\ [Next]_vars => StoredInv' /\ ExportInv' /\ AckInv'
  BY StoredStep, ExportStep, AckStep
<1>3. AckInv => AckedIsKept
  BY DEF AckInv, AckOf, AckedIsKept, At
<1> QED
  BY StoredInit, <1>1, <1>2, <1>3, PTL DEF ManagementSpec

-----------------------------------------------------------------------------
(* What the user of an import was shown. *)

\* The user saw the preview of a file that is still there, or has been replaced.
Shown(c) ==
    LET seen == client[c].seen
    IN  /\ seen.file_hash \in Nat /\ seen.file_hash =< exported.hash
        /\ seen.file_hash = exported.hash => seen.payload = exported.payload
        /\ DOMAIN seen.payload \subseteq TransferFields
        /\ seen.items = preview_payload(DefaultConfig, seen.payload)

ImportOf(c) ==
    /\ client[c].pc \in {"confirm", "import"} => Shown(c)
    /\ client[c].pc \in {"os", "get", "gui", "export", "save", "query", "rollback"} =>
         client[c].inv.kind # "import"
    /\ (req[c].stage # "none" /\ client[c].inv.kind = "import") => Shown(c)
    /\ (req[c].stage \in {"begin", "write", "apply", "ok"} /\ client[c].inv.kind = "import") =>
         /\ Good(req[c].base)
         /\ req[c].config = merge_payload(req[c].base, client[c].seen.payload)

ImportInv == \A c \in Clients : ImportOf(c)

\* A client that stays where it is or ends, and a request that stays or is cut off.
LEMMA ImportKept ==
    ASSUME NEW c \in Clients, ImportOf(c), UNCHANGED exported,
           client'[c].inv = client[c].inv, client'[c].seen = client[c].seen,
           client'[c].pc \in {client[c].pc, "done"},
           \/ req'[c] = req[c]
           \/ req'[c].stage \in {"dead", "err"} /\ req[c].stage # "none"
    PROVE  ImportOf(c)'
<1>1. Shown(c) => Shown(c)'
  BY DEF Shown
<1>2. CASE req'[c] = req[c]
  BY <1>1, <1>2 DEF ImportOf
<1>3. CASE req'[c].stage \in {"dead", "err"} /\ req[c].stage # "none"
  BY <1>1, <1>3 DEF ImportOf
<1> QED
  BY <1>2, <1>3

\* A step of one client's program.
LEMMA ImportClient ==
    ASSUME ImportInv, NEW c \in Clients, UNCHANGED <<exported, req>>,
           \A d \in Clients \ {c} : client'[d] = client[d], ImportOf(c)'
    PROVE  ImportInv'
<1>1. ASSUME NEW d \in Clients \ {c}
      PROVE  ImportOf(d)'
  BY ImportKept DEF ImportInv
<1> QED
  BY <1>1 DEF ImportInv

\* A command that ends keeps what its user was shown.
LEMMA EndsImport ==
    ASSUME StoredInv, ImportInv, NEW c \in Clients, client[c].pc # "idle", NEW result,
           client' = [client EXCEPT ![c] = Finish(c, result)],
           UNCHANGED <<exported, req>>
    PROVE  ImportInv'
<1>1. /\ client'[c].pc = "done" /\ client'[c].inv = client[c].inv
      /\ client'[c].seen = client[c].seen
      /\ \A d \in Clients \ {c} : client'[d] = client[d]
  BY FinishInv
<1>2. ImportOf(c)'
  BY <1>1, ImportKept DEF ImportInv
<1> QED
  BY <1>1, <1>2, ImportClient

\* A command that starts has shown nothing yet.
LEMMA StartImport ==
    ASSUME StoredInv, ImportInv, NEW c \in Clients, Start(c)
    PROVE  ImportInv'
<1>1. client[c].pc = "idle" /\ UNCHANGED <<exported, req>>
  BY DEF Start, world
<1>2. DOMAIN client = Clients /\ IsClient(client[c])
  BY DEF StoredInv, Shape
<1>3. PICK inv \in Invocations[c] :
        /\ client'[c].inv = inv /\ client'[c].pc \in {"done", FirstPc(inv)}
        /\ \A d \in Clients \ {c} : client'[d] = client[d]
  <2>1. PICK inv \in Invocations[c] :
        IF inv.kind \in {"gui", "tray"}
        THEN client' = [client EXCEPT ![c].inv = inv, ![c].pc = FirstPc(inv)]
        ELSE IF Loadable
        THEN client' = [client EXCEPT ![c] =
                    [@ EXCEPT !.inv = inv, !.pc = FirstPc(inv),
                              !.result = IF FirstPc(inv) = "done" THEN "err" ELSE "none"]]
        ELSE client' = [client EXCEPT ![c] =
                    [@ EXCEPT !.inv = inv, !.pc = "done", !.result = "err"]]
    BY DEF Start
  <2>2. /\ client'[c].inv = inv /\ client'[c].pc \in {"done", FirstPc(inv)}
        /\ \A d \in Clients \ {c} : client'[d] = client[d]
    <3>1. CASE inv.kind \in {"gui", "tray"}
      BY <1>2, <2>1, <3>1 DEF IsClient, ClientFields
    <3>2. CASE inv.kind \notin {"gui", "tray"} /\ Loadable
      BY <1>2, <2>1, <3>2 DEF IsClient, ClientFields
    <3>3. CASE inv.kind \notin {"gui", "tray"} /\ ~Loadable
      BY <1>2, <2>1, <3>3 DEF IsClient, ClientFields
    <3> QED
      BY <3>1, <3>2, <3>3
  <2> QED
    BY <2>2
<1>4. /\ FirstPc(inv) \in {"get", "os", "done", "preview", "query"}
      /\ FirstPc(inv) \in {"os", "get", "query"} => inv.kind # "import"
  BY DEF FirstPc
<1>5. req[c].stage = "none"
  BY <1>1 DEF StoredInv, ClientInv, Before, NoRequest
<1>6. ImportOf(c)'
  BY <1>1, <1>3, <1>4, <1>5 DEF ImportOf
<1> QED
  BY <1>1, <1>3, <1>6, ImportClient

\* A preview shows what the file it has read would change.
LEMMA PreviewImport ==
    ASSUME StoredInv, ExportInv, ImportInv, NEW c \in Clients, Preview(c)
    PROVE  ImportInv'
<1>1. client[c].pc = "preview" /\ UNCHANGED <<exported, req>>
  BY DEF Preview, world
<1>2. CASE client' = [client EXCEPT ![c] = Finish(c, "err")]
  BY <1>1, <1>2, EndsImport
<1>3. ASSUME NEW pc \in {"done", "confirm"}, NEW result, NEW e \in Executor(c, "PreviewConfigImport"),
             NEW seen, seen.file_hash = exported.hash, seen.payload = exported.payload,
             seen.items = preview_payload(mem[e], exported.payload),
             client' = [client EXCEPT ![c].pc = pc, ![c].result = result, ![c].seen = seen]
      PROVE  ImportInv'
  <2>1. client' = [client EXCEPT ![c].pc = pc, ![c].result = result, ![c].seen = seen]
    BY <1>3
  <2>2. /\ client'[c].inv = client[c].inv /\ client'[c].pc = pc /\ client'[c].seen = seen
        /\ \A d \in Clients \ {c} : client'[d] = client[d]
    <3>1. DOMAIN client = Clients /\ IsClient(client[c])
      BY DEF StoredInv, Shape
    <3> QED
      BY <2>1, <3>1 DEF IsClient, ClientFields
  <2>3. IsConfig(mem[e])
    BY <1>1, ExecutorRuns DEF Busy, Good
  <2>4. seen.items = preview_payload(DefaultConfig, seen.payload)
    BY <1>3, <2>3, PreviewSame DEF ExportInv
  <2>8. seen.file_hash = exported.hash /\ seen.payload = exported.payload
    BY <1>3
  <2>5. Shown(c)'
    BY <1>1, <2>2, <2>4, <2>8 DEF Shown, ExportInv
  <2>6. req[c].stage = "none"
    BY <1>1 DEF StoredInv, ClientInv, Before, NoRequest
  <2>7. ImportOf(c)'
    BY <1>1, <1>3, <2>2, <2>5, <2>6 DEF ImportOf
  <2> QED
    BY <1>1, <2>2, <2>7, ImportClient
<1>4. PICK e \in Executor(c, "PreviewConfigImport") : client' =
            IF Decrypts(exported, client[c].inv.password) /\ Mergeable(exported.payload)
            THEN [client EXCEPT ![c].pc = IF client[c].inv.preview THEN "done" ELSE "confirm",
                                ![c].result = IF client[c].inv.preview THEN "ok" ELSE "none",
                                ![c].seen =
                     [file_hash |-> exported.hash,
                      items |-> preview_payload(mem[e], exported.payload),
                      payload |-> exported.payload]]
            ELSE [client EXCEPT ![c] = Finish(c, "err")]
  BY DEF Preview
<1> DEFINE pc == IF client[c].inv.preview THEN "done" ELSE "confirm"
           res == IF client[c].inv.preview THEN "ok" ELSE "none"
<1>5. pc \in {"done", "confirm"}
  OBVIOUS
<1> HIDE DEF pc, res
<1>6. CASE ~(Decrypts(exported, client[c].inv.password) /\ Mergeable(exported.payload))
  BY <1>2, <1>4, <1>6
<1>7. CASE Decrypts(exported, client[c].inv.password) /\ Mergeable(exported.payload)
  <2> DEFINE seen == [file_hash |-> exported.hash,
                      items |-> preview_payload(mem[e], exported.payload),
                      payload |-> exported.payload]
  <2>1. client' = [client EXCEPT ![c].pc = pc, ![c].result = res, ![c].seen = seen]
    BY <1>4, <1>7, Zenon DEF pc, res
  <2>2. /\ seen.file_hash = exported.hash /\ seen.payload = exported.payload
        /\ seen.items = preview_payload(mem[e], exported.payload)
    OBVIOUS
  <2> HIDE DEF seen
  <2> QED
    BY <2>1, <2>2, <1>3, <1>5
<1> QED
  BY <1>6, <1>7

\* An export gives the file a new hash.
LEMMA ExportImport ==
    ASSUME StoredInv, ExportInv, ImportInv, NEW c \in Clients, Export(c)
    PROVE  ImportInv'
<1>1. /\ client[c].pc = "export" /\ UNCHANGED req
      /\ client' = [client EXCEPT ![c] = Finish(c, "ok")]
      /\ exported'.hash = exported.hash + 1
  BY DEF Export, encrypt_payload
<1>2. /\ client'[c].pc = "done" /\ client'[c].inv = client[c].inv
      /\ client'[c].seen = client[c].seen
      /\ \A d \in Clients \ {c} : client'[d] = client[d]
  BY <1>1, FinishInv
<1>3. ASSUME NEW d \in Clients
      PROVE  ImportOf(d)'
  <2>1. /\ client'[d].inv = client[d].inv /\ client'[d].seen = client[d].seen
        /\ client'[d].pc \in {client[d].pc, "done"}
    BY <1>2
  <2>2. Shown(d) => Shown(d)'
    BY <1>1, <2>1 DEF Shown, ExportInv
  <2>3. ImportOf(d)
    BY DEF ImportInv
  <2> QED
    BY <1>1, <2>1, <2>2, <2>3 DEF ImportOf
<1> QED
  BY <1>3 DEF ImportInv

\* A step that changes one request only.
LEMMA ImportRequest ==
    ASSUME ImportInv, NEW c \in Clients, UNCHANGED <<exported, client>>,
           \A d \in Clients \ {c} : req'[d] = req[d], ImportOf(c)'
    PROVE  ImportInv'
<1>1. ASSUME NEW d \in Clients \ {c}
      PROVE  ImportOf(d)'
  BY ImportKept DEF ImportInv
<1> QED
  BY <1>1 DEF ImportInv

\* An import is asked for after its preview.
LEMMA SubmitImport ==
    ASSUME StoredInv, ImportInv, NEW c \in Clients, Submit(c)
    PROVE  ImportInv'
<1>1. UNCHANGED exported
  BY DEF Submit, world
<1>2. /\ client[c].pc \in {"save", "import"} /\ \A d \in Clients \ {c} : req'[d] = req[d]
      /\ req'[c].stage = IF client[c].pc = "save" THEN "begin" ELSE "read"
      /\ \A d \in Clients \ {c} : client'[d] = client[d]
      /\ client'[c].inv = client[c].inv /\ client'[c].pc = "wait"
      /\ client'[c].seen = client[c].seen
  BY SubmitEffect
<1>3. ASSUME NEW d \in Clients \ {c}
      PROVE  ImportOf(d)'
  BY <1>1, <1>2, ImportKept DEF ImportInv
<1>4. ImportOf(c)'
  <2>1. Shown(c) => Shown(c)'
    BY <1>1, <1>2 DEF Shown
  <2> QED
    BY <1>2, <2>1 DEF ImportInv, ImportOf
<1> QED
  BY <1>3, <1>4 DEF ImportInv

\* The import merges the previewed payload, and what it saves stays that.
LEMMA SavesImport ==
    ASSUME StoredInv, ImportInv, NEW c \in Clients,
           ImportRead(c) \/ ImportMerge(c) \/ SaveBegin(c) \/ SaveRejected(c) \/ SaveWrite(c)
             \/ SaveApply(c) \/ SaveFails(c)
    PROVE  ImportInv'
<1>1. UNCHANGED <<exported, client>> /\ req[c].stage # "none"
  BY DEF ImportRead, ImportMerge, SaveBegin, SaveRejected, SaveWrite, SaveApply, SaveFails, At, world
<1>2. DOMAIN req = Clients /\ IsRequest(req[c])
  BY DEF StoredInv, Shape
<1>3. Shown(c) => Shown(c)'
  BY <1>1 DEF Shown
<1>4. ImportOf(c)
  BY DEF ImportInv
<1>5. CASE ImportRead(c)
  <2>1. req'[c].stage = "merge" /\ \A d \in Clients \ {c} : req'[d] = req[d]
    BY <1>2, <1>5 DEF ImportRead, IsRequest, RequestFields
  <2>2. ImportOf(c)'
    BY <1>1, <1>3, <1>4, <2>1 DEF ImportOf
  <2> QED
    BY <1>1, <2>1, <2>2, ImportRequest
<1>6. CASE req' = Go(c, "err")
  <2>1. req'[c].stage = "err" /\ \A d \in Clients \ {c} : req'[d] = req[d]
    BY <1>6, GoEffect
  <2>2. ImportOf(c)'
    BY <1>1, <1>3, <1>4, <2>1 DEF ImportOf
  <2> QED
    BY <1>1, <2>1, <2>2, ImportRequest
<1>7. CASE ImportMerge(c) /\ req' # Go(c, "err")
  <2>1. /\ req' = [req EXCEPT ![c].stage = "begin",
                         ![c].config = merge_payload(req[c].base, exported.payload)]
        /\ exported.hash = client[c].seen.file_hash /\ req[c].stage = "merge"
    BY <1>7 DEF ImportMerge, At
  <2>2. /\ req'[c].stage = "begin" /\ \A d \in Clients \ {c} : req'[d] = req[d]
        /\ req'[c].config = merge_payload(req[c].base, exported.payload)
        /\ req'[c].base = req[c].base
    BY <1>2, <2>1 DEF IsRequest, RequestFields
  <2>3. Good(req[c].base)
    BY <2>1 DEF StoredInv, RequestInv, At
  <2>4. Shown(c) => client[c].seen.payload = exported.payload
    BY <2>1 DEF Shown
  <2>5. ImportOf(c)'
    BY <1>1, <1>3, <1>4, <2>2, <2>3, <2>4 DEF ImportOf
  <2> QED
    BY <1>1, <2>2, <2>5, ImportRequest
<1>8. CASE SaveBegin(c)
  <2>1. /\ req'[c].stage = "write" /\ \A d \in Clients \ {c} : req'[d] = req[d]
        /\ req'[c].config = normalized(req[c].config)
        /\ req'[c].base = req[c].base
    BY <1>8, SaveBeginEffect
  <2>2. req[c].stage = "begin"
    BY <1>8 DEF SaveBegin, At
  <2>3. client[c].inv.kind = "import" => normalized(req[c].config) = req[c].config
    <3>1. ASSUME client[c].inv.kind = "import"
          PROVE  /\ IsConfig(req[c].base) /\ DOMAIN client[c].seen.payload \subseteq TransferFields
                 /\ req[c].config = merge_payload(req[c].base, client[c].seen.payload)
      BY <1>4, <2>2, <3>1 DEF ImportOf, Shown, Good
    <3> QED
      BY <3>1, MergeFields
  <2>4. ImportOf(c)'
    BY <1>1, <1>3, <1>4, <2>1, <2>2, <2>3 DEF ImportOf
  <2> QED
    BY <1>1, <2>1, <2>4, ImportRequest
<1>9. CASE SaveWrite(c) \/ SaveApply(c)
  <2>1. PICK stage \in {"apply", "ok"} : req' = Go(c, stage) /\ req[c].stage \in {"write", "apply"}
    BY <1>9 DEF SaveWrite, SaveApply, At
  <2>2. /\ req'[c].stage = stage /\ \A d \in Clients \ {c} : req'[d] = req[d]
        /\ req'[c].config = req[c].config /\ req'[c].base = req[c].base
    BY <2>1, GoEffect
  <2>3. ImportOf(c)'
    BY <1>1, <1>3, <1>4, <2>1, <2>2 DEF ImportOf
  <2> QED
    BY <1>1, <2>2, <2>3, ImportRequest
<1> QED
  BY <1>5, <1>6, <1>7, <1>8, <1>9 DEF SaveRejected, SaveFails

\* The end of a process ends imports.
LEMMA GoneImport ==
    ASSUME StoredInv, ImportInv, NEW p \in Procs, Gone(p), UNCHANGED exported
    PROVE  ImportInv'
<1>1. ASSUME NEW c \in Clients
      PROVE  ImportOf(c)'
  <2>1. /\ client'[c].inv = client[c].inv /\ client'[c].seen = client[c].seen
        /\ client'[c].pc \in {client[c].pc, "done"}
    BY GoneEffect
  <2>2. \/ req'[c] = req[c]
        \/ req'[c].stage = "dead" /\ req[c].stage # "none"
    BY GoneEffect DEF InFlight
  <2> QED
    BY <2>1, <2>2, ImportKept DEF ImportInv
<1> QED
  BY <1>1 DEF ImportInv

\* The steps of a client's program.
LEMMA ClientImport ==
    ASSUME StoredInv, ExportInv, ImportInv, NEW c \in Clients, ClientStep(c)
    PROVE  ImportInv'
<1>1. ASSUME Refused(c) PROVE ImportInv'
  <2>1. client[c].pc # "idle"
    BY <1>1 DEF Refused, CommandOf
  <2> QED
    BY <1>1, <2>1, EndsImport DEF Refused, world
<1>2. ASSUME SetOs(c) PROVE ImportInv'
  <2>1. PICK on : client' = [client EXCEPT ![c].pc = "get", ![c].was = on]
    BY <1>2 DEF SetOs
  <2>2. client[c].pc = "os" /\ UNCHANGED <<exported, req>>
    BY <1>2 DEF SetOs, world
  <2>3. DOMAIN client = Clients /\ IsClient(client[c])
    BY DEF StoredInv, Shape
  <2>4. /\ \A d \in Clients \ {c} : client'[d] = client[d]
        /\ client'[c].inv = client[c].inv /\ client'[c].pc = "get"
    BY <2>1, <2>3 DEF IsClient, ClientFields
  <2>5. req[c].stage = "none"
    BY <2>2 DEF StoredInv, ClientInv, Before, NoRequest
  <2>6. ImportOf(c)'
    BY <2>2, <2>4, <2>5 DEF ImportInv, ImportOf
  <2> QED
    BY <2>2, <2>4, <2>6, ImportClient
<1>3. ASSUME Get(c) \/ GuiApply(c) PROVE ImportInv'
  <2>1. client[c].pc \in {"get", "gui"} /\ UNCHANGED <<exported, req>>
    BY <1>3 DEF Get, GuiApply, world
  <2>2. CASE client' = [client EXCEPT ![c] = Finish(c, "err")]
    BY <2>1, <2>2, EndsImport
  <2>3. ASSUME NEW n, NEW pc \in {"gui", "export", "save"},
               \/ client' = [client EXCEPT ![c].config = n, ![c].pc = pc]
               \/ client' = [client EXCEPT ![c].pc = pc, ![c].was = n]
        PROVE  ImportInv'
    <3>1. DOMAIN client = Clients /\ IsClient(client[c])
      BY DEF StoredInv, Shape
    <3>2. /\ \A d \in Clients \ {c} : client'[d] = client[d]
          /\ client'[c].inv = client[c].inv /\ client'[c].pc = pc
      BY <2>3, <3>1 DEF IsClient, ClientFields
    <3>3. req[c].stage = "none"
      BY <2>1 DEF StoredInv, ClientInv, Before, NoRequest
    <3>4. ImportOf(c)'
      BY <2>1, <3>2, <3>3 DEF ImportInv, ImportOf
    <3> QED
      BY <2>1, <3>2, <3>4, ImportClient
  <2>4. \/ client' = [client EXCEPT ![c] = Finish(c, "err")]
        \/ \E n : \E pc \in {"gui", "export", "save"} :
             \/ client' = [client EXCEPT ![c].config = n, ![c].pc = pc]
             \/ client' = [client EXCEPT ![c].pc = pc, ![c].was = n]
    <3>1. CASE Get(c)
      BY <3>1 DEF Get
    <3>2. CASE GuiApply(c)
      BY <3>2 DEF GuiApply
    <3> QED
      BY <1>3, <3>1, <3>2
  <2> QED
    BY <2>2, <2>3, <2>4
<1>4. ASSUME GuiRollback(c) \/ Query(c) PROVE ImportInv'
  BY <1>4, EndsImport DEF GuiRollback, Query, world
<1>5. ASSUME Confirm(c) PROVE ImportInv'
  <2>1. client[c].pc = "confirm" /\ UNCHANGED <<exported, req>>
    BY <1>5 DEF Confirm, world
  <2>2. CASE client' = [client EXCEPT ![c] = Finish(c, "cancelled")]
    BY <2>1, <2>2, EndsImport
  <2>3. CASE client' = [client EXCEPT ![c].pc = "import"]
    <3>1. /\ \A d \in Clients \ {c} : client'[d] = client[d]
          /\ client'[c].inv = client[c].inv /\ client'[c].pc = "import"
          /\ client'[c].seen = client[c].seen
      BY <2>3, MoveEffect
    <3>2. Shown(c) => Shown(c)'
      BY <2>1, <3>1 DEF Shown
    <3>3. ImportOf(c)'
      BY <2>1, <3>1, <3>2 DEF ImportInv, ImportOf
    <3> QED
      BY <2>1, <3>1, <3>3, ImportClient
  <2> QED
    BY <1>5, <2>2, <2>3 DEF Confirm
<1>6. ASSUME Reply(c) PROVE ImportInv'
  <2>1. client[c].pc = "wait" /\ UNCHANGED <<exported, req>>
    BY <1>6 DEF Reply, world
  <2>2. ASSUME NEW result, client' = [client EXCEPT ![c] = Finish(c, result)]
        PROVE  ImportInv'
    BY <2>1, <2>2, EndsImport
  <2>3. CASE client' = [client EXCEPT ![c].pc = "rollback"] /\ client[c].inv.kind = "gui"
    <3>1. /\ \A d \in Clients \ {c} : client'[d] = client[d]
          /\ client'[c].inv = client[c].inv /\ client'[c].pc = "rollback"
      BY <2>3, MoveEffect
    <3>2. ImportOf(c)'
      BY <2>1, <2>3, <3>1 DEF ImportInv, ImportOf
    <3> QED
      BY <2>1, <3>1, <3>2, ImportClient
  <2> QED
    BY <1>6, <2>2, <2>3 DEF Reply
<1> QED
  BY <1>1, <1>2, <1>3, <1>4, <1>5, <1>6, ExportImport, PreviewImport, SubmitImport DEF ClientStep

\* ImportInv is inductive.
LEMMA ImportStep ==
    ASSUME StoredInv, ExportInv, ImportInv, [Next]_vars
    PROVE  ImportInv'
<1>1. ASSUME NEW a \in Agents, AgentLoad(a) \/ AgentStart(a) \/ AgentRefused(a)
      PROVE  ImportInv'
  BY <1>1 DEF AgentLoad, AgentStart, AgentRefused, ImportInv, ImportOf, Shown
<1>2. ASSUME NEW a \in Agents, AgentKilled(a) \/ AgentStop(a)
      PROVE  ImportInv'
  BY <1>2, GoneImport DEF AgentKilled, AgentStop, Procs
<1>3. ASSUME NEW c \in Clients, ClientKilled(c)
      PROVE  ImportInv'
  BY <1>3, GoneImport DEF ClientKilled, Procs, world
<1>4. ASSUME NEW c \in Clients, TimesOut(c) \/ OsFails(c)
      PROVE  ImportInv'
  BY <1>4, EndsImport DEF TimesOut, OsFails, world
<1>5. CASE UNCHANGED vars
  BY <1>5 DEF vars, ImportInv, ImportOf, Shown
<1> QED
  BY <1>1, <1>2, <1>3, <1>4, <1>5, StartImport, ClientImport, SavesImport DEF Next, Execute

\* An import that was reported as done saved what the user was shown, on top of the
\* configuration it read: the hash that ImportConfig compares is that of the preview,
\* and what a preview shows depends on the file alone.
THEOREM ImportIsAsPreviewed == ManagementSpec => []ImportAsPreviewed
<1>1. Init => ImportInv
  BY DEF Init, ImportInv, ImportOf, NoCommand, NoRequest
<1>2. /\ StoredInv /\ ExportInv /\ ImportInv /\ [Next]_vars
      => StoredInv' /\ ExportInv' /\ ImportInv'
  BY StoredStep, ExportStep, ImportStep
<1>3. ASSUME ImportInv
      PROVE  ImportAsPreviewed
  <2> SUFFICES ASSUME NEW c \in Clients, client[c].inv.kind = "import", req[c].stage = "ok"
               PROVE  LET saved == req[c].config
                          items == client[c].seen.items
                      IN  /\ saved = merge_payload(req[c].base, client[c].seen.payload)
                          /\ \A f \in DOMAIN saved :
                               IF f \in DOMAIN items
                               THEN items[f] = Display(f, saved, client[c].seen.payload)
                               ELSE saved[f] = req[c].base[f]
    BY DEF ImportAsPreviewed
  <2> DEFINE saved == req[c].config
             items == client[c].seen.items
             payload == client[c].seen.payload
             base == req[c].base
  <2>1. /\ Good(base) /\ saved = merge_payload(base, payload)
        /\ DOMAIN payload \subseteq TransferFields
        /\ items = preview_payload(DefaultConfig, payload)
    BY <1>3 DEF ImportInv, ImportOf, Shown
  <2> HIDE DEF saved, items, payload, base
  <2>2. IsConfig(base) /\ IsConfig(DefaultConfig)
    BY <2>1, DefaultGood DEF Good
  <2>3. IsConfig(saved)
    BY <2>1, <2>2, MergeFields
  <2>4. DOMAIN saved = Fields /\ DOMAIN items = DOMAIN payload
    BY <2>1, <2>3 DEF IsConfig, preview_payload
  <2>5. ASSUME NEW f \in DOMAIN payload
        PROVE  items[f] = Display(f, saved, payload)
    <3>1. items[f] = Display(f, merge_payload(DefaultConfig, payload), payload)
      BY <2>1 DEF preview_payload
    <3> QED
      BY <2>1, <2>2, <3>1, PreviewShows
  <2>6. ASSUME NEW f \in Fields \ DOMAIN payload
        PROVE  saved[f] = base[f]
    BY <2>1, MergeKeeps
  <2>7. /\ saved = merge_payload(base, payload)
        /\ \A f \in DOMAIN saved :
             IF f \in DOMAIN items THEN items[f] = Display(f, saved, payload)
             ELSE saved[f] = base[f]
    BY <2>1, <2>4, <2>5, <2>6
  <2> QED
    BY <2>7 DEF saved, items, payload, base
<1> QED
  BY StoredInit, <1>1, <1>2, <1>3, PTL DEF ManagementSpec

-----------------------------------------------------------------------------
(* One command at a time. *)

Active(c) == Busy(c) \/ InFlight(c)
Alone(c) == \A d \in Clients \ {c} : ~Active(d)

\* A save under way has emptied the file beside no other agent, or has written it.
WriteOf(c) ==
    /\ At(c, "write") =>
         file = Truncated /\ \A a \in Agents \ {req[c].exec} : agent[a].phase = "down"
    /\ At(c, "apply") =>
         /\ file = Whole(req[c].config)
         /\ \A a \in Agents \ {req[c].exec} : agent[a].phase # "down" => mem[a] = req[c].config

\* Otherwise a readable file is what every agent works with.
Synced ==
    (Loadable /\ \A c \in Clients : ~At(c, "apply")) =>
        \A a \in Agents : agent[a].phase # "down" => mem[a] = Load

\* What a command is about to save has the system's autostart.
WantOf(c) ==
    /\ client[c].pc = "save" => client[c].config.autostart = os
    /\ req[c].stage \in {"begin", "write", "apply"} => req[c].config.autostart = os
    /\ At(c, "merge") => req[c].base.autostart = os
    /\ (client[c].pc = "get" /\ client[c].inv.kind \notin {"edit", "gui", "export"}) =>
         client[c].was = os
    /\ client[c].pc = "rollback" => req[c].stage \in {"err", "dead"}
    /\ InFlight(c) => client[c].pc \in {"wait", "done"}
    /\ req[c].stage \in {"read", "merge"} => client[c].inv.kind = "import"

\* Commands that have set the system's autostart before the configuration's.
Toggles(c) ==
    /\ client[c].pc \in {"get", "save", "wait"} /\ client[c].inv.kind \in {"autostart", "tray"}
    /\ ~At(c, "ok")
FormAhead(c) ==
    /\ client[c].pc \in {"save", "wait", "rollback"} /\ client[c].inv.kind = "gui"
    /\ ~At(c, "ok")
Ahead(c) == Toggles(c) \/ FormAhead(c)

\* The agents, the file, and a client that goes on to use its own copy agree on the
\* autostart.
AgentsHave(v) ==
    /\ \A a \in Agents : agent[a].phase # "down" => mem[a].autostart = v
    /\ Loadable => Load.autostart = v
UsesOwn(c) ==
    \/ Busy(c) /\ ~InProcess(c) /\ client[c].pc # "wait"
    \/ InFlight(c) /\ req[c].exec = c
Settled(c, v) == AgentsHave(v) /\ (UsesOwn(c) => mem[c].autostart = v)

FormOf(c) == (FormAhead(c) /\ ~At(c, "apply")) => Settled(c, client[c].was)

AgreeOf(c) == WriteOf(c) /\ WantOf(c) /\ FormOf(c) /\ (Ahead(c) \/ Settled(c, os))

\* Whoever is active is alone, and agrees; when nobody is, everybody does.
OneAtATime ==
    /\ \A c, d \in Clients : Active(c) /\ Active(d) => c = d
    /\ Synced
    /\ \A c \in Clients : Alone(c) => AgreeOf(c)
    /\ (\A c \in Clients : ~Active(c)) => AgentsHave(os)

AgreeInv == clean => OneAtATime

\* An inactive client claims nothing.
LEMMA Inactive ==
    ASSUME NEW c \in Clients, ~Active(c)
    PROVE  WriteOf(c) /\ WantOf(c) /\ FormOf(c) /\ ~Ahead(c) /\ ~UsesOwn(c)
  BY DEF Active, Busy, InFlight, WriteOf, WantOf, FormOf, Ahead, Toggles, FormAhead, UsesOwn, At

\* The same of the state after a step.
LEMMA InactiveAfter ==
    ASSUME NEW c \in Clients, ~Active(c)'
    PROVE  (WriteOf(c) /\ WantOf(c) /\ FormOf(c) /\ ~Ahead(c) /\ ~UsesOwn(c))'
  BY DEF Active, Busy, InFlight, WriteOf, WantOf, FormOf, Ahead, Toggles, FormAhead, UsesOwn, At

\* After a step, it is enough to look at one client beside which nobody is active.
LEMMA AgreeBy ==
    ASSUME NEW c \in Clients, Alone(c)', AgreeOf(c)', Synced'
    PROVE  OneAtATime'
<1>1. \A d \in Clients \ {c} : ~Active(d)'
  BY DEF Alone
<1>2. ASSUME ~Active(c)'
      PROVE  AgentsHave(os)'
  BY <1>2, InactiveAfter DEF AgreeOf, Settled
<1>3. ASSUME NEW d \in Clients, Alone(d)', d # c
      PROVE  AgreeOf(d)'
  <2>1. ~Active(c)' /\ ~Active(d)'
    BY <1>1, <1>3 DEF Alone
  <2>2. (WriteOf(d) /\ WantOf(d) /\ FormOf(d) /\ ~UsesOwn(d))'
    BY <2>1, InactiveAfter
  <2> QED
    BY <2>1, <2>2, <1>2 DEF AgreeOf, Settled
<1> QED
  BY <1>1, <1>2, <1>3 DEF OneAtATime

\* Before a step, an active client is alone.
LEMMA ActiveAlone ==
    ASSUME OneAtATime, NEW c \in Clients, Active(c)
    PROVE  Alone(c) /\ AgreeOf(c) /\ Synced
  BY DEF OneAtATime, Alone

\* A step of one client's program that changes nothing but the client and the system.
LEMMA AgreeClient ==
    ASSUME NEW c \in Clients, Alone(c), AgreeOf(c), Synced, UNCHANGED <<file, mem, agent, req>>,
           \A d \in Clients \ {c} : client'[d] = client[d],
           WantOf(c)', FormOf(c)', Ahead(c)' \/ Settled(c, os)'
    PROVE  OneAtATime'
<1>1. Alone(c)'
  BY DEF Alone, Active, Busy, InFlight
<1>2. WriteOf(c)'
  BY DEF AgreeOf, WriteOf, At
<1>3. Synced'
  BY DEF Synced, Loadable, Load, At
<1> QED
  BY <1>1, <1>2, <1>3, AgreeBy DEF AgreeOf

\* A step that ends a command, when the agents have the system's autostart.
LEMMA EndsAgree ==
    ASSUME StoredInv, NEW c \in Clients, client[c].pc # "idle", Alone(c), AgreeOf(c), Synced,
           UNCHANGED <<file, mem, agent, req>>, NEW result,
           client' = [client EXCEPT ![c] = Finish(c, result)],
           AgentsHave(os)', InFlight(c) => os' = os /\ req[c].exec # c
    PROVE  OneAtATime'
<1>1. /\ client'[c].pc = "done" /\ client'[c].inv = client[c].inv
      /\ \A d \in Clients \ {c} : client'[d] = client[d]
  BY FinishInv
<1>2. WantOf(c)
  BY DEF AgreeOf
<1>3. WantOf(c)'
  BY <1>1, <1>2 DEF WantOf, InFlight, At
<1>4. FormOf(c)'
  BY <1>1 DEF FormOf, FormAhead
<1>5. ~UsesOwn(c)'
  BY <1>1 DEF UsesOwn, Busy, InFlight
<1> QED
  BY <1>1, <1>3, <1>4, <1>5, AgreeClient DEF Settled

\* Unless it is ahead, a client finds the system's autostart with the agents.
LEMMA Behind ==
    ASSUME NEW c \in Clients, AgreeOf(c), ~Ahead(c)
    PROVE  AgentsHave(os)
  BY DEF AgreeOf, Settled

\* A refused command ends; a toggle that is refused is not a clean history.
LEMMA RefusedAgree ==
    ASSUME StoredInv, NEW c \in Clients, Alone(c), AgreeOf(c), Synced, Refused(c), clean'
    PROVE  OneAtATime'
<1>1. /\ CommandOf(c) # None /\ Executor(c, CommandOf(c)) = {} /\ client[c].inv.kind # "autostart"
      /\ client' = [client EXCEPT ![c] = Finish(c, "err")]
      /\ UNCHANGED <<file, mem, agent, req, os>>
  BY DEF Refused, world
<1>2. client[c].pc # "idle" /\ client[c].pc \in Before
  BY <1>1 DEF CommandOf, Before
<1>3. client[c].inv.kind \notin {"gui", "tray"}
  BY <1>1 DEF Executor, InProcess
<1>4. AgentsHave(os)
  BY <1>1, <1>3, Behind DEF Ahead, Toggles, FormAhead
<1>5. AgentsHave(os)'
  BY <1>1, <1>4 DEF AgentsHave, Loadable, Load
<1>6. ~InFlight(c)
  BY <1>2 DEF StoredInv, ClientInv, InFlight, NoRequest
<1> QED
  BY <1>1, <1>2, <1>5, <1>6, EndsAgree

\* When the system refuses, nothing has changed yet.
LEMMA OsFailsAgree ==
    ASSUME StoredInv, NEW c \in Clients, Alone(c), AgreeOf(c), Synced, OsFails(c), clean'
    PROVE  OneAtATime'
<1>1. /\ client[c].pc \in {"os", "gui"} /\ client' = [client EXCEPT ![c] = Finish(c, "err")]
      /\ UNCHANGED <<file, mem, agent, req, os>>
  BY DEF OsFails, world
<1>2. AgentsHave(os)
  BY <1>1, Behind DEF Ahead, Toggles, FormAhead
<1>3. AgentsHave(os)'
  BY <1>1, <1>2 DEF AgentsHave, Loadable, Load
<1>4. ~InFlight(c)
  BY <1>1 DEF StoredInv, ClientInv, Before, InFlight, NoRequest
<1> QED
  BY <1>1, <1>3, <1>4, EndsAgree

\* A toggle sets the system, and is ahead of the configuration from then on.
LEMMA SetOsAgree ==
    ASSUME StoredInv, NEW c \in Clients, Alone(c), AgreeOf(c), Synced, SetOs(c)
    PROVE  OneAtATime'
<1>1. client[c].pc = "os" /\ UNCHANGED <<file, mem, agent, req>>
  BY DEF SetOs, world
<1>2. client' = [client EXCEPT ![c].pc = "get", ![c].was = os']
  BY DEF SetOs
<1>3. DOMAIN client = Clients /\ IsClient(client[c])
  BY DEF StoredInv, Shape
<1>4. /\ \A d \in Clients \ {c} : client'[d] = client[d]
      /\ client'[c].inv = client[c].inv /\ client'[c].pc = "get" /\ client'[c].was = os'
  BY <1>2, <1>3 DEF IsClient, ClientFields
<1>5. req[c].stage = "none" /\ client[c].inv.kind \in {"autostart", "tray"}
  BY <1>1 DEF StoredInv, ClientInv, Before, NoRequest
<1>6. WantOf(c)' /\ FormOf(c)' /\ Ahead(c)'
  BY <1>1, <1>4, <1>5 DEF WantOf, FormOf, Ahead, Toggles, FormAhead, InFlight, At
<1> QED
  BY <1>1, <1>4, <1>6, AgreeClient

\* The configuration of the process that executes a command has the system's autostart.
LEMMA ExecutorHas ==
    ASSUME StoredInv, NEW c \in Clients, Busy(c), client[c].pc # "wait", AgreeOf(c), ~Ahead(c),
           NEW cmd, NEW e \in Executor(c, cmd)
    PROVE  mem[e].autostart = os
<1>1. AgentsHave(os) /\ (UsesOwn(c) => mem[c].autostart = os)
  BY DEF AgreeOf, Settled
<1>2. e \in Agents \cup {c} /\ (e \in Agents => Up(e))
  BY ExecutorRuns
<1>3. CASE e \in Agents
  BY <1>1, <1>2, <1>3 DEF AgentsHave, Up
<1>4. CASE e = c
  <2>1. client[c].inv \in Invocations[c]
    BY DEF StoredInv, ClientInv, Busy
  <2>2. ~InProcess(c)
    BY <1>4, <2>1, Constants DEF Executor, InProcess
  <2> QED
    BY <1>1, <1>4, <2>2 DEF UsesOwn
<1> QED
  BY <1>2, <1>3, <1>4

\* What a client goes on to save has the system's autostart.
LEMMA GetAgree ==
    ASSUME StoredInv, NEW c \in Clients, Alone(c), AgreeOf(c), Synced, Get(c)
    PROVE  OneAtATime'
<1>1. client[c].pc = "get" /\ UNCHANGED <<file, mem, agent, req, os>>
  BY DEF Get, world
<1>2. req[c].stage = "none" /\ client[c].inv \in Invocations[c]
  BY <1>1 DEF StoredInv, ClientInv, Before, NoRequest
<1>3. CASE /\ client' = [client EXCEPT ![c] = Finish(c, "err")]
           /\ client[c].inv.kind \in {"edit", "gui", "export"}
  <2>1. AgentsHave(os)
    BY <1>1, <1>3, Behind DEF Ahead, Toggles, FormAhead
  <2>2. AgentsHave(os)'
    BY <1>1, <2>1 DEF AgentsHave, Loadable, Load
  <2> QED
    BY <1>1, <1>2, <1>3, <2>2, EndsAgree DEF InFlight
<1>4. ASSUME NEW e \in Executor(c, "GetConfig"), NEW n \in Intended(c, mem[e]),
             NEW next, next = CASE client[c].inv.kind = "gui" -> "gui"
                                [] client[c].inv.kind = "export" -> "export"
                                [] OTHER -> "save",
             client' = [client EXCEPT ![c].config = n, ![c].pc = next]
      PROVE  OneAtATime'
  <2>1. client' = [client EXCEPT ![c].config = n, ![c].pc = next]
    BY <1>4
  <2>2. DOMAIN client = Clients /\ IsClient(client[c])
    BY DEF StoredInv, Shape
  <2>3. /\ \A d \in Clients \ {c} : client'[d] = client[d]
        /\ client'[c].inv = client[c].inv /\ client'[c].pc = next /\ client'[c].config = n
        /\ client'[c].was = client[c].was
    BY <2>1, <2>2 DEF IsClient, ClientFields
  <2>4. IsConfig(mem[e])
    BY <1>1, ExecutorRuns DEF Busy, Good
  <2>5. next \in {"gui", "export", "save"} /\ (next = "gui" <=> client[c].inv.kind = "gui")
    BY <1>4
  <2>6. Ahead(c) <=> client[c].inv.kind \in {"autostart", "tray"}
    BY <1>1, <1>2 DEF Ahead, Toggles, FormAhead, At
  <2>7. next = "save" => n.autostart = os
    <3>1. CASE client[c].inv.kind = "edit"
      <4>1. mem[e].autostart = os
        BY <1>1, <2>6, <3>1, ExecutorHas DEF Busy
      <4> QED
        BY <1>2, <2>4, <3>1, <4>1, IntendedShape
    <3>2. CASE client[c].inv.kind \notin {"edit", "gui", "export"}
      <4>1. client[c].was = os
        BY <1>1, <3>2 DEF AgreeOf, WantOf
      <4> QED
        BY <1>2, <2>4, <3>2, <4>1, IntendedShape
    <3> QED
      BY <1>4, <3>1, <3>2
  <2>8. WantOf(c)'
    BY <1>1, <1>2, <2>3, <2>5, <2>7 DEF WantOf, InFlight, At
  <2>9. FormOf(c)'
    BY <1>1, <1>2, <2>3, <2>5 DEF FormOf, FormAhead, At
  <2>10. Ahead(c)' \/ Settled(c, os)'
    <3>1. CASE client[c].inv.kind \in {"autostart", "tray"}
      <4>1. next = "save"
        BY <1>4, <3>1
      <4> QED
        BY <1>1, <1>2, <2>3, <3>1, <4>1 DEF Ahead, Toggles, At
    <3>2. CASE client[c].inv.kind \notin {"autostart", "tray"}
      <4>1. Settled(c, os)
        BY <2>6, <3>2 DEF AgreeOf
      <4>2. AgentsHave(os)'
        BY <1>1, <4>1 DEF Settled, AgentsHave, Loadable, Load
      <4>3. UsesOwn(c)' => UsesOwn(c)
        BY <1>1, <1>2, <2>3, <2>5 DEF UsesOwn, Busy, InProcess, InFlight
      <4> QED
        BY <1>1, <4>1, <4>2, <4>3 DEF Settled
    <3> QED
      BY <3>1, <3>2
  <2> QED
    BY <1>1, <2>3, <2>8, <2>9, <2>10, AgreeClient
<1>5. PICK e \in Executor(c, "GetConfig") :
        \/ \E n \in Intended(c, mem[e]) :
             \E next : /\ next = CASE client[c].inv.kind = "gui" -> "gui"
                                   [] client[c].inv.kind = "export" -> "export"
                                   [] OTHER -> "save"
                       /\ client' = [client EXCEPT ![c].config = n, ![c].pc = next]
        \/ /\ Intended(c, mem[e]) = {} \/ NeedsApproval(client[c].inv, mem[e])
           /\ client' = [client EXCEPT ![c] = Finish(c, "err")]
  BY DEF Get
<1>6. ASSUME Intended(c, mem[e]) = {} \/ NeedsApproval(client[c].inv, mem[e])
      PROVE  client[c].inv.kind \in {"edit", "gui", "export"}
  BY <1>6 DEF Intended, NeedsApproval
<1> QED
  BY <1>3, <1>4, <1>5, <1>6

\* The window's save sets the system, and remembers what to go back to.
LEMMA GuiApplyAgree ==
    ASSUME StoredInv, NEW c \in Clients, Alone(c), AgreeOf(c), Synced, GuiApply(c)
    PROVE  OneAtATime'
<1>1. client[c].pc = "gui" /\ UNCHANGED <<file, mem, agent, req>>
  BY DEF GuiApply, world
<1>2. /\ req[c].stage = "none" /\ client[c].inv \in Invocations[c] /\ client[c].inv.kind = "gui"
      /\ Up(client[c].inv.agent) /\ client[c].inv.agent \in Agents
  BY <1>1, Constants DEF StoredInv, ClientInv, Before, NoRequest, Busy, InProcess
<1>3. AgentsHave(os)
  BY <1>1, Behind DEF Ahead, Toggles, FormAhead
<1>4. CASE client' = [client EXCEPT ![c] = Finish(c, "err")] /\ UNCHANGED os
  <2>1. AgentsHave(os)'
    BY <1>1, <1>3, <1>4 DEF AgentsHave, Loadable, Load
  <2> QED
    BY <1>1, <1>2, <1>4, <2>1, EndsAgree DEF InFlight
<1>5. ASSUME os' = client[c].config.autostart, NEW was,
             was = mem[client[c].inv.agent].autostart,
             client' = [client EXCEPT ![c].pc = "save", ![c].was = was]
      PROVE  OneAtATime'
  <2>1. client' = [client EXCEPT ![c].pc = "save", ![c].was = was]
    BY <1>5
  <2>2. DOMAIN client = Clients /\ IsClient(client[c])
    BY DEF StoredInv, Shape
  <2>3. /\ \A d \in Clients \ {c} : client'[d] = client[d]
        /\ client'[c].inv = client[c].inv /\ client'[c].pc = "save" /\ client'[c].was = was
        /\ client'[c].config = client[c].config
    BY <2>1, <2>2 DEF IsClient, ClientFields
  <2>4. was = os
    BY <1>2, <1>3, <1>5 DEF AgentsHave, Up
  <2>5. WantOf(c)'
    BY <1>1, <1>2, <1>5, <2>3 DEF WantOf, InFlight, At
  <2>6. ~UsesOwn(c)'
    BY <1>1, <1>2, <2>3 DEF UsesOwn, Busy, InProcess, InFlight
  <2>7. FormOf(c)'
    BY <1>1, <1>3, <2>3, <2>4, <2>6 DEF FormOf, Settled, AgentsHave, Loadable, Load
  <2>8. Ahead(c)'
    BY <1>1, <1>2, <2>3 DEF Ahead, FormAhead, At
  <2> QED
    BY <1>1, <2>3, <2>5, <2>7, <2>8, AgreeClient
<1> QED
  BY <1>4, <1>5 DEF GuiApply

\* Rolling back gives the system the value the agents kept.
LEMMA GuiRollbackAgree ==
    ASSUME StoredInv, NEW c \in Clients, Alone(c), AgreeOf(c), Synced, GuiRollback(c)
    PROVE  OneAtATime'
<1>1. /\ client[c].pc = "rollback" /\ UNCHANGED <<file, mem, agent, req>> /\ os' = client[c].was
      /\ client' = [client EXCEPT ![c] = Finish(c, "err")]
  BY DEF GuiRollback, world
<1>2. req[c].stage \in {"err", "dead"} /\ client[c].inv.kind = "gui"
  BY <1>1 DEF AgreeOf, WantOf, StoredInv, ClientInv
<1>3. AgentsHave(client[c].was)
  BY <1>1, <1>2 DEF AgreeOf, FormOf, FormAhead, Settled, At
<1>4. AgentsHave(os)'
  BY <1>1, <1>3 DEF AgentsHave, Loadable, Load
<1> QED
  BY <1>1, <1>2, <1>4, EndsAgree DEF InFlight

\* Commands that only read.
LEMMA ReadsAgree ==
    ASSUME StoredInv, NEW c \in Clients, Alone(c), AgreeOf(c), Synced, Export(c) \/ Query(c)
    PROVE  OneAtATime'
<1>1. /\ client[c].pc \in {"export", "query"} /\ UNCHANGED <<file, mem, agent, req, os>>
      /\ client' = [client EXCEPT ![c] = Finish(c, "ok")]
  BY DEF Export, Query, world
<1>2. req[c].stage = "none"
  BY <1>1 DEF StoredInv, ClientInv, Before, NoRequest
<1>3. AgentsHave(os)
  BY <1>1, Behind DEF Ahead, Toggles, FormAhead
<1>4. AgentsHave(os)'
  BY <1>1, <1>3 DEF AgentsHave, Loadable, Load
<1> QED
  BY <1>1, <1>2, <1>4, EndsAgree DEF InFlight

\* A client before its request that goes on to the next step, and is not ahead.
LEMMA MovesAgree ==
    ASSUME StoredInv, NEW c \in Clients, Alone(c), AgreeOf(c), Synced,
           UNCHANGED <<file, mem, agent, req, os>>, client[c].pc \in {"preview", "confirm"},
           \A d \in Clients \ {c} : client'[d] = client[d],
           client'[c].inv = client[c].inv, client'[c].pc \in {"done", "confirm", "import"}
    PROVE  OneAtATime'
<1>1. req[c].stage = "none"
  BY DEF StoredInv, ClientInv, Before, NoRequest
<1>2. Settled(c, os)
  BY DEF AgreeOf, Ahead, Toggles, FormAhead
<1>3. WantOf(c)' /\ FormOf(c)'
  BY <1>1 DEF WantOf, FormOf, FormAhead, InFlight, At
<1>4. AgentsHave(os)'
  BY <1>2 DEF Settled, AgentsHave, Loadable, Load
<1>5. UsesOwn(c)' => UsesOwn(c)
  BY <1>1 DEF UsesOwn, Busy, InProcess, InFlight
<1> QED
  BY <1>2, <1>3, <1>4, <1>5, AgreeClient DEF Settled

\* The preview of an import, and the user's answer to it.
LEMMA PreviewAgree ==
    ASSUME StoredInv, NEW c \in Clients, Alone(c), AgreeOf(c), Synced, Preview(c) \/ Confirm(c)
    PROVE  OneAtATime'
<1>1. client[c].pc \in {"preview", "confirm"} /\ UNCHANGED <<file, mem, agent, req, os>>
  BY DEF Preview, Confirm, world
<1>2. ASSUME NEW result, client' = [client EXCEPT ![c] = Finish(c, result)]
      PROVE  OneAtATime'
  <2>1. /\ \A d \in Clients \ {c} : client'[d] = client[d]
        /\ client'[c].inv = client[c].inv /\ client'[c].pc = "done"
    BY <1>1, <1>2, FinishInv
  <2> QED
    BY <1>1, <2>1, MovesAgree
<1>3. CASE client' = [client EXCEPT ![c].pc = "import"]
  <2>1. /\ \A d \in Clients \ {c} : client'[d] = client[d]
        /\ client'[c].inv = client[c].inv /\ client'[c].pc = "import"
    BY <1>3, MoveEffect
  <2> QED
    BY <1>1, <2>1, MovesAgree
<1>4. ASSUME NEW pc \in {"done", "confirm"}, NEW result, NEW seen,
             client' = [client EXCEPT ![c].pc = pc, ![c].result = result, ![c].seen = seen]
      PROVE  OneAtATime'
  <2>1. /\ \A d \in Clients \ {c} : client'[d] = client[d]
        /\ client'[c].inv = client[c].inv /\ client'[c].pc = pc
    BY <1>4, PreviewEffect
  <2> QED
    BY <1>1, <1>4, <2>1, MovesAgree
<1>5. CASE Confirm(c)
  BY <1>2, <1>3, <1>5 DEF Confirm
<1>6. CASE Preview(c)
  <2>1. PICK e : client' =
            IF Decrypts(exported, client[c].inv.password) /\ Mergeable(exported.payload)
            THEN [client EXCEPT ![c].pc = IF client[c].inv.preview THEN "done" ELSE "confirm",
                                ![c].result = IF client[c].inv.preview THEN "ok" ELSE "none",
                                ![c].seen =
                     [file_hash |-> exported.hash,
                      items |-> preview_payload(mem[e], exported.payload),
                      payload |-> exported.payload]]
            ELSE [client EXCEPT ![c] = Finish(c, "err")]
    BY <1>6 DEF Preview
  <2> DEFINE pc == IF client[c].inv.preview THEN "done" ELSE "confirm"
  <2>2. pc \in {"done", "confirm"}
    OBVIOUS
  <2> HIDE DEF pc
  <2>3. CASE ~(Decrypts(exported, client[c].inv.password) /\ Mergeable(exported.payload))
    BY <1>2, <2>1, <2>3
  <2>4. CASE Decrypts(exported, client[c].inv.password) /\ Mergeable(exported.payload)
    <3>1. \E result, seen :
            client' = [client EXCEPT ![c].pc = pc, ![c].result = result, ![c].seen = seen]
      BY <2>1, <2>4 DEF pc
    <3> QED
      BY <3>1, <1>4, <2>2
  <2> QED
    BY <2>3, <2>4
<1> QED
  BY <1>5, <1>6

\* A reply to a save that failed sends a window back, and ends a command line.
LEMMA ReplyAgree ==
    ASSUME StoredInv, NEW c \in Clients, Alone(c), AgreeOf(c), Synced, Reply(c), clean'
    PROVE  OneAtATime'
<1>1. /\ client[c].pc = "wait" /\ req[c].stage \in {"ok", "err", "dead"}
      /\ UNCHANGED <<file, mem, agent, req, os>>
      /\ req[c].stage = "ok" \/ client[c].inv.kind \notin {"autostart", "tray"}
  BY DEF Reply, world
<1>2. ~InFlight(c)
  BY <1>1 DEF InFlight
<1>3. ASSUME NEW result, client' = [client EXCEPT ![c] = Finish(c, result)],
             req[c].stage = "ok" \/ client[c].inv.kind # "gui"
      PROVE  OneAtATime'
  <2>1. AgentsHave(os)
    BY <1>1, <1>3, Behind DEF Ahead, Toggles, FormAhead, At
  <2>2. AgentsHave(os)'
    BY <1>1, <2>1 DEF AgentsHave, Loadable, Load
  <2> QED
    BY <1>1, <1>2, <1>3, <2>2, EndsAgree
<1>4. CASE /\ client' = [client EXCEPT ![c].pc = "rollback"]
           /\ req[c].stage # "ok" /\ client[c].inv.kind = "gui"
  <2>1. /\ \A d \in Clients \ {c} : client'[d] = client[d]
        /\ client'[c].inv = client[c].inv /\ client'[c].pc = "rollback"
        /\ client'[c].was = client[c].was
    BY <1>4, MoveEffect
  <2>2. WantOf(c)' /\ Ahead(c)'
    BY <1>1, <1>2, <1>4, <2>1 DEF WantOf, InFlight, At, Ahead, FormAhead
  <2>3. AgentsHave(client[c].was)
    BY <1>1, <1>4 DEF AgreeOf, FormOf, FormAhead, Settled, At
  <2>4. ~UsesOwn(c)'
    BY <1>1, <1>2, <1>4, <2>1 DEF UsesOwn, Busy, InProcess, InFlight
  <2>5. FormOf(c)'
    BY <1>1, <2>1, <2>3, <2>4 DEF FormOf, Settled, AgentsHave, Loadable, Load
  <2> QED
    BY <1>1, <2>1, <2>2, <2>5, AgreeClient
<1> QED
  BY <1>1, <1>3, <1>4 DEF Reply

\* A client that gives up leaves its request to the agent.
LEMMA TimesOutAgree ==
    ASSUME StoredInv, NEW c \in Clients, Alone(c), AgreeOf(c), Synced, TimesOut(c), clean'
    PROVE  OneAtATime'
<1>1. /\ client[c].pc = "wait" /\ req[c].exec \in Agents /\ ~InProcess(c)
      /\ client[c].inv.kind # "autostart"
      /\ client' = [client EXCEPT ![c] = Finish(c, "err")]
      /\ UNCHANGED <<file, mem, agent, req, os>>
  BY DEF TimesOut, world
<1>2. AgentsHave(os)
  BY <1>1, Behind DEF Ahead, Toggles, FormAhead, InProcess
<1>3. AgentsHave(os)'
  BY <1>1, <1>2 DEF AgentsHave, Loadable, Load
<1>4. req[c].exec # c
  BY <1>1, Constants
<1> QED
  BY <1>1, <1>3, <1>4, EndsAgree

\* A step of one request that leaves the file and the memories alone.
LEMMA AgreeRequest ==
    ASSUME NEW c \in Clients, Alone(c), Synced, UNCHANGED <<file, mem, agent>>,
           \A d \in Clients \ {c} : client'[d] = client[d] /\ req'[d] = req[d],
           ~At(c, "apply"), req'[c].stage \notin {"write", "apply"},
           WantOf(c)', FormOf(c)', Ahead(c)' \/ Settled(c, os)'
    PROVE  OneAtATime'
<1>1. Alone(c)'
  BY DEF Alone, Active, Busy, InFlight
<1>2. WriteOf(c)'
  BY DEF WriteOf, At
<1>3. Synced'
  <2>1. (\A d \in Clients : ~At(d, "apply")') => \A d \in Clients : ~At(d, "apply")
    BY DEF At
  <2> QED
    BY <2>1 DEF Synced, Loadable, Load
<1> QED
  BY <1>1, <1>2, <1>3, AgreeBy DEF AgreeOf

\* A request is made with the configuration the client has.
LEMMA SubmitAgree ==
    ASSUME StoredInv, NEW c \in Clients, Alone(c), AgreeOf(c), Synced, Submit(c)
    PROVE  OneAtATime'
<1>1. UNCHANGED <<file, mem, agent, os>>
  BY DEF Submit, world
<1>2. /\ client[c].pc \in {"save", "import"} /\ req[c] = NoRequest
      /\ req'[c].config = client[c].config
      /\ req'[c].stage = IF client[c].pc = "save" THEN "begin" ELSE "read"
      /\ req'[c].exec \in Executor(c, CommandOf(c))
  BY SubmitEffect
<1>3. /\ \A d \in Clients \ {c} : client'[d] = client[d] /\ req'[d] = req[d]
      /\ client'[c].inv = client[c].inv /\ client'[c].pc = "wait" /\ client'[c].was = client[c].was
  BY SubmitEffect
<1>4. req[c].stage = "none" /\ ~At(c, "apply") /\ ~At(c, "ok")
  BY <1>2 DEF NoRequest, At
<1>5. /\ client[c].inv \in Invocations[c]
      /\ client[c].pc = "import" => client[c].inv.kind = "import"
  BY <1>2 DEF StoredInv, ClientInv
<1>6. req'[c].exec = c => ~InProcess(c)
  BY <1>2, <1>5, Constants DEF Executor, InProcess
<1>7. UsesOwn(c)' => UsesOwn(c)
  BY <1>2, <1>3, <1>6 DEF UsesOwn, Busy, InProcess
<1>8. WantOf(c)'
  <2>1. client[c].pc = "save" => client[c].config.autostart = os
    BY DEF AgreeOf, WantOf
  <2> QED
    BY <1>1, <1>2, <1>3, <1>5, <2>1 DEF WantOf, InFlight, At
<1>9. FormOf(c)'
  <2>1. FormAhead(c)' => FormAhead(c) /\ ~At(c, "apply")
    BY <1>2, <1>3, <1>4, <1>5 DEF FormAhead
  <2>2. FormAhead(c)' => Settled(c, client[c].was)
    BY <2>1 DEF AgreeOf, FormOf
  <2> QED
    BY <1>1, <1>3, <1>7, <2>2 DEF FormOf, Settled, AgentsHave, Loadable, Load
<1>10. Ahead(c)' \/ Settled(c, os)'
  <2>1. CASE Ahead(c)
    BY <1>2, <1>3, <2>1 DEF Ahead, Toggles, FormAhead, At
  <2>2. CASE Settled(c, os)
    BY <1>1, <1>7, <2>2 DEF Settled, AgentsHave, Loadable, Load
  <2> QED
    BY <2>1, <2>2 DEF AgreeOf
<1> QED
  BY <1>1, <1>2, <1>3, <1>4, <1>8, <1>9, <1>10, AgreeRequest

\* The import reads a configuration with the system's autostart.
LEMMA ImportReadAgree ==
    ASSUME StoredInv, NEW c \in Clients, Alone(c), AgreeOf(c), Synced, ImportRead(c)
    PROVE  OneAtATime'
<1>1. req[c].stage = "read" /\ UNCHANGED <<file, mem, agent, os, client>>
  BY DEF ImportRead, At, world
<1>2. req' = [req EXCEPT ![c].stage = "merge", ![c].base = mem[req[c].exec]]
  BY DEF ImportRead
<1>3. DOMAIN req = Clients /\ IsRequest(req[c])
  BY DEF StoredInv, Shape
<1>4. /\ \A d \in Clients \ {c} : req'[d] = req[d]
      /\ req'[c].stage = "merge" /\ req'[c].exec = req[c].exec
      /\ req'[c].base = mem[req[c].exec]
  BY <1>2, <1>3 DEF IsRequest, RequestFields
<1>5. InFlight(c)
  BY <1>1 DEF InFlight
<1>6. client[c].inv.kind = "import" /\ client[c].pc \in {"wait", "done"}
  BY <1>1, <1>5 DEF AgreeOf, WantOf
<1>7. Settled(c, os)
  BY <1>6 DEF AgreeOf, Ahead, Toggles, FormAhead
<1>8. mem[req[c].exec].autostart = os
  <2>1. req[c].exec \in Agents \cup {c} /\ (req[c].exec \in Agents => Up(req[c].exec))
    BY <1>5 DEF StoredInv, RequestInv
  <2> QED
    BY <1>5, <1>7, <2>1 DEF Settled, AgentsHave, UsesOwn, Up
<1>9. WantOf(c)' /\ FormOf(c)'
  BY <1>1, <1>4, <1>6, <1>8 DEF WantOf, FormOf, FormAhead, InFlight, At
<1>10. Settled(c, os)'
  BY <1>1, <1>4, <1>5, <1>7 DEF Settled, AgentsHave, Loadable, Load, UsesOwn, Busy, InProcess
<1> QED
  BY <1>1, <1>4, <1>9, <1>10, AgreeRequest DEF At

\* A request that ends with an error before it has stored anything.
LEMMA FailsAgree ==
    ASSUME StoredInv, NEW c \in Clients, Alone(c), AgreeOf(c), Synced,
           req[c].stage \in {"merge", "begin", "write"}, req' = Go(c, "err"),
           UNCHANGED <<file, mem, agent, os, client>>
    PROVE  OneAtATime'
<1>1. /\ \A d \in Clients \ {c} : req'[d] = req[d]
      /\ req'[c].stage = "err" /\ req'[c].exec = req[c].exec
  BY GoEffect
<1>2. client[c].pc \in {"wait", "done"}
  BY DEF AgreeOf, WantOf, InFlight
<1>3. WantOf(c)'
  BY <1>1, <1>2 DEF WantOf, InFlight, At
<1>4. UsesOwn(c)' => UsesOwn(c)
  BY <1>1 DEF UsesOwn, Busy, InProcess, InFlight
<1>5. FormOf(c)'
  <2>1. FormAhead(c)' => FormAhead(c) /\ ~At(c, "apply")
    BY DEF FormAhead, At
  <2>2. FormAhead(c)' => Settled(c, client[c].was)
    BY <2>1 DEF AgreeOf, FormOf
  <2> QED
    BY <1>4, <2>2 DEF FormOf, Settled, AgentsHave, Loadable, Load
<1>6. Ahead(c)' \/ Settled(c, os)'
  <2>1. CASE Ahead(c)
    BY <1>1, <2>1 DEF Ahead, Toggles, FormAhead, At
  <2>2. CASE Settled(c, os)
    BY <1>4, <2>2 DEF Settled, AgentsHave, Loadable, Load
  <2> QED
    BY <2>1, <2>2 DEF AgreeOf
<1> QED
  BY <1>1, <1>3, <1>5, <1>6, AgreeRequest DEF At

\* An import keeps the autostart.
LEMMA ImportMergeAgree ==
    ASSUME StoredInv, ExportInv, NEW c \in Clients, Alone(c), AgreeOf(c), Synced, ImportMerge(c)
    PROVE  OneAtATime'
<1>1. req[c].stage = "merge" /\ UNCHANGED <<file, mem, agent, os, client>>
  BY DEF ImportMerge, At, world
<1>2. CASE req' = Go(c, "err")
  BY <1>1, <1>2, FailsAgree
<1>3. CASE req' = [req EXCEPT ![c].stage = "begin",
                              ![c].config = merge_payload(req[c].base, exported.payload)]
  <2>1. DOMAIN req = Clients /\ IsRequest(req[c])
    BY DEF StoredInv, Shape
  <2>2. /\ \A d \in Clients \ {c} : req'[d] = req[d]
        /\ req'[c].stage = "begin" /\ req'[c].exec = req[c].exec
        /\ req'[c].config = merge_payload(req[c].base, exported.payload)
    BY <1>3, <2>1 DEF IsRequest, RequestFields
  <2>3. IsConfig(req[c].base) /\ req[c].base.autostart = os
    BY <1>1 DEF StoredInv, RequestInv, At, Good, AgreeOf, WantOf
  <2>4. req'[c].config.autostart = os
    <3>1. merge_payload(req[c].base, exported.payload).autostart = req[c].base.autostart
      BY <2>3, MergeFields DEF ExportInv
    <3> QED
      BY <2>2, <2>3, <3>1
  <2>5. client[c].inv.kind = "import" /\ client[c].pc \in {"wait", "done"}
    BY <1>1 DEF AgreeOf, WantOf, InFlight
  <2>6. Settled(c, os)
    BY <2>5 DEF AgreeOf, Ahead, Toggles, FormAhead
  <2>7. WantOf(c)' /\ FormOf(c)'
    BY <1>1, <2>2, <2>4, <2>5 DEF WantOf, FormOf, FormAhead, InFlight, At
  <2>8. UsesOwn(c)' => UsesOwn(c)
    BY <1>1, <2>2 DEF UsesOwn, Busy, InProcess, InFlight
  <2>9. Settled(c, os)'
    BY <1>1, <2>6, <2>8 DEF Settled, AgentsHave, Loadable, Load
  <2> QED
    BY <1>1, <2>2, <2>7, <2>9, AgreeRequest DEF At
<1> QED
  BY <1>2, <1>3 DEF ImportMerge

\* A save empties the file, which says nothing until it is written.
LEMMA SaveBeginAgree ==
    ASSUME StoredInv, NEW c \in Clients, Alone(c), AgreeOf(c), SaveBegin(c), clean'
    PROVE  OneAtATime'
<1>1. /\ req[c].stage = "begin" /\ UNCHANGED <<mem, agent, os, client>> /\ file' = Truncated
      /\ \A a \in Agents \ {req[c].exec} : agent[a].phase = "down"
  BY DEF SaveBegin, At, world
<1>2. /\ \A d \in Clients \ {c} : req'[d] = req[d]
      /\ req'[c].stage = "write" /\ req'[c].exec = req[c].exec
      /\ req'[c].config = normalized(req[c].config)
  BY SaveBeginEffect
<1>3. IsConfig(req[c].config) /\ req[c].config.autostart = os /\ client[c].pc \in {"wait", "done"}
  BY <1>1 DEF StoredInv, RequestInv, At, AgreeOf, WantOf, InFlight
<1>4. req'[c].config.autostart = os
  BY <1>2, <1>3, NormalizedFields DEF Fields, LocalFields
<1>5. Alone(c)'
  BY <1>1, <1>2 DEF Alone, Active, Busy, InFlight
<1>6. WriteOf(c)' /\ WantOf(c)'
  BY <1>1, <1>2, <1>3, <1>4 DEF WriteOf, WantOf, InFlight, At
<1>7. ~Loadable'
  BY <1>1 DEF Loadable, Truncated
<1>8. UsesOwn(c)' => UsesOwn(c)
  BY <1>1, <1>2 DEF UsesOwn, Busy, InProcess, InFlight
<1>9. FormOf(c)'
  <2>1. FormAhead(c)' => FormAhead(c) /\ ~At(c, "apply")
    BY <1>1 DEF FormAhead, At
  <2>2. FormAhead(c)' => Settled(c, client[c].was)
    BY <2>1 DEF AgreeOf, FormOf
  <2> QED
    BY <1>1, <1>7, <1>8, <2>2 DEF FormOf, Settled, AgentsHave
<1>10. Ahead(c)' \/ Settled(c, os)'
  <2>1. CASE Ahead(c)
    BY <1>1, <1>2, <2>1 DEF Ahead, Toggles, FormAhead, At
  <2>2. CASE Settled(c, os)
    BY <1>1, <1>7, <1>8, <2>2 DEF Settled, AgentsHave
  <2> QED
    BY <2>1, <2>2 DEF AgreeOf
<1> QED
  BY <1>5, <1>6, <1>7, <1>9, <1>10, AgreeBy DEF AgreeOf, Synced

\* The one writer puts its whole text in the file.
LEMMA SaveWriteAgree ==
    ASSUME StoredInv, NEW c \in Clients, Alone(c), AgreeOf(c), SaveWrite(c)
    PROVE  OneAtATime'
<1>1. /\ req[c].stage = "write" /\ UNCHANGED <<mem, agent, os, client>>
      /\ file' \in Written(req[c].config) /\ req' = Go(c, "apply")
  BY DEF SaveWrite, At, world
<1>2. /\ file = Truncated /\ \A a \in Agents \ {req[c].exec} : agent[a].phase = "down"
      /\ req[c].config.autostart = os /\ client[c].pc \in {"wait", "done"}
  BY <1>1 DEF AgreeOf, WriteOf, WantOf, InFlight, At
<1>3. /\ \A d \in Clients \ {c} : req'[d] = req[d]
      /\ req'[c].stage = "apply" /\ req'[c].exec = req[c].exec /\ req'[c].config = req[c].config
  BY <1>1, GoEffect
<1>4. file' = Whole(req[c].config) /\ file'.kind = "whole" /\ file'.config = req[c].config
  BY <1>1, <1>2 DEF Written, Truncated, Whole
<1>5. Alone(c)'
  BY <1>1, <1>3 DEF Alone, Active, Busy, InFlight
<1>6. WriteOf(c)' /\ WantOf(c)'
  BY <1>1, <1>2, <1>3, <1>4 DEF WriteOf, WantOf, InFlight, At
<1>7. At(c, "apply")'
  BY <1>3 DEF At
<1>8. FormOf(c)' /\ Synced'
  BY <1>7 DEF FormOf, Synced
<1>9. Ahead(c)' \/ Settled(c, os)'
  <2>1. CASE Ahead(c)
    BY <1>1, <1>3, <2>1 DEF Ahead, Toggles, FormAhead, At
  <2>2. CASE Settled(c, os)
    <3>1. normalized(req[c].config) = req[c].config
      BY <1>1, GoodNormalized DEF StoredInv, RequestInv
    <3>2. Load'.autostart = os
      BY <1>2, <1>4, <3>1 DEF Load
    <3>3. UsesOwn(c)' => UsesOwn(c)
      BY <1>1, <1>3 DEF UsesOwn, Busy, InProcess, InFlight
    <3> QED
      BY <1>1, <2>2, <3>2, <3>3 DEF Settled, AgentsHave
  <2> QED
    BY <2>1, <2>2 DEF AgreeOf
<1> QED
  BY <1>5, <1>6, <1>8, <1>9, AgreeBy DEF AgreeOf

\* With the memory updated, the agents, the file and the system have the saved value.
LEMMA SaveApplyAgree ==
    ASSUME StoredInv, NEW c \in Clients, Alone(c), AgreeOf(c), SaveApply(c)
    PROVE  OneAtATime'
<1>1. /\ req[c].stage = "apply" /\ UNCHANGED <<file, agent, os, client>>
      /\ mem' = [mem EXCEPT ![req[c].exec] = req[c].config] /\ req' = Go(c, "ok")
  BY DEF SaveApply, At, world
<1>2. /\ file = Whole(req[c].config) /\ req[c].config.autostart = os
      /\ \A a \in Agents \ {req[c].exec} : agent[a].phase # "down" => mem[a] = req[c].config
      /\ client[c].pc \in {"wait", "done"}
  BY <1>1 DEF AgreeOf, WriteOf, WantOf, InFlight, At
<1>3. /\ \A d \in Clients \ {c} : req'[d] = req[d]
      /\ req'[c].stage = "ok" /\ req'[c].exec = req[c].exec /\ req'[c].config = req[c].config
  BY <1>1, GoEffect
<1>4. DOMAIN mem = Procs /\ req[c].exec \in Procs /\ Agents \subseteq Procs
  BY <1>1 DEF StoredInv, Shape, RequestInv, InFlight, Procs
<1>5. \A a \in Agents : agent'[a].phase # "down" => mem'[a] = req[c].config
  BY <1>1, <1>2, <1>4
<1>6. Load' = req[c].config
  <2>1. normalized(req[c].config) = req[c].config
    BY <1>1, GoodNormalized DEF StoredInv, RequestInv
  <2> QED
    BY <1>1, <1>2, <2>1 DEF Load, Whole
<1>7. Alone(c)'
  BY <1>1, <1>3 DEF Alone, Active, Busy, InFlight
<1>8. WriteOf(c)' /\ WantOf(c)' /\ FormOf(c)'
  BY <1>1, <1>2, <1>3 DEF WriteOf, WantOf, FormOf, FormAhead, InFlight, At
<1>9. Synced'
  BY <1>5, <1>6 DEF Synced
<1>10. Settled(c, os)'
  <2>1. ~UsesOwn(c)'
    BY <1>1, <1>2, <1>3 DEF UsesOwn, Busy, InFlight
  <2> QED
    BY <1>1, <1>2, <1>5, <1>6, <2>1 DEF Settled, AgentsHave
<1> QED
  BY <1>7, <1>8, <1>9, <1>10, AgreeBy DEF AgreeOf

\* A command that starts alone finds the system's autostart in the file it loads.
LEMMA StartAgree ==
    ASSUME StoredInv, OneAtATime, NEW c \in Clients, Start(c), clean'
    PROVE  OneAtATime'
<1>1. /\ client[c].pc = "idle" /\ UNCHANGED <<agent, file, req, os>>
      /\ \A d \in Clients \ {c} : client[d].pc \in {"idle", "done"} /\ ~InFlight(d)
  BY DEF Start, world
<1>2. Alone(c) /\ AgreeOf(c) /\ Synced
  BY <1>1 DEF OneAtATime, Alone, Active, Busy
<1>3. req[c].stage = "none"
  BY <1>1 DEF StoredInv, ClientInv, Before, NoRequest
<1>4. AgentsHave(os)
  BY <1>1, <1>2, Behind DEF Ahead, Toggles, FormAhead
<1>5. DOMAIN client = Clients /\ IsClient(client[c]) /\ DOMAIN mem = Procs /\ c \in Procs
  BY DEF StoredInv, Shape, Procs
<1>6. PICK inv \in Invocations[c] :
        IF inv.kind \in {"gui", "tray"}
        THEN /\ Up(inv.agent)
             /\ client' = [client EXCEPT ![c].inv = inv, ![c].pc = FirstPc(inv)]
             /\ UNCHANGED mem
        ELSE IF Loadable
        THEN /\ client' = [client EXCEPT ![c] =
                    [@ EXCEPT !.inv = inv, !.pc = FirstPc(inv),
                              !.result = IF FirstPc(inv) = "done" THEN "err" ELSE "none"]]
             /\ mem' = [mem EXCEPT ![c] = Load]
        ELSE /\ client' = [client EXCEPT ![c] =
                    [@ EXCEPT !.inv = inv, !.pc = "done", !.result = "err"]]
             /\ UNCHANGED mem
  BY DEF Start
<1>7. /\ \A d \in Clients \ {c} : client'[d] = client[d]
      /\ client'[c].inv = inv /\ client'[c].pc \in {"done", FirstPc(inv)}
  <2>1. CASE inv.kind \in {"gui", "tray"}
    BY <1>5, <1>6, <2>1 DEF IsClient, ClientFields
  <2>2. CASE inv.kind \notin {"gui", "tray"} /\ Loadable
    BY <1>5, <1>6, <2>2 DEF IsClient, ClientFields
  <2>3. CASE inv.kind \notin {"gui", "tray"} /\ ~Loadable
    BY <1>5, <1>6, <2>3 DEF IsClient, ClientFields
  <2> QED
    BY <2>1, <2>2, <2>3
<1>8. /\ \A a \in Agents : mem'[a] = mem[a]
      /\ (client'[c].pc # "done" /\ inv.kind \notin {"gui", "tray"}) => Loadable /\ mem'[c] = Load
  <2>1. CASE inv.kind \in {"gui", "tray"}
    BY <1>6, <2>1
  <2>2. CASE inv.kind \notin {"gui", "tray"} /\ Loadable
    BY <1>5, <1>6, <2>2, Constants DEF Procs
  <2>3. CASE inv.kind \notin {"gui", "tray"} /\ ~Loadable
    BY <1>5, <1>6, <2>3 DEF IsClient, ClientFields
  <2> QED
    BY <2>1, <2>2, <2>3
<1>9. /\ FirstPc(inv) \in {"get", "os", "done", "preview", "query"}
      /\ FirstPc(inv) = "get" => inv.kind \in {"edit", "gui", "export"}
  BY DEF FirstPc
<1>10. Alone(c)'
  BY <1>1, <1>2, <1>7 DEF Alone, Active, Busy, InFlight
<1>11. WriteOf(c)' /\ WantOf(c)' /\ FormOf(c)'
  BY <1>1, <1>3, <1>7, <1>9 DEF WriteOf, WantOf, FormOf, FormAhead, InFlight, At
<1>12. Synced'
  BY <1>1, <1>2, <1>8 DEF Synced, Loadable, Load, At
<1>13. AgentsHave(os)'
  BY <1>1, <1>4, <1>8 DEF AgentsHave, Loadable, Load
<1>14. UsesOwn(c)' => mem'[c].autostart = os
  <2>1. UsesOwn(c)' => client'[c].pc # "done" /\ inv.kind \notin {"gui", "tray"}
    BY <1>1, <1>3, <1>7 DEF UsesOwn, Busy, InProcess, InFlight
  <2> QED
    BY <1>4, <1>8, <2>1 DEF AgentsHave
<1> QED
  BY <1>1, <1>10, <1>11, <1>12, <1>13, <1>14, AgreeBy DEF AgreeOf, Settled

\* A step of an agent that starts from the file, stays as it is, or ends with
\* nothing under way in it.
LEMMA AgentAgree ==
    ASSUME StoredInv, OneAtATime, NEW a \in Agents, UNCHANGED <<file, os>>,
           \A c \in Clients : client'[c] = client[c] /\ req'[c] = req[c],
           \A p \in Procs \ {a} : mem'[p] = mem[p],
           \A b \in Agents \ {a} : agent'[b] = agent[b],
           agent'[a].phase # "down" =>
             \/ Loadable /\ mem'[a] = Load /\ agent[a].phase # "up"
             \/ agent[a].phase # "down" /\ mem'[a] = mem[a]
    PROVE  OneAtATime'
<1>1. /\ \A c \in Clients : Active(c)' <=> Active(c)
      /\ Loadable' <=> Loadable
      /\ Load' = Load
  BY DEF Active, Busy, InFlight, Loadable, Load
<1>2. \A c \in Clients : Alone(c)' <=> Alone(c)
  BY <1>1 DEF Alone
<1>3. \A b \in Agents \ {a} : mem'[b] = mem[b]
  BY DEF Procs
<1>4. Synced'
  <2>1. (Loadable /\ \A c \in Clients : ~At(c, "apply")) =>
          \A b \in Agents : agent[b].phase # "down" => mem[b] = Load
    BY DEF OneAtATime, Synced
  <2>2. (\A c \in Clients : ~At(c, "apply")') => \A c \in Clients : ~At(c, "apply")
    BY DEF At
  <2> QED
    BY <1>1, <1>3, <2>1, <2>2 DEF Synced
<1>5. ASSUME NEW v, AgentsHave(v)
      PROVE  /\ \A b \in Agents : agent'[b].phase # "down" => mem'[b].autostart = v
             /\ Loadable' => Load'.autostart = v
  BY <1>1, <1>3, <1>5 DEF AgentsHave
<1>6. ASSUME NEW c \in Clients, Alone(c)
      PROVE  AgreeOf(c)'
  <2>1. WriteOf(c) /\ WantOf(c) /\ FormOf(c) /\ (Ahead(c) \/ Settled(c, os))
    BY <1>6 DEF OneAtATime, AgreeOf
  <2>2. WantOf(c)' /\ (Ahead(c)' <=> Ahead(c)) /\ (FormAhead(c)' <=> FormAhead(c))
        /\ (At(c, "apply")' <=> At(c, "apply"))
    BY <2>1 DEF WantOf, Ahead, Toggles, FormAhead, InFlight, At
  <2>3. WriteOf(c)'
    <3>1. At(c, "write") => ~Loadable
      BY <2>1 DEF WriteOf, Loadable, Truncated
    <3>2. At(c, "apply") => Load = req[c].config
      <4>1. At(c, "apply") => normalized(req[c].config) = req[c].config
        BY GoodNormalized DEF StoredInv, RequestInv, At
      <4> QED
        BY <2>1, <4>1 DEF WriteOf, Load, Whole
    <3> QED
      BY <1>3, <2>1, <3>1, <3>2 DEF WriteOf, At
  <2>4. (UsesOwn(c)' <=> UsesOwn(c)) /\ mem'[c] = mem[c]
    <3>1. c \in Procs \ {a}
      BY Constants DEF Procs
    <3> QED
      BY <3>1 DEF UsesOwn, Busy, InProcess, InFlight
  <2>5. FormOf(c)'
    BY <1>5, <2>1, <2>2, <2>4 DEF FormOf, Settled, AgentsHave
  <2>6. Settled(c, os) => Settled(c, os)'
    BY <1>5, <2>4 DEF Settled, AgentsHave
  <2> QED
    BY <2>1, <2>2, <2>3, <2>5, <2>6 DEF AgreeOf
<1>7. (\A c \in Clients : ~Active(c)') => AgentsHave(os)'
  BY <1>1, <1>5 DEF OneAtATime, AgentsHave
<1> QED
  BY <1>1, <1>2, <1>4, <1>6, <1>7 DEF OneAtATime

\* The steps of an agent.
LEMMA AgentsAgree ==
    ASSUME StoredInv, OneAtATime, NEW a \in Agents, clean',
           AgentLoad(a) \/ AgentStart(a) \/ AgentRefused(a) \/ AgentKilled(a) \/ AgentStop(a)
    PROVE  OneAtATime'
<1>1. DOMAIN agent = Agents /\ IsAgent(agent[a]) /\ DOMAIN mem = Procs /\ a \in Procs
  BY DEF StoredInv, Shape, Procs
<1>2. CASE AgentLoad(a)
  <2>1. /\ \A p \in Procs \ {a} : mem'[p] = mem[p]
        /\ \A b \in Agents \ {a} : agent'[b] = agent[b]
        /\ mem'[a] = Load
    BY <1>1, <1>2 DEF AgentLoad
  <2>2. UNCHANGED <<file, os, client, req>> /\ Loadable /\ agent[a].phase # "up"
    BY <1>2 DEF AgentLoad
  <2> QED
    BY <2>1, <2>2, AgentAgree
<1>3. CASE AgentStart(a)
  <2>1. \A b \in Agents \ {a} : agent'[b] = agent[b]
    BY <1>1, <1>3 DEF AgentStart
  <2>2. UNCHANGED <<file, os, client, req, mem>> /\ agent[a].phase = "loaded"
    BY <1>3 DEF AgentStart
  <2> QED
    BY <2>1, <2>2, AgentAgree
<1>4. CASE AgentRefused(a)
  <2>1. /\ \A p \in Procs \ {a} : mem'[p] = mem[p]
        /\ \A b \in Agents \ {a} : agent'[b] = agent[b]
        /\ agent'[a].phase = "down"
    BY <1>1, <1>4 DEF AgentRefused, IsAgent, AgentFields
  <2>2. UNCHANGED <<file, os, client, req>>
    BY <1>4 DEF AgentRefused
  <2> QED
    BY <2>1, <2>2, AgentAgree
<1>5. CASE AgentKilled(a) \/ AgentStop(a)
  <2>1. /\ \A b \in Agents \ {a} : agent'[b] = agent[b]
        /\ agent'[a].phase = "down"
    BY <1>1, <1>5 DEF AgentKilled, AgentStop
  <2>2. Gone(a) /\ UNCHANGED <<file, os>>
    BY <1>5 DEF AgentKilled, AgentStop
  <2>3. \A c \in Clients : ~RunsIn(c, a) /\ ~(req[c].exec = a /\ InFlight(c)) /\ c # a
    BY <2>2 DEF Gone
  <2>4. /\ \A c \in Clients : client'[c] = client[c] /\ req'[c] = req[c]
        /\ \A p \in Procs \ {a} : mem'[p] = mem[p]
    BY <1>1, <2>2, <2>3, GoneEffect
  <2> QED
    BY <2>1, <2>2, <2>4, AgentAgree
<1> QED
  BY <1>2, <1>3, <1>4, <1>5

\* The steps of a client's program run while nobody else is active.
LEMMA ClientsAgree ==
    ASSUME StoredInv, OneAtATime, NEW c \in Clients, clean',
           ClientStep(c) \/ TimesOut(c) \/ OsFails(c)
    PROVE  OneAtATime'
<1>1. Busy(c)
  <2>1. CASE Refused(c)
    BY <2>1 DEF Refused, CommandOf, Busy
  <2>2. CASE SetOs(c) \/ Get(c) \/ GuiApply(c) \/ GuiRollback(c) \/ Export(c)
    BY <2>2 DEF SetOs, Get, GuiApply, GuiRollback, Export, Busy
  <2>3. CASE Preview(c) \/ Confirm(c) \/ Query(c) \/ Submit(c) \/ Reply(c) \/ TimesOut(c)
               \/ OsFails(c)
    BY <2>3 DEF Preview, Confirm, Query, Submit, Reply, TimesOut, OsFails, Busy
  <2> QED
    BY <2>1, <2>2, <2>3 DEF ClientStep
<1>2. Alone(c) /\ AgreeOf(c) /\ Synced
  BY <1>1, ActiveAlone DEF Active
<1>3. CASE Refused(c) \/ SetOs(c) \/ Get(c) \/ GuiApply(c) \/ GuiRollback(c)
  BY <1>2, <1>3, RefusedAgree, SetOsAgree, GetAgree, GuiApplyAgree, GuiRollbackAgree
<1>4. CASE Export(c) \/ Query(c) \/ Preview(c) \/ Confirm(c)
  BY <1>2, <1>4, ReadsAgree, PreviewAgree
<1>5. CASE Submit(c) \/ Reply(c) \/ TimesOut(c) \/ OsFails(c)
  BY <1>2, <1>5, SubmitAgree, ReplyAgree, TimesOutAgree, OsFailsAgree
<1> QED
  BY <1>3, <1>4, <1>5 DEF ClientStep

\* So do the steps of a request.
LEMMA RequestsAgree ==
    ASSUME StoredInv, ExportInv, OneAtATime, NEW c \in Clients, clean', Execute(c) \/ SaveFails(c)
    PROVE  OneAtATime'
<1>1. InFlight(c)
  BY DEF Execute, ImportRead, ImportMerge, SaveBegin, SaveRejected, SaveWrite, SaveApply,
         SaveFails, InFlight, At
<1>2. Alone(c) /\ AgreeOf(c) /\ Synced
  BY <1>1, ActiveAlone DEF Active
<1>3. CASE SaveRejected(c) \/ SaveFails(c)
  <2>1. /\ req[c].stage \in {"begin", "write"} /\ req' = Go(c, "err")
        /\ UNCHANGED <<file, mem, agent, os, client>>
    BY <1>3 DEF SaveRejected, SaveFails, At, world
  <2> QED
    BY <1>2, <2>1, FailsAgree
<1>4. CASE ImportRead(c) \/ ImportMerge(c) \/ SaveBegin(c) \/ SaveWrite(c) \/ SaveApply(c)
  BY <1>2, <1>4, ImportReadAgree, ImportMergeAgree, SaveBeginAgree, SaveWriteAgree, SaveApplyAgree
<1> QED
  BY <1>3, <1>4 DEF Execute

\* Nothing makes a history clean again.
LEMMA StaysClean ==
    ASSUME [Next]_vars, clean'
    PROVE  clean
<1>1. ASSUME NEW a \in Agents,
             AgentLoad(a) \/ AgentStart(a) \/ AgentRefused(a) \/ AgentKilled(a) \/ AgentStop(a)
      PROVE  clean
  BY <1>1 DEF AgentLoad, AgentStart, AgentRefused, AgentKilled, AgentStop, Gone
<1>2. ASSUME NEW c \in Clients,
             Start(c) \/ TimesOut(c) \/ OsFails(c) \/ ClientKilled(c) \/ Execute(c) \/ SaveFails(c)
      PROVE  clean
  <2>1. CASE Start(c) \/ TimesOut(c) \/ OsFails(c) \/ ClientKilled(c)
    BY <2>1 DEF Start, TimesOut, OsFails, ClientKilled, Gone
  <2>2. CASE Execute(c) \/ SaveFails(c)
    BY <2>2 DEF Execute, ImportRead, ImportMerge, SaveBegin, SaveRejected, SaveWrite, SaveApply,
                SaveFails
  <2> QED
    BY <1>2, <2>1, <2>2
<1>3. ASSUME NEW c \in Clients, ClientStep(c)
      PROVE  clean
  <2>1. CASE Refused(c) \/ SetOs(c) \/ Get(c) \/ GuiApply(c) \/ GuiRollback(c)
    BY <2>1 DEF Refused, SetOs, Get, GuiApply, GuiRollback
  <2>2. CASE Export(c) \/ Preview(c) \/ Confirm(c) \/ Query(c) \/ Submit(c) \/ Reply(c)
    BY <2>2 DEF Export, Preview, Confirm, Query, Submit, Reply
  <2> QED
    BY <1>3, <2>1, <2>2 DEF ClientStep
<1>4. CASE UNCHANGED vars
  BY <1>4 DEF vars
<1> QED
  BY <1>1, <1>2, <1>3, <1>4 DEF Next

\* AgreeInv is inductive.
LEMMA AgreeStep ==
    ASSUME StoredInv, ExportInv, AgreeInv, [Next]_vars
    PROVE  AgreeInv'
<1> SUFFICES ASSUME clean'
             PROVE  OneAtATime'
  BY DEF AgreeInv
<1>1. OneAtATime
  BY StaysClean DEF AgreeInv
<1>2. ASSUME NEW a \in Agents,
             AgentLoad(a) \/ AgentStart(a) \/ AgentRefused(a) \/ AgentKilled(a) \/ AgentStop(a)
      PROVE  OneAtATime'
  BY <1>1, <1>2, AgentsAgree
<1>3. ASSUME NEW c \in Clients, Start(c)
      PROVE  OneAtATime'
  BY <1>1, <1>3, StartAgree
<1>4. ASSUME NEW c \in Clients, ClientStep(c) \/ TimesOut(c) \/ OsFails(c)
      PROVE  OneAtATime'
  BY <1>1, <1>4, ClientsAgree
<1>5. ASSUME NEW c \in Clients, Execute(c) \/ SaveFails(c)
      PROVE  OneAtATime'
  BY <1>1, <1>5, RequestsAgree
<1>6. ASSUME NEW c \in Clients, ClientKilled(c)
      PROVE  FALSE
  BY <1>6 DEF ClientKilled, Gone
<1>7. CASE UNCHANGED vars
  <2>1. UNCHANGED <<file, mem, agent, os, client, req>>
    BY <1>7 DEF vars
  <2> QED
    BY <1>1, <2>1 DEF OneAtATime, Active, Busy, InFlight, Alone, Synced, AgreeOf, WriteOf, WantOf,
        FormOf, Ahead, Toggles, FormAhead, Settled, AgentsHave, UsesOwn, InProcess, Loadable, Load, At
<1> QED
  BY <1>2, <1>3, <1>4, <1>5, <1>6, <1>7 DEF Next

\* The system starts with no file, the default configuration and no autostart.
LEMMA AgreeInit == Init => AgreeInv
<1> SUFFICES ASSUME Init
             PROVE  OneAtATime
  BY DEF AgreeInv
<1>1. \A c \in Clients : ~Active(c)
  BY DEF Init, Active, Busy, InFlight, NoCommand, NoRequest
<1>2. Synced /\ AgentsHave(os)
  <2>1. \A a \in Agents : agent[a].phase = "down"
    BY DEF Init
  <2>2. DefaultConfig.autostart = FALSE
    BY DEF DefaultConfig
  <2>3. Load = DefaultConfig /\ os = FALSE
    BY DEF Init, Load
  <2>4. Load.autostart = os
    BY <2>2, <2>3, Zenon
  <2> QED
    BY <2>1, <2>4 DEF Synced, AgentsHave
<1>3. \A c \in Clients : AgreeOf(c)
  BY <1>1, <1>2, Inactive DEF AgreeOf, Settled
<1> QED
  BY <1>1, <1>2, <1>3 DEF OneAtATime

\* With one command at a time, once none is under way, the file, every running agent
\* and the system's autostart agree, however many processes and commands there are.
THEOREM OneCommandAtATimeAgrees == ManagementSpec => []StateAgrees
<1>1. StoredInv /\ ExportInv /\ AgreeInv /\ [Next]_vars => StoredInv' /\ ExportInv' /\ AgreeInv'
  BY StoredStep, ExportStep, AgreeStep
<1>2. AgreeInv => StateAgrees
  <2> SUFFICES ASSUME AgreeInv, Quiet, clean, Loadable
               PROVE  /\ Load.autostart = os
                      /\ \A a \in Agents : Up(a) => mem[a] = Load
    BY DEF StateAgrees
  <2>1. \A c \in Clients : ~Active(c) /\ ~At(c, "apply")
    BY DEF Quiet, Active, Busy, InFlight, At
  <2>2. Synced /\ AgentsHave(os)
    BY <2>1 DEF AgreeInv, OneAtATime
  <2> QED
    BY <2>1, <2>2 DEF Synced, AgentsHave, Up
<1> QED
  BY StoredInit, AgreeInit, <1>1, <1>2, PTL DEF ManagementSpec
=============================================================================
