--------------------------- MODULE ConfigTransfer ---------------------------
(***************************************************************************)
(* The agent's configuration and what the commands do to it: the rules of  *)
(* save_config (crates/core/src/config.rs, crates/runtime/src/state.rs),   *)
(* the encrypted export and import (crates/cli/src/config_transfer.rs) and *)
(* the edits of the command line (crates/cli/src/parser.rs).               *)
(***************************************************************************)
EXTENDS IpWhitelist, FiniteSets

CONSTANT None   \* Option::None

MinPort == 10000       \* MIN_SERVICE_PORT
MaxPort == 65535       \* MAX_SERVICE_PORT
MinInterval == 3       \* MIN_REMOTE_POLL_INTERVAL_SECONDS
MinRetries == 1        \* MIN_REMOTE_MAX_REPORT_RETRIES

\* The fields an export may carry, and the others the commands change.
TransferFields ==
    {"port", "origins", "ips", "enabled", "endpoint", "token", "interval", "retries"}
LocalFields == {"printer", "paper", "device", "autostart", "language"}

\* Option<String> fields: absent, white space, or a text that parses or does not.
Endpoints == {None, "blank", "http", "ftp", "junk"}
Tokens == {None, "blank", "token"}
Origins == {"origin", "junk"}

AgentConfig ==
    [port: Nat, origins: SUBSET Origins, ips: SUBSET Entries, enabled: BOOLEAN,
     endpoint: Endpoints, token: Tokens, interval: Nat, retries: Nat,
     printer: {None, "printer"}, paper: {None, "paper"}, device: {None, "device"},
     autostart: BOOLEAN, language: {"zh-CN", "en"}]

DefaultConfig ==
    [port |-> 17890, origins |-> {}, ips |-> {Loopback}, enabled |-> FALSE,
     endpoint |-> None, token |-> None, interval |-> 10, retries |-> 10,
     printer |-> None, paper |-> None, device |-> None,
     autostart |-> FALSE, language |-> "zh-CN"]

\* The host field, always reset to 127.0.0.1, is left out.
normalized(c) == [c EXCEPT !.ips = normalize_allowed_ips(@)]

ValidOrigin(o) == o # "junk"

\* MUTANT: the poll interval is not checked.
Saveable_AnyInterval(c) ==
    /\ \A o \in c.origins : ValidOrigin(o)
    /\ \A e \in c.ips : ValidEntry(e)
    /\ c.retries >= MinRetries

\* What AgentState::save_config accepts.
Saveable(c) ==
    /\ \A o \in c.origins : ValidOrigin(o)
    /\ \A e \in c.ips : ValidEntry(e)
    /\ c.interval >= MinInterval
    /\ c.retries >= MinRetries
-----------------------------------------------------------------------------
(* Export and import *)

\* ExportConfigOptions: the fields to write, all of them by default.
export_options(only) == IF only = {} THEN TransferFields ELSE only

\* A payload is the part of a configuration it carries: a field that is not
\* selected is absent, one that is selected may be null.
build_transfer_payload(c, options) == [f \in options |-> c[f]]

\* The file: `hash` is its content hash, new for each export because salt and
\* nonce are random: the number of the export, from 1 on.
encrypt_payload(payload, password, hash) ==
    [payload |-> payload, password |-> password, hash |-> hash]

\* No file.
NoExport == encrypt_payload(<<>>, "", 0)

\* A wrong password and a damaged file give the same error.
Decrypts(file, password) == file.hash # NoExport.hash /\ file.password = password

FieldAccepted(f, v) ==
    CASE f = "port" -> v > 0
      [] f = "origins" -> \A o \in v : ValidOrigin(o)
      [] f = "ips" -> \A e \in v : ValidEntry(e)
      [] f = "endpoint" -> v \in {None, "blank", "http"}
      [] f = "interval" -> v >= MinInterval
      [] f = "retries" -> v >= MinRetries
      [] OTHER -> TRUE

Mergeable(payload) == \A f \in DOMAIN payload : FieldAccepted(f, payload[f])

normalize_endpoint_url(v) == IF v = "blank" THEN None ELSE v

\* A null or blank token in the file keeps the current one.
merge_payload(current, payload) ==
    normalized([f \in DOMAIN current |->
        IF f \notin DOMAIN payload THEN current[f]
        ELSE CASE f = "token" /\ payload[f] \in {None, "blank"} -> current[f]
               [] f = "endpoint" -> normalize_endpoint_url(payload[f])
               [] OTHER -> payload[f]])

\* What the preview shows for a field: lists by their length, the token only by
\* whether the file has one.
Display(f, c, payload) ==
    CASE f \in {"origins", "ips"} -> Cardinality(c[f])
      [] f = "token" -> payload[f] \notin {None, "blank"}
      [] OTHER -> c[f]

preview_payload(current, payload) ==
    [f \in DOMAIN payload |-> Display(f, merge_payload(current, payload), payload)]
-----------------------------------------------------------------------------
(* Edits: the configurations a command may go on to save, none if it refuses *)

service_config(c, port, free) ==
    {n \in {[c EXCEPT !.port = port]} :
        port \in MinPort .. MaxPort /\ (port # c.port => free)}

ip_add(c, e) == {n \in {normalized([c EXCEPT !.ips = @ \cup {e}])} : ValidEntry(e)}

ip_delete(c, e) == {n \in {normalized([c EXCEPT !.ips = @ \ {e}])} : e # Loopback}

origin_add(c, o) == {n \in {[c EXCEPT !.origins = @ \cup {o}]} : ValidOrigin(o)}

origin_delete(c, o) == {[c EXCEPT !.origins = @ \ {o}]}

printer_set_default(c, p) == {[c EXCEPT !.printer = p]}

\* `p` is None for dimensions that are not positive finite numbers.
paper_set(c, p) == {n \in {[c EXCEPT !.paper = p]} : p # None}

remote_set(c, f, v) ==
    {n \in {[c EXCEPT ![f] = v]} :
        /\ f = "endpoint" => v = "http"
        /\ f = "retries" => v >= MinRetries}

set_language(c, v) == {n \in {[c EXCEPT !.language = v]} : v \in {"zh-CN", "en"}}

\* One command line: the field it is about, and the value or the change to it.
Edit(c, op, free) ==
    CASE op.cmd = "service" -> service_config(c, op.arg, free)
      [] op.cmd = "ip add" -> ip_add(c, op.arg)
      [] op.cmd = "ip delete" -> ip_delete(c, op.arg)
      [] op.cmd = "origin add" -> origin_add(c, op.arg)
      [] op.cmd = "origin delete" -> origin_delete(c, op.arg)
      [] op.cmd = "printer" -> printer_set_default(c, op.arg)
      [] op.cmd = "paper" -> paper_set(c, op.arg)
      [] op.cmd = "app" -> set_language(c, op.arg)
      [] OTHER -> remote_set(c, op.cmd, op.arg)
=============================================================================
