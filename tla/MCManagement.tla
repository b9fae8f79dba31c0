---------------------------- MODULE MCManagement ----------------------------
(* Management with two agents and two commands, one of each kind at least.  *)
EXTENDS Management, TLC

CONSTANTS a1, a2, c1, c2

Cli(command, value) == [kind |-> "edit", op |-> [cmd |-> command, arg |-> value]]

Gui(values) == [kind |-> "gui", agent |-> a1, form |-> values]

Ask(command) == [kind |-> "query", cmd |-> command]

Move(how, fields, secret) ==
    [kind |-> how, only |-> fields, password |-> secret, interactive |-> TRUE,
     password_file |-> FALSE, allow_empty |-> FALSE, preview |-> FALSE, yes |-> FALSE]

MCInvocations ==
    c1 :> {Cli("service", 20000), Cli("service", 80), Cli("ip add", Junk), Cli("interval", 1),
           Move("import", {}, "pw"), Gui([autostart |-> TRUE, interval |-> 1]),
           Gui([port |-> 80]), Gui([ips |-> {Blank, Ip(0)}]), Gui([origins |-> {"junk"}]),
           [kind |-> "autostart", arg |-> TRUE]}
    @@ c2 :> {Move("export", {"ips"}, "pw"), [kind |-> "tray", agent |-> a1], Ask("Status")}

\* A file from another machine.
MCExports ==
    {encrypt_payload([port |-> 80, token |-> "blank", ips |-> {Net(2, 1)}], "pw", 1)}
=============================================================================
