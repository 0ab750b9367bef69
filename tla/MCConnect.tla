----------------------------- MODULE MCConnect ------------------------------
(* Handshakes for TLC: every mode, plugin, path of logins, cipher and      *)
(* protocol, in the combinations that the client can finish.               *)
EXTENDS Connect

Options(mode, plugin, crypt, zip) ==
    [mode |-> mode, pluginName |-> plugin, wireCrypt |-> crypt, wireCompression |-> zip,
     isPool |-> FALSE]

Server(path, keys) ==
    [new |-> TRUE, path |-> path, ok |-> TRUE, proof |-> TRUE, final |-> "op_response",
     later |-> FALSE, iv |-> TRUE, keys |-> keys, zip |-> FALSE, required |-> FALSE,
     key |-> FALSE, exists |-> TRUE, busy |-> FALSE]

Modes == {"attach", "attachOrCreate", "create", "service", "drop"}
Paths == {<<"Srp512">>, <<"Srp512", "Srp">>, <<"Srp512", "Legacy_Auth">>, <<"Srp">>,
          <<"Srp", "Srp512">>, <<"Legacy_Auth">>}
Case(asked, of) == [options |-> asked, server |-> of]

(* Encrypted: every mode, path and cipher, databases that are missing, are *)
(* encrypted themselves, logins that fail.                                 *)
Encrypting ==
    {Case(Options(mode, "", TRUE, FALSE),
          [Server(path, keys) EXCEPT !.ok = ok, !.exists = exists, !.final = final,
              !.required = TRUE, !.key = (final = "op_accept"), !.proof = (final = "op_accept")]) :
        mode \in Modes, path \in Paths, keys \in {{"Arc4"}, {"Arc4", "ChaCha64"}},
        ok \in BOOLEAN, exists \in BOOLEAN, final \in {"op_accept", "op_response"}}

(* In the clear; the login goes with the handshake or with the attach.     *)
Clear ==
    {Case(Options(mode, plugin, FALSE, FALSE),
          [Server(path, {}) EXCEPT !.new = new, !.ok = ok, !.later = later]) :
        mode \in {"attach", "service"}, plugin \in {"", "Srp512", "Legacy_Auth"},
        path \in Paths, new \in BOOLEAN, ok \in BOOLEAN, later \in BOOLEAN}
Finishes(case) ==
    case.server.later =>
        /\ case.server.path # <<"Srp512", "Srp">>
        /\ case.options.pluginName # "" => Len(case.server.path) = 1

(* Encryption is insisted on where there may be no key to encrypt with.    *)
Insisting ==
    {Case(Options("attach", plugin, TRUE, FALSE),
          [Server(path, {"ChaCha64"}) EXCEPT !.new = new, !.required = TRUE]) :
        plugin \in {"", "Legacy_Auth"}, path \in {<<"Srp512">>, <<"Legacy_Auth">>},
        new \in BOOLEAN}

(* Of a pool, which does not reconnect, with and without an IV.            *)
Pooled == {Case([Options("attach", "", TRUE, FALSE) EXCEPT !.isPool = TRUE],
                [Server(<<"Srp512">>, {"ChaCha64"}) EXCEPT !.iv = iv]) : iv \in BOOLEAN}

(* Compressed, with the cipher that is switched on later, if any.          *)
Compressing ==
    {Case(Options(mode, "", crypt, TRUE), [Server(path, {"ChaCha64"}) EXCEPT !.zip = zip]) :
        mode \in Modes, crypt \in BOOLEAN, zip \in BOOLEAN,
        path \in {<<"Srp512">>, <<"Srp512", "Legacy_Auth">>}}

(* A database in use, which the server does not drop.                      *)
InUse == {Case(Options("drop", "", crypt, FALSE),
               [Server(<<"Srp512">>, {"ChaCha64"}) EXCEPT !.busy = TRUE, !.exists = exists]) :
             crypt \in BOOLEAN, exists \in BOOLEAN}

AllCases ==
    Encrypting \cup {case \in Clear : Finishes(case)} \cup Insisting \cup Pooled
    \cup Compressing \cup InUse

ASSUME CasesFit == CompressionFits

AllPhases == {"handshake", "attaching", "attached"}
=============================================================================
