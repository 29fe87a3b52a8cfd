--------------------------------- MODULE Desktop ---------------------------------
(***************************************************************************)
(* The desktop application (src/desktop/src-tauri/src/lib.rs): it runs the *)
(* transparent proxy as a task it can stop and start again, shows its      *)
(* audit records, keeps a certificate authority on disk (src/mitm/ca.rs)   *)
(* and points the system's proxy settings at itself (src/platform.rs)      *)
(* until it exits.  It may be killed at any moment.                        *)
(*                                                                         *)
(* Each start is a run with its own task, audit ring and pump.  The        *)
(* commands that change the system run one after the other on threads of   *)
(* their own.  Of one life of the program either the runs or the system    *)
(* commands are followed ("panel"): they share no state but its exit.      *)
(***************************************************************************)
EXTENDS Naturals, Sequences, FiniteSets

SE == INSTANCE SequencesExt

CONSTANTS
    MaxStarts,      \* bound: calls of start_proxy
    MaxRecords,     \* bound: records of one run
    RingCapacity,   \* of the audit store of a run
    MaxCalls,       \* bound: set_system_proxy and clear_system_proxy
    Oses,           \* the platforms
    None

ASSUME DesktopAssumption ==
    /\ MaxStarts \in Nat /\ MaxRecords \in Nat /\ MaxCalls \in Nat
    /\ RingCapacity \in Nat \ {0}
    /\ Oses \subseteq {"macos", "windows", "linux"}
    /\ None \notin Nat

Runs == 1..MaxStarts

VARIABLES
    panel,          \* "proxy" or "system": what the user works with
    app,            \* "up", "exiting" or "down"
    handle,         \* ProxyHandle: the run whose senders it holds, or None
    runs,           \* per start the state of its task
    pumps,          \* per start its audit ring, pump and what the UI was shown
    key, cert,      \* the CA files: the generation of their content
    protected,      \* the key file has mode 0600
    overlapped,     \* history: two tasks were loading or making the CA at once
    os, settings,   \* the platform and its proxy settings
    calls,          \* the system commands in progress or done
    engaged,        \* Shared::proxy_engaged
    disturbed       \* history: no change of the settings went undisturbed
                    \* since a command failed, two overlapped, or a kill

proxyVars  == <<handle, runs, pumps, key, cert, protected, overlapped>>
systemVars == <<os, settings, calls, engaged, disturbed>>
vars == <<panel, app, proxyVars, systemVars>>

Torn == 0           \* the content of a file whose writer was killed

--------------------------------------------------------------------------------
(* Starting and stopping the proxy                                          *)

NoRun  == [stage |-> "none", stop |-> FALSE, key |-> None, cert |-> None]
NoPump == [stage |-> "none", ring |-> <<>>, total |-> 0, cursor |-> 0, from |-> 0,
           shown |-> <<>>]

Loading == {"spawned", "key_read", "generated", "key_written", "key_protected"}

started == {n \in Runs : runs[n].stage # "none"}

\* A second start is refused; build_state failing changes nothing.
start_proxy ==
    LET n == Cardinality(started) + 1
    IN  /\ panel = "proxy"
        /\ app = "up"
        /\ handle = None
        /\ n \in Runs
        /\ handle' = n
        /\ runs' = [runs EXCEPT ![n].stage = "spawned"]
        /\ pumps' = [pumps EXCEPT ![n].stage = "spawned"]
        /\ overlapped' = (overlapped \/ \E m \in Runs : runs[m].stage \in Loading)
        /\ UNCHANGED <<panel, app, key, cert, protected, systemVars>>

\* Both senders are taken and used.
Stopped == IF handle = None THEN runs ELSE [runs EXCEPT ![handle].stop = TRUE]

\* Mutant: only the pump is told to stop.
stop_proxy_pump_only ==
    /\ app = "up"
    /\ handle # None
    /\ handle' = None
    /\ pumps' = [pumps EXCEPT ![handle].stage = "off"]
    /\ UNCHANGED <<panel, app, runs, key, cert, protected, overlapped, systemVars>>

stop_proxy ==
    /\ app = "up"
    /\ handle # None
    /\ runs' = Stopped
    /\ handle' = None
    /\ pumps' = [pumps EXCEPT ![handle].stage = "off"]
    /\ UNCHANGED <<panel, app, key, cert, protected, overlapped, systemVars>>

--------------------------------------------------------------------------------
(* run_proxy: load_or_create_ca, then the listener                          *)

Become(n, stage) == runs' = [runs EXCEPT ![n].stage = stage]
KeepFiles == UNCHANGED <<key, cert, protected>>
KeepRest  == UNCHANGED <<panel, app, handle, pumps, overlapped, systemVars>>

\* The CA is read if both files exist, and generated otherwise.
load_or_create_ca(n) ==
    /\ runs[n].stage = "spawned"
    /\ IF key # None /\ cert # None
       THEN runs' = [runs EXCEPT ![n].stage = "key_read", ![n].key = key]
       ELSE runs' = [runs EXCEPT ![n].stage = "generated", ![n].key = n, ![n].cert = n]
    /\ KeepFiles /\ KeepRest

\* The certificate follows; a torn one cannot be parsed.  That it belongs to
\* the key is not checked.
read_cert(n) ==
    /\ runs[n].stage = "key_read"
    /\ runs' = [runs EXCEPT ![n].stage = IF cert = Torn THEN "failed" ELSE "loaded",
                            ![n].cert = cert]
    /\ KeepFiles /\ KeepRest

\* write_protected: a new file has the mode of the umask, an old one keeps its.
write_key(n) ==
    /\ runs[n].stage = "generated"
    /\ Become(n, "key_written")
    /\ key' = runs[n].key
    /\ UNCHANGED <<cert, protected>> /\ KeepRest

\* Mutant: the permissions are left to the umask.
keep_permissions(n) ==
    /\ runs[n].stage = "key_written"
    /\ Become(n, "key_protected")
    /\ KeepFiles /\ KeepRest

set_permissions(n) ==
    /\ runs[n].stage = "key_written"
    /\ Become(n, "key_protected")
    /\ protected' = TRUE
    /\ UNCHANGED <<key, cert>> /\ KeepRest

write_cert(n) ==
    /\ runs[n].stage = "key_protected"
    /\ Become(n, "loaded")
    /\ cert' = runs[n].cert
    /\ UNCHANGED <<key, protected>> /\ KeepRest

\* Another program has the port, or a file operation fails: the task ends and
\* the handle keeps its senders.
run_fails(n) ==
    /\ runs[n].stage \in Loading \cup {"loaded"}
    /\ Become(n, "failed")
    /\ KeepFiles /\ KeepRest

\* Proxy::start, while an earlier run may still hold the port.
bind(n) ==
    /\ runs[n].stage = "loaded"
    /\ Become(n, IF \E m \in Runs : runs[m].stage = "serving" THEN "failed" ELSE "serving")
    /\ KeepFiles /\ KeepRest

\* The shutdown future resolves and the connections end.
graceful_shutdown(n) ==
    /\ runs[n].stage = "serving"
    /\ runs[n].stop
    /\ Become(n, "ended")
    /\ KeepFiles /\ KeepRest

--------------------------------------------------------------------------------
(* The audit pump                                                           *)

\* AuditStore::push.
push(p) ==
    LET longer == Append(p.ring, p.total + 1)
    IN  [p EXCEPT !.total = p.total + 1,
                  !.ring = IF Len(longer) > RingCapacity THEN Tail(longer) ELSE longer]

emit(n) ==
    /\ runs[n].stage = "serving"
    /\ pumps[n].total < MaxRecords
    /\ pumps' = [pumps EXCEPT ![n] = push(pumps[n])]
    /\ UNCHANGED <<panel, app, handle, runs, key, cert, protected, overlapped, systemVars>>

\* The first poll of the pump's task, whenever that is.
pump_begins(n) ==
    /\ pumps[n].stage = "spawned"
    /\ pumps' = [pumps EXCEPT ![n].stage = "on", ![n].cursor = Len(pumps[n].ring),
                              ![n].from = pumps[n].total]
    /\ UNCHANGED <<panel, app, handle, runs, key, cert, protected, overlapped, systemVars>>

\* Mutant: a tick shows the newest record only.
show_newest(p) ==
    IF Len(p.ring) <= p.cursor THEN [p EXCEPT !.cursor = Len(p.ring)]
    ELSE [p EXCEPT !.shown = Append(p.shown, SE!Last(p.ring)), !.cursor = Len(p.ring)]

\* The cursor is a position in the ring, not a record: once the ring is full
\* its length no longer grows.
show_new(p) ==
    IF Len(p.ring) < p.cursor THEN [p EXCEPT !.cursor = Len(p.ring)]
    ELSE [p EXCEPT !.shown = p.shown \o SubSeq(p.ring, p.cursor + 1, Len(p.ring)),
                   !.cursor = Len(p.ring)]

tick(n) ==
    /\ pumps[n].stage = "on"
    /\ pumps' = [pumps EXCEPT ![n] = show_new(pumps[n])]
    /\ UNCHANGED <<panel, app, handle, runs, key, cert, protected, overlapped, systemVars>>

--------------------------------------------------------------------------------
(* The system's settings                                                    *)

Unset == [https |-> "off", http |-> "off", server |-> "off", enable |-> "off",
          mode |-> "none", ca_file |-> "off", trust |-> "off"]

Command(k, v, e) == [key |-> k, value |-> v, elevated |-> e]

\* A host and its port count as one setting.
set_proxy_commands ==
    [macos   |-> <<Command("https", "us", TRUE), Command("http", "us", TRUE)>>,
     windows |-> <<Command("server", "us", FALSE), Command("enable", "on", FALSE)>>,
     linux   |-> <<Command("mode", "manual", FALSE), Command("http", "us", FALSE),
                   Command("https", "us", FALSE)>>]

clear_proxy_commands ==
    [macos   |-> <<Command("https", "off", TRUE), Command("http", "off", TRUE)>>,
     windows |-> <<Command("enable", "off", FALSE)>>,
     linux   |-> <<Command("mode", "none", FALSE)>>]

\* On Linux the trust store is rebuilt from the directory.
install_ca_commands ==
    [macos   |-> <<Command("trust", "us", TRUE)>>,
     windows |-> <<Command("trust", "us", TRUE)>>,
     linux   |-> <<Command("ca_file", "us", TRUE), Command("trust", "ca_file", TRUE)>>]

uninstall_ca_commands ==
    [macos   |-> <<Command("trust", "off", TRUE)>>,
     windows |-> <<Command("trust", "off", TRUE)>>,
     linux   |-> <<Command("ca_file", "off", TRUE), Command("trust", "ca_file", TRUE)>>]

commands_of(kind) ==
    CASE kind = "set"       -> set_proxy_commands[os]
      [] kind = "clear"     -> clear_proxy_commands[os]
      [] kind = "install"   -> install_ca_commands[os]
      [] kind = "uninstall" -> uninstall_ca_commands[os]
      [] kind = "exit"      -> IF engaged THEN clear_proxy_commands[os] ELSE <<>>

effect(c) ==
    [settings EXCEPT ![c.key] = IF c.value = "ca_file" THEN settings.ca_file ELSE c.value]

UsesUs ==
    CASE os = "macos"   -> settings.https = "us" \/ settings.http = "us"
      [] os = "windows" -> settings.server = "us" /\ settings.enable = "on"
      [] os = "linux"   -> settings.mode = "manual"
                           /\ (settings.http = "us" \/ settings.https = "us")

--------------------------------------------------------------------------------
(* run_specs: the commands of one call, one after the other                 *)

Slots  == 1..(MaxCalls + 1)
NoCall == [kind |-> "none", left |-> <<>>, stage |-> "none", clean |-> FALSE]

Active(i) == calls[i].stage \in {"running", "orphan"}

\* The calls that change the proxy settings; of two at once neither is clean.
OfProxy(kind) == kind \in {"set", "clear", "exit"}
Overlaps(kind) == OfProxy(kind) /\ \E i \in Slots : Active(i) /\ OfProxy(calls[i].kind)

WithCall(i, kind) ==
    [j \in Slots |->
        IF j = i THEN [kind |-> kind, left |-> commands_of(kind), stage |-> "running",
                       clean |-> ~Overlaps(kind)]
        ELSE [calls[j] EXCEPT !.clean = calls[j].clean /\ ~OfProxy(kind)]]

KeepProxy == UNCHANGED <<panel, proxyVars>>

begin(kind) ==
    LET i == Cardinality({j \in 1..MaxCalls : calls[j].stage # "none"}) + 1
    IN  /\ panel = "system"
        /\ app = "up"
        /\ i <= MaxCalls
        /\ calls' = WithCall(i, kind)
        /\ disturbed' = (disturbed \/ Overlaps(kind))
        /\ UNCHANGED <<app, os, settings, engaged>> /\ KeepProxy

set_system_proxy   == begin("set")
clear_system_proxy == begin("clear")
install_ca         == begin("install")
uninstall_ca       == begin("uninstall")

command_succeeds(i) ==
    /\ Active(i)
    /\ calls[i].left # <<>>
    /\ settings' = effect(Head(calls[i].left))
    /\ calls' = [calls EXCEPT ![i].left = Tail(calls[i].left)]
    /\ UNCHANGED <<app, os, engaged, disturbed>> /\ KeepProxy

\* platform::run returns the output of a command that ran and failed, and
\* nobody looks at its status; Start-Process does not tell it either.
exit_ignored(c) == ~c.elevated \/ os = "windows"

command_fails(i) ==
    /\ Active(i)
    /\ calls[i].left # <<>>
    /\ calls' = [calls EXCEPT ![i].left = IF exit_ignored(Head(calls[i].left))
                                          THEN Tail(calls[i].left) ELSE <<>>,
                              ![i].stage = IF exit_ignored(Head(calls[i].left))
                                           THEN calls[i].stage ELSE "failed",
                              ![i].clean = FALSE]
    /\ disturbed' = (disturbed \/ OfProxy(calls[i].kind))
    /\ UNCHANGED <<app, os, settings, engaged>> /\ KeepProxy

\* The program or the elevation helper is missing, or the prompt is cancelled.
not_run(i) ==
    /\ calls[i].stage = "running"
    /\ calls[i].left # <<>>
    /\ calls' = [calls EXCEPT ![i].left = <<>>, ![i].stage = "failed", ![i].clean = FALSE]
    /\ disturbed' = (disturbed \/ OfProxy(calls[i].kind))
    /\ UNCHANGED <<app, os, settings, engaged>> /\ KeepProxy

Ending(i) ==
    /\ Active(i)
    /\ calls[i].left = <<>>
    /\ calls[i].kind = "exit" => calls[i].stage = "orphan"

\* Mutant: setting the proxy does not tell teardown about it.
finish_untold(i) ==
    /\ Ending(i)
    /\ calls' = [calls EXCEPT ![i].stage = "done"]
    /\ engaged' = IF calls[i].kind = "clear" THEN FALSE ELSE engaged
    /\ disturbed' = (disturbed /\ ~(calls[i].clean /\ OfProxy(calls[i].kind)))
    /\ UNCHANGED <<app, os, settings>> /\ KeepProxy

\* The flag follows the last command of a call that reported no error.
finish(i) ==
    /\ Ending(i)
    /\ calls' = [calls EXCEPT ![i].stage = "done"]
    /\ engaged' = CASE calls[i].stage = "orphan" -> engaged
                    [] calls[i].kind = "set"     -> TRUE
                    [] calls[i].kind = "clear"   -> FALSE
                    [] OTHER                     -> engaged
    /\ disturbed' = (disturbed /\ ~(calls[i].clean /\ OfProxy(calls[i].kind)))
    /\ UNCHANGED <<app, os, settings>> /\ KeepProxy

--------------------------------------------------------------------------------
(* The end of the program                                                   *)

\* A batch behind the elevation prompt is another process: it goes on.
Orphaned(c) ==
    IF c.stage # "running" THEN c
    ELSE IF c.left # <<>> /\ Head(c.left).elevated
         THEN [c EXCEPT !.stage = "orphan", !.clean = FALSE]
         ELSE [c EXCEPT !.stage = "failed", !.left = <<>>, !.clean = FALSE]

\* What was in memory is gone; a certificate being written may be torn.
process_ends ==
    /\ app' = "down"
    /\ handle' = None
    /\ runs' = [n \in Runs |-> IF runs[n].stage = "none" THEN NoRun
                               ELSE [NoRun EXCEPT !.stage = "ended"]]
    /\ pumps' = [n \in Runs |-> IF pumps[n].stage = "none" THEN NoPump
                                ELSE [NoPump EXCEPT !.stage = "off"]]
    /\ \/ cert' = cert
       \/ /\ \E n \in Runs : runs[n].stage = "key_protected"
          /\ cert' = Torn
    /\ UNCHANGED <<panel, key, protected, overlapped, os, settings, engaged>>

\* teardown: the proxy is told to stop, and the settings are cleared if the
\* flag says so.
teardown ==
    /\ app = "up"
    /\ app' = "exiting"
    /\ runs' = Stopped
    /\ handle' = None
    /\ pumps' = IF handle = None THEN pumps ELSE [pumps EXCEPT ![handle].stage = "off"]
    /\ calls' = WithCall(MaxCalls + 1, "exit")
    /\ disturbed' = (disturbed \/ Overlaps("exit"))
    /\ UNCHANGED <<panel, key, cert, protected, overlapped, os, settings, engaged>>

\* The thread of teardown ends, after its error is logged or its 150 ms.
exit ==
    /\ app = "exiting"
    /\ calls[MaxCalls + 1].left = <<>>
    /\ process_ends
    /\ calls' = [i \in Slots |-> IF i > MaxCalls THEN [calls[i] EXCEPT !.stage = "done"]
                                 ELSE Orphaned(calls[i])]
    /\ disturbed' = (disturbed /\ ~(engaged /\ calls[MaxCalls + 1].clean))

crash ==
    /\ app # "down"
    /\ process_ends
    /\ calls' = [i \in Slots |-> Orphaned(calls[i])]
    /\ disturbed' = TRUE

\* The flag starts as false whatever the settings are.  (An elevated batch that
\* teardown left behind has ended by then.)
relaunch ==
    /\ app = "down"
    /\ calls[MaxCalls + 1].stage # "orphan"
    /\ app' = "up"
    /\ engaged' = FALSE
    /\ calls' = [calls EXCEPT ![MaxCalls + 1] = NoCall]
    /\ UNCHANGED <<panel, proxyVars, os, settings, disturbed>>

--------------------------------------------------------------------------------
(* Specification                                                            *)

\* A machine without a proxy, or with the user's own.
Own == [Unset EXCEPT !.https = "other", !.http = "other", !.server = "other",
                     !.enable = "on", !.mode = "manual"]

Init ==
    /\ panel \in {"proxy", "system"}
    /\ app = "up"
    /\ handle = None
    /\ runs = [n \in Runs |-> NoRun]
    /\ pumps = [n \in Runs |-> NoPump]
    /\ key = None /\ cert = None
    /\ protected = FALSE
    /\ overlapped = FALSE
    /\ os \in Oses
    /\ settings \in {Unset, Own}
    /\ panel = "proxy" => os = "linux" /\ settings = Unset
    /\ calls = [i \in Slots |-> NoCall]
    /\ engaged = FALSE
    /\ disturbed = FALSE

run_proxy(n) ==
    \/ load_or_create_ca(n) \/ read_cert(n)
    \/ write_key(n) \/ set_permissions(n) \/ write_cert(n)
    \/ bind(n)

spawn_audit_pump(n) == pump_begins(n) \/ tick(n)

apply_specs_blocking(i) == command_succeeds(i) \/ command_fails(i) \/ not_run(i) \/ finish(i)

Next ==
    \/ start_proxy \/ stop_proxy
    \/ \E n \in Runs : \/ run_proxy(n) \/ run_fails(n) \/ graceful_shutdown(n)
                       \/ emit(n) \/ spawn_audit_pump(n)
    \/ set_system_proxy \/ clear_system_proxy \/ install_ca \/ uninstall_ca
    \/ \E i \in Slots : apply_specs_blocking(i)
    \/ teardown \/ exit \/ crash \/ relaunch

\* The runtime polls a task that is ready, and the connections of a listener
\* that was told to stop end.
Fairness ==
    \A n \in Runs :
        WF_vars(run_proxy(n)) /\ WF_vars(graceful_shutdown(n)) /\ WF_vars(spawn_audit_pump(n))

Spec == Init /\ [][Next]_vars /\ Fairness

--------------------------------------------------------------------------------
(* Properties                                                               *)

Generations == Runs \cup {None, Torn}

\* The state has its shape; the ring of a run never exceeds its capacity and
\* the pump's cursor stays inside it, or the slice of the snapshot would panic.
TypeOK ==
    /\ app \in {"up", "exiting", "down"}
    /\ handle \in Runs \cup {None}
    /\ runs \in [Runs -> [stage : Loading \cup {"none", "loaded", "serving", "ended", "failed"},
                          stop : BOOLEAN, key : Generations, cert : Generations]]
    /\ \A n \in Runs :
         /\ pumps[n].stage \in {"none", "spawned", "on", "off"}
         /\ Len(pumps[n].ring) <= RingCapacity
         /\ pumps[n].cursor <= Len(pumps[n].ring)
    /\ key \in Generations /\ cert \in Generations
    /\ engaged \in BOOLEAN /\ disturbed \in BOOLEAN
    /\ \A i \in Slots : calls[i].stage \in {"none", "running", "orphan", "done", "failed"}

\* ca.rs: wherever the program is killed, and however many tasks make the CA at
\* once, a CA that later starts will load has its key file at mode 0600 (on
\* Unix: elsewhere the code leaves the permissions alone); and a proxy that
\* serves signs with the key of its certificate, through kills between the two
\* writes and failed starts, as long as no two tasks were at the CA together.
AuthoritySound ==
    /\ TypeOK
    /\ cert # None => key # None /\ protected
    /\ \A n \in Runs : runs[n].stage = "serving" /\ ~overlapped => runs[n].key = runs[n].cert

\* lib.rs: an exit that was not a kill leaves no system setting that points at
\* the proxy that is gone, if a set or clear, or the exit's own clear, went
\* through alone and without a failure since the last trouble.
ExitLeavesNoProxy == app = "down" /\ ~disturbed => ~UsesUs

\* The UI has seen every record since the pump's first poll, once and in order.
Shown(n) ==
    pumps[n].shown = [i \in 1..(pumps[n].total - pumps[n].from) |-> pumps[n].from + i]

\* spawn_audit_pump: until the ring overflows, every record after the pump's
\* first poll reaches the UI, once and in the order they were written, or the
\* pump is stopped.
FeedComplete ==
    \A n \in Runs : pumps[n].stage = "on" ~>
        (pumps[n].stage # "on" \/ pumps[n].total > RingCapacity \/ Shown(n))

\* stop_proxy: a proxy the application no longer holds the handle of, stopped
\* even before it listened, comes to its end; none serves on unseen.
StopStops ==
    \A n \in Runs : (runs[n].stage # "none" /\ handle # n) ~>
        runs[n].stage \in {"ended", "failed"}
================================================================================
