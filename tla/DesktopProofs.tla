------------------------------ MODULE DesktopProofs ------------------------------
(***************************************************************************)
(* Proofs about the desktop application, for every number of starts,       *)
(* records and system commands, every capacity of the audit ring and every *)
(* platform.                                                               *)
(***************************************************************************)
EXTENDS Desktop, FiniteSetTheorems, TLAPS

--------------------------------------------------------------------------------
(* The inductive invariant                                                  *)

RunRecord ==
    [stage : Loading \cup {"none", "loaded", "serving", "ended", "failed"},
     stop : BOOLEAN, key : Generations, cert : Generations]

PumpRecord ==
    [stage : {"none", "spawned", "on", "off"}, ring : Seq(Nat), total : Nat,
     cursor : Nat, from : Nat, shown : Seq(Nat)]

\* The pump's cursor is a position of a ring that is not too long.
PumpOK(p) ==
    p \in PumpRecord /\ Len(p.ring) <= RingCapacity /\ p.cursor <= Len(p.ring)

Commands ==
    [key : {"https", "http", "server", "enable", "mode", "ca_file", "trust"},
     value : {"us", "off", "on", "none", "manual", "ca_file"}, elevated : BOOLEAN]

Kinds == {"none", "set", "clear", "install", "uninstall", "exit"}

Call ==
    [kind : Kinds, left : Seq(Commands),
     stage : {"none", "running", "orphan", "done", "failed"}, clean : BOOLEAN]

Values == {"us", "off", "on", "none", "manual", "ca_file", "other"}

Settings ==
    [https : Values, http : Values, server : Values, enable : Values,
     mode : Values, ca_file : Values, trust : Values]

ProxyTypes ==
    /\ handle \in Runs \cup {None}
    /\ runs \in [Runs -> RunRecord]
    /\ key \in Generations /\ cert \in Generations
    /\ protected \in BOOLEAN /\ overlapped \in BOOLEAN

PumpsOK ==
    pumps \in [Runs -> PumpRecord] /\ \A n \in Runs : PumpOK(pumps[n])

SystemTypes ==
    /\ app \in {"up", "exiting", "down"}
    /\ engaged \in BOOLEAN /\ disturbed \in BOOLEAN
    /\ os \in Oses
    /\ settings \in Settings
    /\ calls \in [Slots -> Call]

Writing == {"generated", "key_written", "key_protected"}

\* Whoever else is at the CA: a task that writes has a key to write, and the
\* certificate comes last.
FilesOK ==
    /\ cert # None => key # None /\ protected
    /\ \A n \in Runs :
         /\ runs[n].stage \in Writing => runs[n].key # None /\ runs[n].cert # None
         /\ runs[n].stage \in {"key_written", "key_protected"} => key # None
         /\ runs[n].stage = "key_protected" => protected

\* As long as no two tasks were at the CA together, the certificate on disk is
\* that of the key or torn, and a task knows what is on disk.
PairOK ==
    ~overlapped =>
        /\ \A m, n \in Runs : runs[m].stage \in Loading /\ runs[n].stage \in Loading => m = n
        /\ cert \in {None, Torn, key}
        /\ \A n \in Runs :
             /\ runs[n].stage \in Writing => cert = None /\ runs[n].key = runs[n].cert
             /\ runs[n].stage \in {"key_written", "key_protected"} => key = runs[n].key
             /\ runs[n].stage = "key_read" => key = runs[n].key /\ cert # None
             /\ runs[n].stage \in {"loaded", "serving"} => runs[n].key = runs[n].cert

ExitSlot == MaxCalls + 1
ProxyCall(i) == Active(i) /\ OfProxy(calls[i].kind)

\* The calls used are the first ones; teardown has a slot of its own.
SlotsOK ==
    /\ \E k \in 0..MaxCalls : \A i \in 1..MaxCalls : calls[i].stage # "none" <=> i <= k
    /\ \A i \in 1..MaxCalls : calls[i].kind # "exit"
    /\ calls[ExitSlot].kind \in {"none", "exit"}
    /\ app = "up" => ~Active(ExitSlot)
    /\ app = "down" => \A i \in Slots : calls[i].stage # "running"

CaOnly(left) == \A k \in 1..Len(left) : left[k].key \in {"ca_file", "trust"}

\* A call for the CA does not touch the proxy settings, and an orphan, or a
\* call that shares the settings with another, is not clean.
CallsOK ==
    /\ \A i \in Slots :
         /\ Active(i) /\ ~OfProxy(calls[i].kind) => CaOnly(calls[i].left)
         /\ calls[i].stage = "orphan" => ~calls[i].clean
    /\ \A i, j \in Slots : ProxyCall(i) /\ calls[i].clean /\ ProxyCall(j) => i = j
    /\ ~disturbed => \A i \in Slots : ProxyCall(i) => calls[i].clean

\* UsesUs of the settings s of platform o.
Uses(o, s) ==
    CASE o = "macos"   -> s.https = "us" \/ s.http = "us"
      [] o = "windows" -> s.server = "us" /\ s.enable = "on"
      [] o = "linux"   -> s.mode = "manual" /\ (s.http = "us" \/ s.https = "us")

\* What a call that clears the settings has left to do, and has done.
ClearingAt(left, o, s) ==
    \/ left = clear_proxy_commands[o]
    \/ o = "macos" /\ left = <<Command("http", "off", TRUE)>> /\ s.https # "us"
    \/ left = <<>> /\ ~Uses(o, s)

Clearing(i) == ClearingAt(calls[i].left, os, settings)

\* A clean call leaves what it was for; between calls the flag tells teardown
\* of settings that name the proxy.
SettingsOK ==
    /\ \A i \in Slots : ProxyCall(i) /\ calls[i].clean =>
         /\ calls[i].kind = "clear" => Clearing(i)
         /\ calls[i].kind = "exit" /\ (engaged \/ ~disturbed) => Clearing(i)
    /\ ~disturbed =>
         /\ app = "up" /\ (\A i \in Slots : ~ProxyCall(i)) /\ Uses(os, settings) => engaged
         /\ app = "down" => ~Uses(os, settings)
    /\ app = "exiting" =>
         \/ /\ calls[ExitSlot].kind = "exit" /\ calls[ExitSlot].stage = "running"
            /\ calls[ExitSlot].clean
         \/ disturbed /\ ~calls[ExitSlot].clean
    /\ app = "exiting" => \A i \in 1..MaxCalls : ~calls[i].clean

\* The proxy's part and the system's part share no variable but app.
ProxyInv  == ProxyTypes /\ PumpsOK /\ FilesOK /\ PairOK
SystemInv == SystemTypes /\ SlotsOK /\ CallsOK /\ SettingsOK

--------------------------------------------------------------------------------
(* The runs of the proxy and their certificate authority                    *)

\* A new record in the ring: the ring stays within its capacity and gets no
\* shorter, so the cursor stays inside.
LEMMA PushKeeps ==
    ASSUME NEW p, PumpOK(p)
    PROVE  PumpOK(push(p))
<1> DEFINE longer == Append(p.ring, p.total + 1)
           ring   == IF Len(longer) > RingCapacity THEN Tail(longer) ELSE longer
<1>1. /\ p \in PumpRecord
      /\ p.ring \in Seq(Nat) /\ Len(p.ring) \in Nat /\ p.total \in Nat /\ p.cursor \in Nat
      /\ Len(p.ring) <= RingCapacity /\ p.cursor <= Len(p.ring)
      /\ RingCapacity \in Nat \ {0}
  BY DesktopAssumption DEF PumpOK, PumpRecord
<1>2. longer \in Seq(Nat) /\ Len(longer) = Len(p.ring) + 1
  BY <1>1
<1> HIDE DEF longer
<1>3. Tail(longer) \in Seq(Nat) /\ Len(Tail(longer)) = Len(longer) - 1
  <2>1. longer # <<>>
    BY <1>1, <1>2
  <2>2. QED
    BY <1>1, <1>2, <2>1
<1>4. ring \in Seq(Nat) /\ Len(ring) <= RingCapacity /\ p.cursor <= Len(ring)
  BY <1>1, <1>2, <1>3
<1>5. push(p) = [p EXCEPT !.total = p.total + 1, !.ring = ring]
  BY DEF push, longer
<1> HIDE DEF ring
<1>6. /\ push(p) \in PumpRecord /\ push(p).ring = ring /\ push(p).cursor = p.cursor
  <2> DEFINE S == Seq(Nat)
  <2>1. PumpRecord = [stage : {"none", "spawned", "on", "off"}, ring : S, total : Nat,
                      cursor : Nat, from : Nat, shown : S]
    BY DEF PumpRecord
  <2>2. ring \in S /\ p.total + 1 \in Nat
    BY <1>1, <1>4
  <2> HIDE DEF S
  <2>3. QED
    BY <1>1, <1>5, <2>1, <2>2
<1>7. QED
  BY <1>4, <1>6 DEF PumpOK

\* A tick of the pump slices the ring from a cursor inside it.
LEMMA ShowKeeps ==
    ASSUME NEW p, PumpOK(p)
    PROVE  PumpOK(show_new(p))
<1>1. /\ p \in PumpRecord
      /\ p.ring \in Seq(Nat) /\ Len(p.ring) \in Nat /\ p.cursor \in Nat
      /\ p.shown \in Seq(Nat)
      /\ Len(p.ring) <= RingCapacity /\ p.cursor <= Len(p.ring)
  BY DEF PumpOK, PumpRecord
<1> DEFINE more == p.shown \o SubSeq(p.ring, p.cursor + 1, Len(p.ring))
<1>2. SubSeq(p.ring, p.cursor + 1, Len(p.ring)) \in Seq(Nat)
  BY <1>1
<1>3. more \in Seq(Nat)
  BY <1>1, <1>2
<1>4. show_new(p) = [p EXCEPT !.shown = more, !.cursor = Len(p.ring)]
  BY <1>1 DEF show_new
<1> HIDE DEF more
<1>5. /\ show_new(p) \in PumpRecord /\ show_new(p).ring = p.ring
      /\ show_new(p).cursor = Len(p.ring)
  BY <1>1, <1>3, <1>4 DEF PumpRecord
<1>6. QED
  BY <1>1, <1>5 DEF PumpOK

\* A step that replaces the pump of one run.
LEMMA OnePump ==
    ASSUME PumpsOK, NEW n \in Runs, NEW q, PumpOK(q), pumps' = [pumps EXCEPT ![n] = q]
    PROVE  PumpsOK'
<1>1. q \in PumpRecord
  BY DEF PumpOK
<1>2. pumps' \in [Runs -> PumpRecord]
  BY <1>1 DEF PumpsOK
<1>3. \A m \in Runs : pumps'[m] \in {pumps[m], q}
  BY DEF PumpsOK
<1>4. QED
  BY <1>2, <1>3 DEF PumpsOK

\* Changing a pump's stage, or its cursor to the end of its ring.
LEMMA PumpStage ==
    ASSUME NEW p, PumpOK(p), NEW stage \in {"none", "spawned", "on", "off"}
    PROVE  /\ PumpOK([p EXCEPT !.stage = stage])
           /\ PumpOK([p EXCEPT !.stage = stage, !.cursor = Len(p.ring), !.from = p.total])
<1>1. /\ p \in PumpRecord /\ Len(p.ring) \in Nat
      /\ Len(p.ring) <= RingCapacity /\ p.cursor <= Len(p.ring)
  BY DEF PumpOK, PumpRecord
<1>2. /\ [p EXCEPT !.stage = stage] \in PumpRecord
      /\ [p EXCEPT !.stage = stage].ring = p.ring
      /\ [p EXCEPT !.stage = stage].cursor = p.cursor
  BY <1>1 DEF PumpRecord
<1> DEFINE q == [p EXCEPT !.stage = stage, !.cursor = Len(p.ring), !.from = p.total]
<1>3. q \in PumpRecord /\ q.ring = p.ring /\ q.cursor = Len(p.ring)
  BY <1>1 DEF PumpRecord
<1> HIDE DEF q
<1>4. PumpOK(q)
  BY <1>1, <1>3 DEF PumpOK
<1>5. QED
  BY <1>1, <1>2, <1>4 DEF PumpOK, q

\* A pump that was never started, or whose program has ended.
LEMMA EmptyPump == PumpOK(NoPump) /\ PumpOK([NoPump EXCEPT !.stage = "off"])
<1>1. /\ NoPump \in PumpRecord /\ [NoPump EXCEPT !.stage = "off"] \in PumpRecord
      /\ NoPump.ring = <<>> /\ [NoPump EXCEPT !.stage = "off"].ring = <<>>
      /\ NoPump.cursor = 0 /\ [NoPump EXCEPT !.stage = "off"].cursor = 0
  <2> DEFINE S == Seq(Nat)
             empty == <<>>
  <2>1. PumpRecord = [stage : {"none", "spawned", "on", "off"}, ring : S, total : Nat,
                      cursor : Nat, from : Nat, shown : S]
    BY DEF PumpRecord
  <2>2. /\ empty \in S
        /\ NoPump = [stage |-> "none", ring |-> empty, total |-> 0, cursor |-> 0,
                     from |-> 0, shown |-> empty]
    BY DEF NoPump
  <2> HIDE DEF S, empty
  <2>3. /\ NoPump \in PumpRecord /\ [NoPump EXCEPT !.stage = "off"] \in PumpRecord
        /\ NoPump.ring = empty /\ [NoPump EXCEPT !.stage = "off"].ring = empty
        /\ NoPump.cursor = 0 /\ [NoPump EXCEPT !.stage = "off"].cursor = 0
    BY <2>1, <2>2
  <2>4. QED
    BY <2>3 DEF empty
<1>2. QED
  BY <1>1, DesktopAssumption DEF PumpOK

\* Every step keeps every cursor inside its ring.
LEMMA PumpsStep ==
    ASSUME PumpsOK, ProxyTypes, [Next]_vars
    PROVE  PumpsOK'
<1> USE DEF proxyVars, systemVars
<1>1. \A n \in Runs : PumpOK(pumps[n])
  BY DEF PumpsOK
<1>2. CASE UNCHANGED pumps
  BY <1>2 DEF PumpsOK
<1>3. CASE start_proxy
  <2>1. PICK n \in Runs : pumps' = [pumps EXCEPT ![n].stage = "spawned"]
    BY <1>3 DEF start_proxy
  <2>2. pumps' = [pumps EXCEPT ![n] = [pumps[n] EXCEPT !.stage = "spawned"]]
    BY <2>1
  <2>3. PumpOK([pumps[n] EXCEPT !.stage = "spawned"])
    BY <1>1, PumpStage
  <2>4. QED
    BY <2>2, <2>3, OnePump
<1>4. CASE stop_proxy \/ teardown
  <2>1. CASE handle = None /\ pumps' = pumps
    BY <1>2, <2>1
  <2>2. CASE handle # None /\ pumps' = [pumps EXCEPT ![handle].stage = "off"]
    <3>1. handle \in Runs
      BY <2>2 DEF ProxyTypes
    <3>2. pumps' = [pumps EXCEPT ![handle] = [pumps[handle] EXCEPT !.stage = "off"]]
      BY <2>2
    <3>3. PumpOK([pumps[handle] EXCEPT !.stage = "off"])
      BY <1>1, <3>1, PumpStage
    <3>4. QED
      BY <3>1, <3>2, <3>3, OnePump
  <2>3. QED
    BY <1>4, <2>1, <2>2 DEF stop_proxy, teardown
<1>5. ASSUME NEW n \in Runs, emit(n)
      PROVE  PumpsOK'
  BY <1>1, <1>5, PushKeeps, OnePump DEF emit
<1>6. ASSUME NEW n \in Runs, spawn_audit_pump(n)
      PROVE  PumpsOK'
  <2>1. CASE tick(n)
    BY <1>1, <2>1, ShowKeeps, OnePump DEF tick
  <2>2. CASE pump_begins(n)
    <3> DEFINE q == [pumps[n] EXCEPT !.stage = "on", !.cursor = Len(pumps[n].ring),
                                     !.from = pumps[n].total]
    <3>1. pumps' = [pumps EXCEPT ![n] = q]
      BY <2>2 DEF pump_begins
    <3>2. PumpOK(q)
      BY <1>1, PumpStage
    <3> HIDE DEF q
    <3>3. QED
      BY <3>1, <3>2, OnePump
  <2>3. QED
    BY <1>6, <2>1, <2>2 DEF spawn_audit_pump
<1>7. CASE exit \/ crash
  <2>1. PumpOK(NoPump) /\ PumpOK([NoPump EXCEPT !.stage = "off"])
    BY EmptyPump
  <2> DEFINE off == [NoPump EXCEPT !.stage = "off"]
  <2>2. pumps' = [n \in Runs |-> IF pumps[n].stage = "none" THEN NoPump ELSE off]
    BY <1>7 DEF exit, crash, process_ends
  <2> HIDE DEF off
  <2>3. \A n \in Runs : pumps'[n] \in {NoPump, off}
    BY <2>2
  <2>4. \A n \in Runs : PumpOK(pumps'[n])
    BY <2>1, <2>3 DEF off
  <2>5. pumps' \in [Runs -> PumpRecord]
    BY <2>2, <2>4 DEF PumpOK
  <2>6. QED
    BY <2>4, <2>5 DEF PumpsOK
<1>8. QED
  BY <1>2, <1>3, <1>4, <1>5, <1>6, <1>7
  DEF Next, vars, run_proxy, load_or_create_ca, read_cert, write_key, set_permissions,
      write_cert, bind, run_fails, graceful_shutdown, KeepRest, set_system_proxy,
      clear_system_proxy, install_ca, uninstall_ca, begin, KeepProxy,
      apply_specs_blocking, command_succeeds, command_fails, not_run, finish, relaunch

\* Types of the run records the steps write.
LEMMA RunTypes ==
    /\ NoRun \in RunRecord
    /\ NoRun.stage = "none" /\ NoRun.key = None /\ NoRun.cert = None
    /\ [NoRun EXCEPT !.stage = "ended"] \in RunRecord
    /\ [NoRun EXCEPT !.stage = "ended"].stage = "ended"
BY DEF NoRun, RunRecord, Generations

\* The files and who writes them, through one step of any task, a stop, an
\* exit or a kill.
LEMMA ProxyStep ==
    ASSUME ProxyInv, [Next]_vars
    PROVE  ProxyInv'
<1> USE DEF proxyVars, systemVars, Loading, Writing
<1>1. /\ ProxyTypes /\ FilesOK /\ PairOK
      /\ runs \in [Runs -> RunRecord]
      /\ key \in Generations /\ cert \in Generations
      /\ \A n \in Runs : /\ runs[n] \in RunRecord
                         /\ n \in Generations /\ n # None /\ n # Torn
                         /\ runs[n].key \in Generations /\ runs[n].cert \in Generations
      /\ None \in Generations /\ Torn \in Generations /\ Torn # None
  BY DesktopAssumption DEF ProxyInv, ProxyTypes, Generations, Runs, Torn, RunRecord
<1>2. PumpsOK'
  BY PumpsStep DEF ProxyInv
<1>3. SUFFICES ProxyTypes' /\ FilesOK' /\ PairOK'
  BY <1>2 DEF ProxyInv
<1>4. CASE UNCHANGED <<handle, runs, key, cert, protected, overlapped>>
  BY <1>1, <1>4 DEF ProxyTypes, FilesOK, PairOK
<1>5. CASE start_proxy
  <2>1. PICK n \in Runs : /\ handle' = n
                          /\ runs' = [runs EXCEPT ![n].stage = "spawned"]
                          /\ overlapped' = (overlapped \/ \E m \in Runs : runs[m].stage \in Loading)
                          /\ UNCHANGED <<key, cert, protected>>
    BY <1>5 DEF start_proxy
  <2>2. /\ runs' \in [Runs -> RunRecord]
        /\ \A m \in Runs \ {n} : runs'[m] = runs[m]
        /\ runs'[n].stage = "spawned"
    BY <1>1, <2>1 DEF RunRecord
  <2>3. overlapped' \in BOOLEAN
    BY <2>1
  <2>4. ProxyTypes'
    BY <1>1, <2>1, <2>2, <2>3 DEF ProxyTypes
  <2>5. FilesOK'
    BY <1>1, <2>1, <2>2 DEF FilesOK
  <2>6. PairOK'
    <3> SUFFICES ASSUME ~overlapped' PROVE PairOK'
      BY DEF PairOK
    <3>1. ~overlapped /\ \A m \in Runs : runs[m].stage \notin Loading
      BY <2>1
    <3>2. QED
      BY <1>1, <2>1, <2>2, <3>1 DEF PairOK
  <2>7. QED
    BY <2>4, <2>5, <2>6
<1>6. CASE stop_proxy \/ teardown
  <2>1. handle' = None /\ runs' = Stopped /\ UNCHANGED <<key, cert, protected, overlapped>>
    BY <1>6 DEF stop_proxy, teardown
  <2>2. /\ runs' \in [Runs -> RunRecord]
        /\ \A n \in Runs : /\ runs'[n].stage = runs[n].stage
                           /\ runs'[n].key = runs[n].key
                           /\ runs'[n].cert = runs[n].cert
    <3>1. CASE handle = None
      BY <1>1, <2>1, <3>1 DEF Stopped
    <3>2. CASE handle # None
      <4>1. handle \in Runs /\ runs' = [runs EXCEPT ![handle].stop = TRUE]
        BY <1>1, <2>1, <3>2 DEF Stopped, ProxyTypes
      <4>2. QED
        BY <1>1, <4>1 DEF RunRecord
    <3>3. QED
      BY <3>1, <3>2
  <2>3. ProxyTypes'
    BY <1>1, <2>1, <2>2 DEF ProxyTypes
  <2>4. FilesOK' /\ PairOK'
    BY <1>1, <2>1, <2>2 DEF FilesOK, PairOK
  <2>5. QED
    BY <2>3, <2>4
<1>7. ASSUME NEW n \in Runs, run_proxy(n) \/ run_fails(n) \/ graceful_shutdown(n)
      PROVE  ProxyTypes' /\ FilesOK' /\ PairOK'
  <2>1. handle' = handle /\ overlapped' = overlapped
    BY <1>7 DEF run_proxy, load_or_create_ca, read_cert, write_key, set_permissions,
                write_cert, bind, run_fails, graceful_shutdown, KeepRest
  <2>2. CASE load_or_create_ca(n)
    <3>1. /\ runs[n].stage = "spawned"
          /\ UNCHANGED <<key, cert, protected>>
      BY <2>2 DEF load_or_create_ca, KeepFiles
    <3>2. CASE key # None /\ cert # None
      <4>1. runs' = [runs EXCEPT ![n].stage = "key_read", ![n].key = key]
        BY <2>2, <3>2 DEF load_or_create_ca
      <4>2. /\ runs' \in [Runs -> RunRecord]
            /\ \A m \in Runs \ {n} : runs'[m] = runs[m]
            /\ runs'[n].stage = "key_read" /\ runs'[n].key = key
        BY <1>1, <4>1 DEF RunRecord
      <4>3. ProxyTypes'
        BY <1>1, <2>1, <3>1, <4>2 DEF ProxyTypes
      <4>4. FilesOK' /\ PairOK'
        BY <1>1, <2>1, <3>1, <3>2, <4>2 DEF FilesOK, PairOK
      <4>5. QED
        BY <4>3, <4>4
    <3>3. CASE ~(key # None /\ cert # None)
      <4>1. runs' = [runs EXCEPT ![n].stage = "generated", ![n].key = n, ![n].cert = n]
        BY <2>2, <3>3 DEF load_or_create_ca
      <4>2. /\ runs' \in [Runs -> RunRecord]
            /\ \A m \in Runs \ {n} : runs'[m] = runs[m]
            /\ runs'[n].stage = "generated" /\ runs'[n].key = n /\ runs'[n].cert = n
        BY <1>1, <4>1 DEF RunRecord
      <4>3. ProxyTypes'
        BY <1>1, <2>1, <3>1, <4>2 DEF ProxyTypes
      <4>4. FilesOK' /\ PairOK'
        BY <1>1, <2>1, <3>1, <3>3, <4>2 DEF FilesOK, PairOK
      <4>5. QED
        BY <4>3, <4>4
    <3>4. QED
      BY <3>2, <3>3
  <2>3. CASE read_cert(n)
    <3> DEFINE stage == IF cert = Torn THEN "failed" ELSE "loaded"
    <3>1. /\ runs[n].stage = "key_read"
          /\ UNCHANGED <<key, cert, protected>>
          /\ runs' = [runs EXCEPT ![n].stage = stage, ![n].cert = cert]
      BY <2>3 DEF read_cert, KeepFiles
    <3>2. /\ stage \in {"failed", "loaded"} /\ (stage = "loaded" => cert # Torn)
          /\ stage \in Loading \cup {"loaded", "serving", "ended", "failed"}
      OBVIOUS
    <3> HIDE DEF stage
    <3>3. /\ runs' \in [Runs -> RunRecord]
          /\ \A m \in Runs \ {n} : runs'[m] = runs[m]
          /\ runs'[n].stage = stage /\ runs'[n].key = runs[n].key /\ runs'[n].cert = cert
      BY <1>1, <3>1, <3>2 DEF RunRecord
    <3>4. ProxyTypes'
      BY <1>1, <2>1, <3>1, <3>3 DEF ProxyTypes
    <3>5. FilesOK' /\ PairOK'
      BY <1>1, <2>1, <3>1, <3>2, <3>3 DEF FilesOK, PairOK
    <3>6. QED
      BY <3>4, <3>5
  <2>4. CASE write_key(n)
    <3>1. /\ runs[n].stage = "generated"
          /\ runs' = [runs EXCEPT ![n].stage = "key_written"]
          /\ key' = runs[n].key /\ UNCHANGED <<cert, protected>>
      BY <2>4 DEF write_key, Become
    <3>2. /\ runs' \in [Runs -> RunRecord]
          /\ \A m \in Runs \ {n} : runs'[m] = runs[m]
          /\ runs'[n].stage = "key_written"
          /\ runs'[n].key = runs[n].key /\ runs'[n].cert = runs[n].cert
      BY <1>1, <3>1 DEF RunRecord
    <3>3. ProxyTypes'
      BY <1>1, <2>1, <3>1, <3>2 DEF ProxyTypes
    <3>4. FilesOK' /\ PairOK'
      BY <1>1, <2>1, <3>1, <3>2 DEF FilesOK, PairOK
    <3>5. QED
      BY <3>3, <3>4
  <2>5. CASE set_permissions(n)
    <3>1. /\ runs[n].stage = "key_written"
          /\ runs' = [runs EXCEPT ![n].stage = "key_protected"]
          /\ protected' = TRUE /\ UNCHANGED <<key, cert>>
      BY <2>5 DEF set_permissions, Become
    <3>2. /\ runs' \in [Runs -> RunRecord]
          /\ \A m \in Runs \ {n} : runs'[m] = runs[m]
          /\ runs'[n].stage = "key_protected"
          /\ runs'[n].key = runs[n].key /\ runs'[n].cert = runs[n].cert
      BY <1>1, <3>1 DEF RunRecord
    <3>3. ProxyTypes'
      BY <1>1, <2>1, <3>1, <3>2 DEF ProxyTypes
    <3>4. FilesOK' /\ PairOK'
      BY <1>1, <2>1, <3>1, <3>2 DEF FilesOK, PairOK
    <3>5. QED
      BY <3>3, <3>4
  <2>6. CASE write_cert(n)
    <3>1. /\ runs[n].stage = "key_protected"
          /\ runs' = [runs EXCEPT ![n].stage = "loaded"]
          /\ cert' = runs[n].cert /\ UNCHANGED <<key, protected>>
      BY <2>6 DEF write_cert, Become
    <3>2. /\ runs' \in [Runs -> RunRecord]
          /\ \A m \in Runs \ {n} : runs'[m] = runs[m]
          /\ runs'[n].stage = "loaded"
          /\ runs'[n].key = runs[n].key /\ runs'[n].cert = runs[n].cert
      BY <1>1, <3>1 DEF RunRecord
    <3>3. ProxyTypes'
      BY <1>1, <2>1, <3>1, <3>2 DEF ProxyTypes
    <3>4. FilesOK' /\ PairOK'
      BY <1>1, <2>1, <3>1, <3>2 DEF FilesOK, PairOK
    <3>5. QED
      BY <3>3, <3>4
  <2>7. CASE bind(n) \/ run_fails(n) \/ graceful_shutdown(n)
    <3>1. PICK stage \in {"serving", "failed", "ended"} :
            /\ runs' = [runs EXCEPT ![n].stage = stage]
            /\ stage = "serving" => runs[n].stage = "loaded"
            /\ UNCHANGED <<key, cert, protected>>
      BY <2>7 DEF bind, run_fails, graceful_shutdown, Become, KeepFiles
    <3>2. /\ runs' \in [Runs -> RunRecord]
          /\ \A m \in Runs \ {n} : runs'[m] = runs[m]
          /\ runs'[n].stage = stage
          /\ runs'[n].key = runs[n].key /\ runs'[n].cert = runs[n].cert
      BY <1>1, <3>1 DEF RunRecord
    <3>3. ProxyTypes'
      BY <1>1, <2>1, <3>1, <3>2 DEF ProxyTypes
    <3>4. FilesOK' /\ PairOK'
      BY <1>1, <2>1, <3>1, <3>2 DEF FilesOK, PairOK
    <3>5. QED
      BY <3>3, <3>4
  <2>8. QED
    BY <1>7, <2>2, <2>3, <2>4, <2>5, <2>6, <2>7 DEF run_proxy
<1>8. CASE exit \/ crash
  <2> DEFINE ended == [NoRun EXCEPT !.stage = "ended"]
  <2>1. /\ handle' = None
        /\ runs' = [n \in Runs |-> IF runs[n].stage = "none" THEN NoRun ELSE ended]
        /\ \/ cert' = cert
           \/ (\E n \in Runs : runs[n].stage = "key_protected") /\ cert' = Torn
        /\ UNCHANGED <<key, protected, overlapped>>
    BY <1>8 DEF exit, crash, process_ends
  <2>2. /\ NoRun \in RunRecord /\ NoRun.stage = "none"
        /\ ended \in RunRecord /\ ended.stage = "ended"
    BY RunTypes
  <2> HIDE DEF ended
  <2>3. /\ runs' \in [Runs -> RunRecord]
        /\ \A n \in Runs : runs'[n].stage \in {"none", "ended"}
    BY <2>1, <2>2
  <2>4. ProxyTypes'
    BY <1>1, <2>1, <2>3 DEF ProxyTypes
  <2>5. FilesOK' /\ PairOK'
    BY <1>1, <2>1, <2>3 DEF FilesOK, PairOK
  <2>6. QED
    BY <2>4, <2>5
<1>9. QED
  BY <1>4, <1>5, <1>6, <1>7, <1>8
  DEF Next, vars, emit, spawn_audit_pump, pump_begins, tick, set_system_proxy,
      clear_system_proxy, install_ca, uninstall_ca, begin, KeepProxy,
      apply_specs_blocking, command_succeeds, command_fails, not_run, finish, relaunch

--------------------------------------------------------------------------------
(* The system's settings and the commands that change them                  *)

\* Short lists of commands, and what is left of them after the first.
LEMMA ShortLists ==
    ASSUME NEW S, NEW a \in S, NEW b \in S, NEW c \in S
    PROVE  /\ <<>> \in Seq(S) /\ <<a>> \in Seq(S) /\ <<a, b>> \in Seq(S)
           /\ <<a, b, c>> \in Seq(S)
           /\ <<a>> # <<>> /\ Head(<<a>>) = a /\ Tail(<<a>>) = <<>>
           /\ <<a, b>> # <<>> /\ Head(<<a, b>>) = a /\ Tail(<<a, b>>) = <<b>>
OBVIOUS

Platforms == {"macos", "windows", "linux"}

\* The commands of every platform are commands.
LEMMA PlatformCommands ==
    ASSUME NEW o \in Platforms
    PROVE  /\ set_proxy_commands[o] \in Seq(Commands)
           /\ clear_proxy_commands[o] \in Seq(Commands)
           /\ install_ca_commands[o] \in Seq(Commands)
           /\ uninstall_ca_commands[o] \in Seq(Commands)
<1>1. ASSUME NEW k \in {"https", "http", "server", "enable", "mode", "ca_file", "trust"},
             NEW v \in {"us", "off", "on", "none", "manual", "ca_file"},
             NEW e \in BOOLEAN
      PROVE  Command(k, v, e) \in Commands
  BY DEF Command, Commands
<1>2. /\ Command("https", "us", TRUE) \in Commands
      /\ Command("http", "us", TRUE) \in Commands
      /\ Command("server", "us", FALSE) \in Commands
      /\ Command("enable", "on", FALSE) \in Commands
      /\ Command("mode", "manual", FALSE) \in Commands
      /\ Command("http", "us", FALSE) \in Commands
      /\ Command("https", "us", FALSE) \in Commands
  BY <1>1
<1>3. /\ Command("https", "off", TRUE) \in Commands
      /\ Command("http", "off", TRUE) \in Commands
      /\ Command("enable", "off", FALSE) \in Commands
      /\ Command("mode", "none", FALSE) \in Commands
  BY <1>1
<1>4. /\ Command("trust", "us", TRUE) \in Commands
      /\ Command("trust", "off", TRUE) \in Commands
      /\ Command("ca_file", "us", TRUE) \in Commands
      /\ Command("ca_file", "off", TRUE) \in Commands
      /\ Command("trust", "ca_file", TRUE) \in Commands
  BY <1>1
<1>5. \A a, b, c \in Commands : /\ <<a>> \in Seq(Commands) /\ <<a, b>> \in Seq(Commands)
                                 /\ <<a, b, c>> \in Seq(Commands)
  BY ShortLists
<1>6. /\ set_proxy_commands["macos"] \in Seq(Commands)
      /\ set_proxy_commands["windows"] \in Seq(Commands)
      /\ set_proxy_commands["linux"] \in Seq(Commands)
  BY <1>2, <1>5, Zenon DEF set_proxy_commands
<1>7. /\ clear_proxy_commands["macos"] \in Seq(Commands)
      /\ clear_proxy_commands["windows"] \in Seq(Commands)
      /\ clear_proxy_commands["linux"] \in Seq(Commands)
  BY <1>3, <1>5, Zenon DEF clear_proxy_commands
<1>8. /\ install_ca_commands["macos"] \in Seq(Commands)
      /\ install_ca_commands["windows"] \in Seq(Commands)
      /\ install_ca_commands["linux"] \in Seq(Commands)
  BY <1>4, <1>5, Zenon DEF install_ca_commands
<1>9. /\ uninstall_ca_commands["macos"] \in Seq(Commands)
      /\ uninstall_ca_commands["windows"] \in Seq(Commands)
      /\ uninstall_ca_commands["linux"] \in Seq(Commands)
  BY <1>4, <1>5, Zenon DEF uninstall_ca_commands
<1>10. QED
  BY <1>6, <1>7, <1>8, <1>9, Zenon DEF Platforms

\* Installing or removing the CA leaves the proxy settings alone.
LEMMA CaCommands ==
    ASSUME NEW o \in Platforms
    PROVE  CaOnly(install_ca_commands[o]) /\ CaOnly(uninstall_ca_commands[o])
BY DEF CaOnly, install_ca_commands, uninstall_ca_commands, Platforms, Command

\* The commands of a call.
LEMMA CommandsOf ==
    ASSUME SystemTypes, NEW kind \in {"set", "clear", "install", "uninstall", "exit"}
    PROVE  /\ commands_of(kind) \in Seq(Commands)
           /\ ~OfProxy(kind) => CaOnly(commands_of(kind))
           /\ kind = "clear" => commands_of(kind) = clear_proxy_commands[os]
           /\ kind = "exit" /\ engaged => commands_of(kind) = clear_proxy_commands[os]
           /\ kind = "exit" /\ ~engaged => commands_of(kind) = <<>>
<1>1. os \in Platforms
  BY DesktopAssumption DEF SystemTypes, Platforms
<1>2. /\ set_proxy_commands[os] \in Seq(Commands)
      /\ clear_proxy_commands[os] \in Seq(Commands)
      /\ install_ca_commands[os] \in Seq(Commands)
      /\ uninstall_ca_commands[os] \in Seq(Commands)
      /\ CaOnly(install_ca_commands[os]) /\ CaOnly(uninstall_ca_commands[os])
  BY <1>1, PlatformCommands, CaCommands
<1>3. <<>> \in Seq(Commands)
  OBVIOUS
<1>4. /\ commands_of("set") = set_proxy_commands[os]
      /\ commands_of("clear") = clear_proxy_commands[os]
      /\ commands_of("install") = install_ca_commands[os]
      /\ commands_of("uninstall") = uninstall_ca_commands[os]
      /\ commands_of("exit") = IF engaged THEN clear_proxy_commands[os] ELSE <<>>
  BY DEF commands_of
<1>5. QED
  BY <1>2, <1>3, <1>4 DEF OfProxy

After(s, c) == [s EXCEPT ![c.key] = IF c.value = "ca_file" THEN s.ca_file ELSE c.value]

\* Clearing goes on: after its last command the settings do not name the proxy.
LEMMA ClearStep ==
    ASSUME NEW o \in Platforms, NEW s \in Settings, NEW left, left # <<>>,
           ClearingAt(left, o, s)
    PROVE  ClearingAt(Tail(left), o, After(s, Head(left)))
<1> DEFINE off(k, e) == Command(k, "off", e)
<1>1. /\ clear_proxy_commands["macos"] = <<off("https", TRUE), off("http", TRUE)>>
      /\ clear_proxy_commands["windows"] = <<off("enable", FALSE)>>
      /\ clear_proxy_commands["linux"] = <<Command("mode", "none", FALSE)>>
  BY DEF clear_proxy_commands
<1>2. CASE o = "macos"
  <2>1. CASE left = <<off("https", TRUE), off("http", TRUE)>>
    <3>1. Head(left) = off("https", TRUE) /\ Tail(left) = <<off("http", TRUE)>>
      <4> HIDE DEF off
      <4>1. off("https", TRUE) \in {off("https", TRUE), off("http", TRUE)}
        OBVIOUS
      <4>2. off("http", TRUE) \in {off("https", TRUE), off("http", TRUE)}
        OBVIOUS
      <4>3. QED
        BY <2>1, <4>1, <4>2, ShortLists
    <3>2. After(s, Head(left)).https = "off"
      BY <3>1 DEF After, Command, Settings
    <3>3. QED
      BY <1>2, <3>1, <3>2 DEF ClearingAt
  <2>2. CASE left = <<off("http", TRUE)>> /\ s.https # "us"
    <3>1. Head(left) = off("http", TRUE) /\ Tail(left) = <<>>
      BY <2>2
    <3>2. After(s, Head(left)).http = "off" /\ After(s, Head(left)).https = s.https
      BY <3>1 DEF After, Command, Settings
    <3>3. ~Uses(o, After(s, Head(left)))
      BY <1>2, <2>2, <3>2 DEF Uses
    <3>4. QED
      BY <3>1, <3>3 DEF ClearingAt
  <2>3. QED
    BY <1>1, <1>2, <2>1, <2>2 DEF ClearingAt
<1>3. CASE o = "windows"
  <2>1. left = <<off("enable", FALSE)>>
    BY <1>1, <1>3 DEF ClearingAt
  <2>2. Head(left) = off("enable", FALSE) /\ Tail(left) = <<>>
    BY <2>1
  <2>3. After(s, Head(left)).enable = "off"
    BY <2>2 DEF After, Command, Settings
  <2>4. ~Uses(o, After(s, Head(left)))
    BY <1>3, <2>3 DEF Uses
  <2>5. QED
    BY <2>2, <2>4 DEF ClearingAt
<1>4. CASE o = "linux"
  <2>1. left = <<Command("mode", "none", FALSE)>>
    BY <1>1, <1>4 DEF ClearingAt
  <2>2. Head(left) = Command("mode", "none", FALSE) /\ Tail(left) = <<>>
    BY <2>1
  <2>3. After(s, Head(left)).mode = "none"
    BY <2>2 DEF After, Command, Settings
  <2>4. ~Uses(o, After(s, Head(left)))
    BY <1>4, <2>3 DEF Uses
  <2>5. QED
    BY <2>2, <2>4 DEF ClearingAt
<1>5. QED
  BY <1>2, <1>3, <1>4 DEF Platforms

\* A call that has cleared the settings leaves them without the proxy.
LEMMA ClearDone ==
    ASSUME NEW o \in Platforms, NEW s, ClearingAt(<<>>, o, s)
    PROVE  ~Uses(o, s)
<1>1. clear_proxy_commands[o] # <<>>
  BY DEF clear_proxy_commands, Platforms
<1>2. <<Command("http", "off", TRUE)>> # <<>>
  OBVIOUS
<1>3. QED
  BY <1>1, <1>2 DEF ClearingAt

\* A command of a call for the CA changes nothing the proxy settings depend on.
LEMMA CaStep ==
    ASSUME NEW o \in Platforms, NEW s \in Settings, NEW c \in Commands,
           c.key \in {"ca_file", "trust"}
    PROVE  /\ Uses(o, After(s, c)) <=> Uses(o, s)
           /\ \A left : ClearingAt(left, o, s) => ClearingAt(left, o, After(s, c))
<1>1. /\ After(s, c).https = s.https /\ After(s, c).http = s.http
      /\ After(s, c).server = s.server /\ After(s, c).enable = s.enable
      /\ After(s, c).mode = s.mode
  BY DEF After, Settings
<1>2. Uses(o, After(s, c)) <=> Uses(o, s)
  BY <1>1 DEF Uses
<1>3. QED
  BY <1>1, <1>2 DEF ClearingAt

\* The settings keep their shape.
LEMMA AfterTypes ==
    ASSUME NEW s \in Settings, NEW c \in Commands
    PROVE  After(s, c) \in Settings
<1>1. c.value \in Values /\ s.ca_file \in Values
  BY DEF Commands, Values, Settings
<1>2. QED
  BY <1>1 DEF After, Settings, Commands

\* What is left of a list of commands after its first.
LEMMA TailCommands ==
    ASSUME NEW left \in Seq(Commands), left # <<>>
    PROVE  /\ Head(left) \in Commands /\ Tail(left) \in Seq(Commands)
           /\ CaOnly(left) => Head(left).key \in {"ca_file", "trust"} /\ CaOnly(Tail(left))
<1>1. Head(left) \in Commands /\ Tail(left) \in Seq(Commands)
  OBVIOUS
<1>2. ASSUME CaOnly(left)
      PROVE  Head(left).key \in {"ca_file", "trust"} /\ CaOnly(Tail(left))
  <2>1. 1 \in 1..Len(left) /\ Head(left) = left[1]
    OBVIOUS
  <2>2. /\ Len(Tail(left)) = Len(left) - 1 /\ Len(left) \in Nat
        /\ \A k \in 1..Len(Tail(left)) : Tail(left)[k] = left[k + 1]
    OBVIOUS
  <2>3. \A k \in 1..Len(Tail(left)) : k + 1 \in 1..Len(left)
    BY <2>2
  <2>4. QED
    BY <1>2, <2>1, <2>2, <2>3 DEF CaOnly
<1>3. QED
  BY <1>1, <1>2

\* What the calls are once call i of this kind has begun.
Begun(i, kind) ==
    /\ calls' \in [Slots -> Call] /\ disturbed' \in BOOLEAN
    /\ calls'[i].kind = kind /\ calls'[i].left = commands_of(kind)
    /\ calls'[i].stage = "running" /\ (calls'[i].clean <=> ~Overlaps(kind))
    /\ \A j \in Slots \ {i} :
         /\ calls'[j].kind = calls[j].kind /\ calls'[j].left = calls[j].left
         /\ calls'[j].stage = calls[j].stage
         /\ calls'[j].clean <=> calls[j].clean /\ ~OfProxy(kind)
    /\ CallsOK'

\* A call that begins has its commands before it; it and the calls it shares
\* the settings with are not clean.
LEMMA NewCall ==
    ASSUME SystemInv, NEW i \in Slots, ~Active(i),
           NEW kind \in {"set", "clear", "install", "uninstall", "exit"},
           calls' = WithCall(i, kind), disturbed' = (disturbed \/ Overlaps(kind))
    PROVE  Begun(i, kind)
<1> DEFINE S == Seq(Commands)
<1>1. /\ calls \in [Slots -> Call] /\ disturbed \in BOOLEAN
      /\ \A j \in Slots : calls[j] \in Call /\ calls[j].clean \in BOOLEAN
      /\ Call = [kind : Kinds, left : S,
                 stage : {"none", "running", "orphan", "done", "failed"}, clean : BOOLEAN]
  BY DEF SystemInv, SystemTypes, Call
<1>2. /\ commands_of(kind) \in S
      /\ ~OfProxy(kind) => CaOnly(commands_of(kind))
  BY CommandsOf DEF SystemInv
<1>3. Overlaps(kind) \in BOOLEAN /\ OfProxy(kind) \in BOOLEAN /\ kind \in Kinds
  BY DEF Overlaps, OfProxy, Kinds
<1> HIDE DEF S
<1> DEFINE new    == [kind |-> kind, left |-> commands_of(kind), stage |-> "running",
                      clean |-> ~Overlaps(kind)]
           old(j) == [calls[j] EXCEPT !.clean = calls[j].clean /\ ~OfProxy(kind)]
<1>4. calls' = [j \in Slots |-> IF j = i THEN new ELSE old(j)]
  BY DEF WithCall
<1>5. /\ new \in Call
      /\ new.kind = kind /\ new.left = commands_of(kind) /\ new.stage = "running"
      /\ new.clean <=> ~Overlaps(kind)
  BY <1>1, <1>2, <1>3
<1>6. \A j \in Slots : /\ old(j) \in Call
                       /\ old(j).kind = calls[j].kind /\ old(j).left = calls[j].left
                       /\ old(j).stage = calls[j].stage
                       /\ old(j).clean <=> calls[j].clean /\ ~OfProxy(kind)
  BY <1>1, <1>3
<1> HIDE DEF new, old
<1>7. calls'[i] = new /\ \A j \in Slots \ {i} : calls'[j] = old(j)
  BY <1>4
<1>8. /\ calls' \in [Slots -> Call]
      /\ calls'[i].kind = kind /\ calls'[i].left = commands_of(kind)
      /\ calls'[i].stage = "running" /\ (calls'[i].clean <=> ~Overlaps(kind))
      /\ \A j \in Slots \ {i} :
           /\ calls'[j].kind = calls[j].kind /\ calls'[j].left = calls[j].left
           /\ calls'[j].stage = calls[j].stage
           /\ calls'[j].clean <=> calls[j].clean /\ ~OfProxy(kind)
  BY <1>4, <1>5, <1>6, <1>7
<1>9. /\ Active(i)' /\ (ProxyCall(i)' <=> OfProxy(kind)) /\ ~ProxyCall(i)
      /\ \A j \in Slots \ {i} : /\ Active(j)' <=> Active(j)
                                /\ ProxyCall(j)' <=> ProxyCall(j)
  BY <1>8 DEF Active, ProxyCall
<1>10. Overlaps(kind) <=> OfProxy(kind) /\ \E j \in Slots : ProxyCall(j)
  BY DEF Overlaps, ProxyCall
<1>11. CallsOK
  BY DEF SystemInv
<1>12. \A j \in Slots : /\ Active(j)' /\ ~OfProxy(calls'[j].kind) => CaOnly(calls'[j].left)
                        /\ calls'[j].stage = "orphan" => ~calls'[j].clean
  BY <1>2, <1>8, <1>9, <1>11 DEF CallsOK
<1>13. \A h, j \in Slots : ProxyCall(h)' /\ calls'[h].clean /\ ProxyCall(j)' => h = j
  BY <1>8, <1>9, <1>10, <1>11 DEF CallsOK
<1>14. ~disturbed' => \A j \in Slots : ProxyCall(j)' => calls'[j].clean
  BY <1>8, <1>9, <1>10, <1>11 DEF CallsOK
<1>15. CallsOK'
  BY <1>12, <1>13, <1>14 DEF CallsOK
<1>16. disturbed' \in BOOLEAN
  BY <1>3
<1>17. QED
  BY <1>8, <1>15, <1>16 DEF Begun

\* The slot of the next call is the first that is free.
LEMMA NextSlot ==
    ASSUME SystemInv, NEW i, i = Cardinality({j \in 1..MaxCalls : calls[j].stage # "none"}) + 1,
           i <= MaxCalls
    PROVE  /\ i \in 1..MaxCalls /\ i \in Slots /\ i # ExitSlot /\ calls[i].stage = "none"
           /\ \A j \in 1..MaxCalls : calls[j].stage # "none" <=> j <= i - 1
<1>1. PICK k \in 0..MaxCalls : \A j \in 1..MaxCalls : calls[j].stage # "none" <=> j <= k
  BY DEF SystemInv, SlotsOK
<1>2. MaxCalls \in Nat
  BY DesktopAssumption
<1>3. {j \in 1..MaxCalls : calls[j].stage # "none"} = 1..k
  BY <1>1, <1>2
<1>4. Cardinality(1..k) = k
  BY <1>1, <1>2, FS_Interval
<1>5. i = k + 1
  BY <1>1, <1>3, <1>4
<1>6. i \in 1..MaxCalls /\ i \in Slots /\ i # ExitSlot /\ i - 1 = k /\ ~(i <= k)
  <2>1. k + 1 <= MaxCalls
    BY <1>5
  <2>2. QED
    BY <1>2, <1>5, <2>1 DEF Slots, ExitSlot
<1>7. QED
  BY <1>1, <1>6

\* What SystemInv says of the slots, for a step that keeps which are used and
\* what they are used for.
LEMMA SlotsKept ==
    ASSUME SlotsOK, app' = app,
           \A j \in Slots : /\ calls'[j].kind = calls[j].kind
                            /\ calls'[j].stage = "none" <=> calls[j].stage = "none"
                            /\ calls'[j].stage \in {"running", "orphan"} =>
                                 calls'[j].stage = calls[j].stage
    PROVE  SlotsOK'
<1>1. 1..MaxCalls \subseteq Slots /\ ExitSlot \in Slots
  BY DesktopAssumption DEF Slots, ExitSlot
<1>2. \E k \in 0..MaxCalls : \A j \in 1..MaxCalls : calls'[j].stage # "none" <=> j <= k
  BY <1>1 DEF SlotsOK
<1>3. \A j \in 1..MaxCalls : calls'[j].kind # "exit"
  BY <1>1 DEF SlotsOK
<1>4. calls'[ExitSlot].kind \in {"none", "exit"}
  BY <1>1 DEF SlotsOK
<1>5. app' = "up" => calls'[ExitSlot].stage \notin {"running", "orphan"}
  BY <1>1 DEF SlotsOK, Active
<1>6. app' = "down" => \A j \in Slots : calls'[j].stage # "running"
  BY DEF SlotsOK
<1>7. QED
  BY <1>2, <1>3, <1>4, <1>5, <1>6 DEF SlotsOK, Active, ExitSlot

\* set_system_proxy, clear_system_proxy, install_ca, uninstall_ca.
LEMMA BeginStep ==
    ASSUME SystemInv, NEW kind \in {"set", "clear", "install", "uninstall"}, begin(kind)
    PROVE  SystemInv'
<1>1. /\ app = "up" /\ app' = "up" /\ disturbed' = (disturbed \/ Overlaps(kind))
      /\ UNCHANGED <<os, settings, engaged>>
  BY DEF begin
<1>2. PICK i : /\ i = Cardinality({j \in 1..MaxCalls : calls[j].stage # "none"}) + 1
               /\ i <= MaxCalls
               /\ calls' = WithCall(i, kind)
  BY DEF begin
<1>3. /\ i \in 1..MaxCalls /\ i \in Slots /\ i # ExitSlot /\ calls[i].stage = "none"
      /\ \A j \in 1..MaxCalls : calls[j].stage # "none" <=> j <= i - 1
  BY <1>2, NextSlot
<1>4. ~Active(i) /\ ~ProxyCall(i)
  BY <1>3 DEF Active, ProxyCall
<1> kind \in {"set", "clear", "install", "uninstall", "exit"}
  OBVIOUS
<1>5. /\ calls' \in [Slots -> Call] /\ disturbed' \in BOOLEAN
      /\ calls'[i].kind = kind /\ calls'[i].left = commands_of(kind)
      /\ calls'[i].stage = "running" /\ (calls'[i].clean <=> ~Overlaps(kind))
      /\ \A j \in Slots \ {i} :
           /\ calls'[j].kind = calls[j].kind /\ calls'[j].left = calls[j].left
           /\ calls'[j].stage = calls[j].stage
           /\ calls'[j].clean <=> calls[j].clean /\ ~OfProxy(kind)
      /\ CallsOK'
  <2>1. Begun(i, kind)
    BY <1>1, <1>2, <1>3, <1>4, NewCall
  <2>2. QED
    BY <2>1 DEF Begun
<1>6. SystemTypes'
  BY <1>1, <1>5 DEF SystemInv, SystemTypes
<1>7. /\ MaxCalls \in Nat /\ 1..MaxCalls \subseteq Slots /\ ExitSlot \in Slots
      /\ ExitSlot \notin 1..MaxCalls
  BY DesktopAssumption DEF Slots, ExitSlot
<1>8. SlotsOK'
  <2>1. i \in 0..MaxCalls /\ \A j \in 1..MaxCalls : calls'[j].stage # "none" <=> j <= i
    <3>1. ASSUME NEW j \in 1..MaxCalls
          PROVE  calls'[j].stage # "none" <=> j <= i
      <4>1. CASE j = i
        BY <1>5, <4>1
      <4>2. CASE j # i
        <5>1. calls'[j].stage = calls[j].stage
          BY <1>5, <1>7, <4>2
        <5>2. j <= i <=> j <= i - 1
          BY <1>3, <1>7, <4>2
        <5>3. QED
          BY <1>3, <5>1, <5>2
      <4>3. QED
        BY <4>1, <4>2
    <3>2. QED
      BY <1>3, <1>7, <3>1
  <2>2. \A j \in 1..MaxCalls : calls'[j].kind # "exit"
    BY <1>5, <1>7 DEF SystemInv, SlotsOK
  <2>3. calls'[ExitSlot].kind \in {"none", "exit"}
    BY <1>3, <1>5, <1>7 DEF SystemInv, SlotsOK
  <2>4. calls'[ExitSlot].stage \notin {"running", "orphan"}
    BY <1>1, <1>3, <1>5, <1>7 DEF SystemInv, SlotsOK, Active
  <2>5. QED
    BY <1>1, <2>1, <2>2, <2>3, <2>4 DEF SlotsOK, Active, ExitSlot
<1>9. \A j \in Slots \ {i} : ProxyCall(j)' <=> ProxyCall(j)
  BY <1>5 DEF ProxyCall, Active
<1>10. SettingsOK
  BY DEF SystemInv
<1>11. \A j \in Slots \ {i} : Clearing(j)' <=> Clearing(j)
  BY <1>1, <1>5 DEF Clearing
<1>12. \A j \in Slots : ProxyCall(j)' /\ calls'[j].clean =>
          /\ calls'[j].kind = "clear" => Clearing(j)'
          /\ calls'[j].kind = "exit" /\ (engaged' \/ ~disturbed') => Clearing(j)'
  <2>1. ASSUME NEW j \in Slots, j # i, ProxyCall(j)', calls'[j].clean
        PROVE  /\ calls'[j].kind = "clear" => Clearing(j)'
               /\ calls'[j].kind = "exit" /\ (engaged' \/ ~disturbed') => Clearing(j)'
    BY <1>1, <1>5, <1>9, <1>10, <1>11, <2>1 DEF SettingsOK
  <2>2. kind = "clear" => Clearing(i)'
    <3>1. kind = "clear" => calls'[i].left = clear_proxy_commands[os]
      BY <1>5, CommandsOf DEF SystemInv
    <3>2. QED
      BY <1>1, <3>1 DEF Clearing, ClearingAt
  <2>3. kind # "exit"
    OBVIOUS
  <2>4. QED
    BY <1>5, <2>1, <2>2, <2>3
<1>13. ~disturbed' /\ (\A j \in Slots : ~ProxyCall(j)') /\ Uses(os', settings') => engaged'
  BY <1>1, <1>4, <1>9, <1>10 DEF SettingsOK
<1>14. SettingsOK'
  BY <1>1, <1>12, <1>13 DEF SettingsOK
<1>15. QED
  BY <1>5, <1>6, <1>8, <1>14 DEF SystemInv

\* teardown.
LEMMA TeardownStep ==
    ASSUME SystemInv, teardown
    PROVE  SystemInv'
<1> DEFINE i == ExitSlot
<1>1. /\ app = "up" /\ app' = "exiting" /\ disturbed' = (disturbed \/ Overlaps("exit"))
      /\ calls' = WithCall(i, "exit")
      /\ UNCHANGED <<os, settings, engaged>>
  BY DEF teardown, ExitSlot
<1>2. /\ MaxCalls \in Nat /\ 1..MaxCalls \subseteq Slots /\ i \in Slots
      /\ i \notin 1..MaxCalls
  BY DesktopAssumption DEF Slots, ExitSlot
<1>3. ~Active(i) /\ ~ProxyCall(i)
  BY <1>1 DEF SystemInv, SlotsOK, ProxyCall
<1> HIDE DEF i
<1>4. /\ calls' \in [Slots -> Call] /\ disturbed' \in BOOLEAN
      /\ calls'[i].kind = "exit" /\ calls'[i].left = commands_of("exit")
      /\ calls'[i].stage = "running" /\ (calls'[i].clean <=> ~Overlaps("exit"))
      /\ \A j \in Slots \ {i} :
           /\ calls'[j].kind = calls[j].kind /\ calls'[j].left = calls[j].left
           /\ calls'[j].stage = calls[j].stage
           /\ calls'[j].clean <=> calls[j].clean /\ ~OfProxy("exit")
      /\ CallsOK'
  <2>1. Begun(i, "exit")
    BY <1>1, <1>2, <1>3, NewCall
  <2>2. QED
    BY <2>1 DEF Begun
<1>5. SystemTypes'
  BY <1>1, <1>4 DEF SystemInv, SystemTypes
<1>6. SlotsOK'
  <2>1. \A j \in 1..MaxCalls : calls'[j].kind = calls[j].kind /\ calls'[j].stage = calls[j].stage
    BY <1>2, <1>4
  <2>2. \E k \in 0..MaxCalls : \A j \in 1..MaxCalls : calls'[j].stage # "none" <=> j <= k
    BY <2>1 DEF SystemInv, SlotsOK
  <2>3. \A j \in 1..MaxCalls : calls'[j].kind # "exit"
    BY <2>1 DEF SystemInv, SlotsOK
  <2>4. calls'[ExitSlot].kind \in {"none", "exit"}
    BY <1>4 DEF i
  <2>5. QED
    BY <1>1, <2>2, <2>3, <2>4 DEF SlotsOK, ExitSlot
<1>7. \A j \in Slots \ {i} : ~calls'[j].clean
  BY <1>4 DEF OfProxy
<1>8. Overlaps("exit") <=> \E j \in Slots : ProxyCall(j)
  BY DEF Overlaps, ProxyCall, OfProxy
<1>9. ~Overlaps("exit") /\ (engaged \/ ~disturbed') => Clearing(i)'
  <2>1. engaged => calls'[i].left = clear_proxy_commands[os]
    BY <1>4, CommandsOf DEF SystemInv
  <2>2. ~engaged => calls'[i].left = <<>>
    BY <1>4, CommandsOf DEF SystemInv
  <2>3. ~Overlaps("exit") /\ ~disturbed' /\ ~engaged => ~Uses(os, settings)
    BY <1>1, <1>8 DEF SystemInv, SettingsOK
  <2>4. QED
    BY <1>1, <2>1, <2>2, <2>3 DEF Clearing, ClearingAt
<1>10. \A j \in Slots : ProxyCall(j)' /\ calls'[j].clean =>
          /\ calls'[j].kind = "clear" => Clearing(j)'
          /\ calls'[j].kind = "exit" /\ (engaged' \/ ~disturbed') => Clearing(j)'
  BY <1>1, <1>4, <1>7, <1>9
<1>11. \/ calls'[i].kind = "exit" /\ calls'[i].stage = "running" /\ calls'[i].clean
       \/ disturbed' /\ ~calls'[i].clean
  BY <1>1, <1>4
<1>12. \A j \in 1..MaxCalls : ~calls'[j].clean
  BY <1>2, <1>7
<1>13. SettingsOK'
  BY <1>1, <1>10, <1>11, <1>12 DEF SettingsOK, ExitSlot, i
<1>14. QED
  BY <1>4, <1>5, <1>6, <1>13 DEF SystemInv

\* What the calls are after a step of call i.
Stepped(i, left, stage, clean) ==
    /\ calls' \in [Slots -> Call]
    /\ calls'[i].kind = calls[i].kind /\ calls'[i].left = left
    /\ calls'[i].stage = stage /\ calls'[i].clean = clean
    /\ \A j \in Slots \ {i} : calls'[j] = calls[j]

\* A step of call i: the other calls stay as they are, its kind too.
LEMMA OneCall ==
    ASSUME SystemTypes, NEW i \in Slots, NEW left \in Seq(Commands), NEW clean \in BOOLEAN,
           NEW stage \in {"none", "running", "orphan", "done", "failed"},
           calls' = [calls EXCEPT ![i].left = left, ![i].stage = stage, ![i].clean = clean]
    PROVE  Stepped(i, left, stage, clean)
<1> DEFINE S == Seq(Commands)
<1>1. /\ calls \in [Slots -> Call] /\ left \in S
      /\ Call = [kind : Kinds, left : S,
                 stage : {"none", "running", "orphan", "done", "failed"}, clean : BOOLEAN]
  BY DEF SystemTypes, Call
<1> HIDE DEF S
<1>2. QED
  BY <1>1, ZenonT(60) DEF Stepped

\* The fields of a call.
LEMMA CallFields ==
    ASSUME SystemTypes, NEW i \in Slots
    PROVE  /\ calls[i] \in Call
           /\ calls[i].kind \in Kinds /\ calls[i].left \in Seq(Commands)
           /\ calls[i].stage \in {"none", "running", "orphan", "done", "failed"}
           /\ calls[i].clean \in BOOLEAN
<1> DEFINE S == Seq(Commands)
<1>1. /\ calls \in [Slots -> Call]
      /\ Call = [kind : Kinds, left : S,
                 stage : {"none", "running", "orphan", "done", "failed"}, clean : BOOLEAN]
  BY DEF SystemTypes, Call
<1> HIDE DEF S
<1>2. /\ calls[i] \in Call /\ calls[i].kind \in Kinds /\ calls[i].left \in S
      /\ calls[i].stage \in {"none", "running", "orphan", "done", "failed"}
      /\ calls[i].clean \in BOOLEAN
  BY <1>1
<1>3. QED
  BY <1>2 DEF S

\* A command that succeeds.
LEMMA SucceedStep ==
    ASSUME SystemInv, NEW i \in Slots, command_succeeds(i)
    PROVE  SystemInv'
<1> DEFINE c == Head(calls[i].left)
<1>1. /\ Active(i) /\ calls[i].left # <<>>
      /\ settings' = After(settings, c)
      /\ calls' = [calls EXCEPT ![i].left = Tail(calls[i].left)]
      /\ UNCHANGED <<app, os, engaged, disturbed>>
  BY DEF command_succeeds, effect, After
<1>2. /\ SystemTypes /\ SlotsOK /\ CallsOK /\ SettingsOK
      /\ settings \in Settings /\ os \in Platforms
  BY DesktopAssumption DEF SystemInv, SystemTypes, Platforms
<1>3. /\ calls[i].left \in Seq(Commands) /\ calls[i].clean \in BOOLEAN
      /\ calls[i].stage \in {"none", "running", "orphan", "done", "failed"}
  BY <1>2, CallFields
<1>4. /\ c \in Commands /\ Tail(calls[i].left) \in Seq(Commands)
      /\ CaOnly(calls[i].left) => c.key \in {"ca_file", "trust"} /\ CaOnly(Tail(calls[i].left))
  BY <1>1, <1>3, TailCommands
<1>5. settings' \in Settings
  BY <1>1, <1>2, <1>4, AfterTypes
<1>6. /\ calls' \in [Slots -> Call]
      /\ calls'[i].kind = calls[i].kind /\ calls'[i].left = Tail(calls[i].left)
      /\ calls'[i].stage = calls[i].stage /\ calls'[i].clean = calls[i].clean
      /\ \A j \in Slots \ {i} : calls'[j] = calls[j]
  <2>1. calls' = [calls EXCEPT ![i].left = Tail(calls[i].left),
                               ![i].stage = calls[i].stage, ![i].clean = calls[i].clean]
    <3> DEFINE tail == Tail(calls[i].left)
    <3>1. calls \in [Slots -> Call] /\ calls[i] \in Call
      BY <1>2, CallFields DEF SystemTypes
    <3>2. calls' = [calls EXCEPT ![i].left = tail]
      BY <1>1
    <3> HIDE DEF tail
    <3>3. calls' = [calls EXCEPT ![i].left = tail, ![i].stage = calls[i].stage,
                                 ![i].clean = calls[i].clean]
      BY <3>1, <3>2 DEF Call
    <3>4. QED
      BY <3>3 DEF tail
  <2>2. Stepped(i, Tail(calls[i].left), calls[i].stage, calls[i].clean)
    BY <1>2, <1>3, <1>4, <2>1, OneCall
  <2>3. QED
    BY <2>2 DEF Stepped
<1> HIDE DEF c
<1>7. SystemTypes'
  BY <1>1, <1>2, <1>5, <1>6 DEF SystemTypes
<1>8. SlotsOK'
  <2>1. \A j \in Slots : /\ calls'[j].kind = calls[j].kind
                         /\ calls'[j].stage = calls[j].stage
                         /\ calls'[j].clean = calls[j].clean
    BY <1>6
  <2>2. QED
    BY <1>1, <1>2, <2>1, SlotsKept
<1>9. \A j \in Slots : (Active(j)' <=> Active(j)) /\ (ProxyCall(j)' <=> ProxyCall(j))
  BY <1>6 DEF Active, ProxyCall
<1>10. CallsOK'
  <2>1. \A j \in Slots : /\ Active(j)' /\ ~OfProxy(calls'[j].kind) => CaOnly(calls'[j].left)
                         /\ calls'[j].stage = "orphan" => ~calls'[j].clean
    BY <1>2, <1>4, <1>6, <1>9 DEF CallsOK
  <2>2. \A h, j \in Slots : ProxyCall(h)' /\ calls'[h].clean /\ ProxyCall(j)' => h = j
    BY <1>2, <1>6, <1>9 DEF CallsOK
  <2>3. ~disturbed' => \A j \in Slots : ProxyCall(j)' => calls'[j].clean
    BY <1>1, <1>2, <1>6, <1>9 DEF CallsOK
  <2>4. QED
    BY <2>1, <2>2, <2>3 DEF CallsOK
<1>11. app' = "exiting" =>
         /\ \/ /\ calls'[ExitSlot].kind = "exit" /\ calls'[ExitSlot].stage = "running"
               /\ calls'[ExitSlot].clean
            \/ disturbed' /\ ~calls'[ExitSlot].clean
         /\ \A j \in 1..MaxCalls : ~calls'[j].clean
  <2>1. ExitSlot \in Slots /\ 1..MaxCalls \subseteq Slots
    BY DesktopAssumption DEF Slots, ExitSlot
  <2>2. QED
    BY <1>1, <1>2, <1>6, <2>1 DEF SettingsOK
<1>12. CASE ~ProxyCall(i)
  <2>1. /\ Uses(os, settings') <=> Uses(os, settings)
        /\ \A left : ClearingAt(left, os, settings) => ClearingAt(left, os, settings')
    <3>1. c.key \in {"ca_file", "trust"}
      BY <1>1, <1>2, <1>4, <1>12 DEF CallsOK, ProxyCall
    <3>2. QED
      BY <1>1, <1>2, <1>4, <3>1, CaStep
  <2>2. \A j \in Slots : ProxyCall(j) /\ Clearing(j) => Clearing(j)'
    BY <1>1, <1>6, <1>12, <2>1 DEF Clearing
  <2>3. \A j \in Slots : ProxyCall(j)' /\ calls'[j].clean =>
          /\ calls'[j].kind = "clear" => Clearing(j)'
          /\ calls'[j].kind = "exit" /\ (engaged' \/ ~disturbed') => Clearing(j)'
    BY <1>1, <1>2, <1>6, <1>9, <2>2 DEF SettingsOK
  <2>4. QED
    <3>1. SettingsOK'
      <4>1. ~disturbed' =>
              /\ app' = "up" /\ (\A j \in Slots : ~ProxyCall(j)') /\ Uses(os', settings')
                   => engaged'
              /\ app' = "down" => ~Uses(os', settings')
        BY <1>1, <1>2, <1>9, <2>1 DEF SettingsOK
      <4>2. QED
        BY <1>11, <2>3, <4>1 DEF SettingsOK, ExitSlot
    <3>2. QED
      BY <1>7, <1>8, <1>10, <3>1 DEF SystemInv
<1>13. CASE ProxyCall(i)
  <2>1. calls[i].clean /\ Clearing(i) => Clearing(i)'
    BY <1>1, <1>2, <1>6, ClearStep DEF Clearing, c
  <2>2. \A j \in Slots : ProxyCall(j) /\ calls[j].clean => j = i
    BY <1>2, <1>13 DEF CallsOK
  <2>3. \A j \in Slots : ProxyCall(j)' /\ calls'[j].clean =>
          /\ calls'[j].kind = "clear" => Clearing(j)'
          /\ calls'[j].kind = "exit" /\ (engaged' \/ ~disturbed') => Clearing(j)'
    BY <1>1, <1>2, <1>6, <1>9, <2>1, <2>2 DEF SettingsOK
  <2>4. app = "down" => disturbed
    BY <1>2, <1>13 DEF CallsOK, SlotsOK, ProxyCall, Active
  <2>5. QED
    <3>1. SettingsOK'
      <4>1. ~disturbed' =>
              /\ app' = "up" /\ (\A j \in Slots : ~ProxyCall(j)') /\ Uses(os', settings')
                   => engaged'
              /\ app' = "down" => ~Uses(os', settings')
        BY <1>1, <1>9, <1>13, <2>4
      <4>2. QED
        BY <1>11, <2>3, <4>1 DEF SettingsOK, ExitSlot
    <3>2. QED
      BY <1>7, <1>8, <1>10, <3>1 DEF SystemInv
<1>14. QED
  BY <1>12, <1>13

\* A command that fails, or cannot be run: the call is no longer clean.
LEMMA FailStep ==
    ASSUME SystemInv, NEW i \in Slots, command_fails(i) \/ not_run(i)
    PROVE  SystemInv'
<1>1. /\ Active(i) /\ calls[i].left # <<>>
      /\ disturbed' = (disturbed \/ OfProxy(calls[i].kind))
      /\ UNCHANGED <<app, os, settings, engaged>>
  BY DEF command_fails, not_run, Active
<1>2. /\ SystemTypes /\ SlotsOK /\ CallsOK /\ SettingsOK
      /\ disturbed \in BOOLEAN
  BY DEF SystemInv, SystemTypes
<1>3. /\ calls[i].left \in Seq(Commands)
      /\ calls[i].stage \in {"none", "running", "orphan", "done", "failed"}
  BY <1>2, CallFields
<1>4. PICK left \in {<<>>, Tail(calls[i].left)}, stage \in {calls[i].stage, "failed"} :
        calls' = [calls EXCEPT ![i].left = left, ![i].stage = stage, ![i].clean = FALSE]
  <2>1. CASE not_run(i)
    BY <2>1 DEF not_run
  <2>2. CASE command_fails(i)
    <3>1. CASE exit_ignored(Head(calls[i].left))
      BY <2>2, <3>1 DEF command_fails
    <3>2. CASE ~exit_ignored(Head(calls[i].left))
      BY <2>2, <3>2 DEF command_fails
    <3>3. QED
      BY <3>1, <3>2
  <2>3. QED
    BY <2>1, <2>2
<1>5. left \in Seq(Commands) /\ (CaOnly(calls[i].left) => CaOnly(left))
  <2>1. <<>> \in Seq(Commands) /\ CaOnly(<<>>)
    BY DEF CaOnly
  <2>2. /\ Tail(calls[i].left) \in Seq(Commands)
        /\ CaOnly(calls[i].left) => CaOnly(Tail(calls[i].left))
    BY <1>1, <1>3, TailCommands
  <2>3. QED
    BY <1>4, <2>1, <2>2
<1>6. /\ calls' \in [Slots -> Call]
      /\ calls'[i].kind = calls[i].kind /\ calls'[i].left = left
      /\ calls'[i].stage = stage /\ ~calls'[i].clean
      /\ \A j \in Slots \ {i} : calls'[j] = calls[j]
  <2>1. Stepped(i, left, stage, FALSE)
    <3>1. stage \in {"none", "running", "orphan", "done", "failed"}
      BY <1>3, <1>4
    <3>2. QED
      BY <1>2, <1>4, <1>5, <3>1, OneCall
  <2>2. QED
    BY <2>1 DEF Stepped
<1>7. SystemTypes'
  <2>1. disturbed' \in BOOLEAN
    BY <1>1, <1>2 DEF OfProxy
  <2>2. QED
    BY <1>1, <1>2, <1>6, <2>1 DEF SystemTypes
<1>8. SlotsOK'
  <2>1. \A j \in Slots : /\ calls'[j].kind = calls[j].kind
                         /\ calls'[j].stage = "none" <=> calls[j].stage = "none"
                         /\ calls'[j].stage \in {"running", "orphan"} =>
                              calls'[j].stage = calls[j].stage
    BY <1>1, <1>4, <1>6 DEF Active
  <2>2. QED
    BY <1>1, <1>2, <2>1, SlotsKept
<1>9. /\ Active(i)' => Active(i)
      /\ ProxyCall(i)' => ProxyCall(i)
      /\ ProxyCall(i) => disturbed'
      /\ \A j \in Slots \ {i} : (Active(j)' <=> Active(j)) /\ (ProxyCall(j)' <=> ProxyCall(j))
  BY <1>1, <1>6 DEF Active, ProxyCall
<1>10. CallsOK'
  <2>1. \A j \in Slots : /\ Active(j)' /\ ~OfProxy(calls'[j].kind) => CaOnly(calls'[j].left)
                         /\ calls'[j].stage = "orphan" => ~calls'[j].clean
    BY <1>2, <1>5, <1>6, <1>9 DEF CallsOK
  <2>2. \A h, j \in Slots : ProxyCall(h)' /\ calls'[h].clean /\ ProxyCall(j)' => h = j
    BY <1>2, <1>6, <1>9 DEF CallsOK
  <2>3. ~disturbed' => \A j \in Slots : ProxyCall(j)' => calls'[j].clean
    BY <1>1, <1>2, <1>6, <1>9 DEF CallsOK
  <2>4. QED
    BY <2>1, <2>2, <2>3 DEF CallsOK
<1>11. app' = "exiting" =>
         /\ \/ /\ calls'[ExitSlot].kind = "exit" /\ calls'[ExitSlot].stage = "running"
               /\ calls'[ExitSlot].clean
            \/ disturbed' /\ ~calls'[ExitSlot].clean
         /\ \A j \in 1..MaxCalls : ~calls'[j].clean
  <2>1. ExitSlot \in Slots /\ 1..MaxCalls \subseteq Slots
    BY DesktopAssumption DEF Slots, ExitSlot
  <2>2. app = "exiting" =>
          \/ /\ calls[ExitSlot].kind = "exit" /\ calls[ExitSlot].stage = "running"
             /\ calls[ExitSlot].clean
          \/ disturbed /\ ~calls[ExitSlot].clean
    BY <1>2 DEF SettingsOK
  <2>3. CASE i = ExitSlot
    <3>1. calls[i].kind = "exit" => disturbed'
      BY <1>1 DEF OfProxy
    <3>2. app' = "exiting" => disturbed' /\ ~calls'[ExitSlot].clean
      BY <1>1, <1>6, <2>2, <2>3, <3>1
    <3>3. app' = "exiting" => \A j \in 1..MaxCalls : ~calls'[j].clean
      BY <1>1, <1>2, <1>6, <2>1 DEF SettingsOK
    <3>4. QED
      BY <3>2, <3>3
  <2>4. CASE i # ExitSlot
    <3>1. calls'[ExitSlot] = calls[ExitSlot] /\ (disturbed => disturbed')
      BY <1>1, <1>6, <2>1, <2>4
    <3>2. app' = "exiting" => \A j \in 1..MaxCalls : ~calls'[j].clean
      BY <1>1, <1>2, <1>6, <2>1 DEF SettingsOK
    <3>3. QED
      BY <1>1, <2>2, <3>1, <3>2
  <2>5. QED
    BY <2>3, <2>4
<1>12. \A j \in Slots \ {i} : Clearing(j)' <=> Clearing(j)
  BY <1>1, <1>6 DEF Clearing
<1>13. \A j \in Slots : ProxyCall(j)' /\ calls'[j].clean =>
          /\ calls'[j].kind = "clear" => Clearing(j)'
          /\ calls'[j].kind = "exit" /\ (engaged' \/ ~disturbed') => Clearing(j)'
  BY <1>1, <1>2, <1>6, <1>9, <1>12 DEF SettingsOK
<1>14. ~disturbed' =>
         /\ app' = "up" /\ (\A j \in Slots : ~ProxyCall(j)') /\ Uses(os', settings') => engaged'
         /\ app' = "down" => ~Uses(os', settings')
  BY <1>1, <1>2, <1>9 DEF SettingsOK
<1>15. SettingsOK'
  BY <1>11, <1>13, <1>14 DEF SettingsOK, ExitSlot
<1>16. QED
  BY <1>7, <1>8, <1>10, <1>15 DEF SystemInv

\* The end of a call: the flag follows it, and a clean call that set or cleared
\* the proxy is the end of the trouble.
LEMMA FinishStep ==
    ASSUME SystemInv, NEW i \in Slots, finish(i)
    PROVE  SystemInv'
<1>1. /\ Active(i) /\ calls[i].left = <<>>
      /\ calls[i].kind = "exit" => calls[i].stage = "orphan"
      /\ calls' = [calls EXCEPT ![i].stage = "done"]
      /\ disturbed' = (disturbed /\ ~(calls[i].clean /\ OfProxy(calls[i].kind)))
      /\ UNCHANGED <<app, os, settings>>
  BY DEF finish, Ending
<1>2. /\ SystemTypes /\ SlotsOK /\ CallsOK /\ SettingsOK
      /\ disturbed \in BOOLEAN /\ engaged \in BOOLEAN
      /\ settings \in Settings /\ os \in Platforms
  BY DesktopAssumption DEF SystemInv, SystemTypes, Platforms
<1>3. /\ calls[i].left \in Seq(Commands) /\ calls[i].kind \in Kinds
      /\ calls[i].clean \in BOOLEAN
  BY <1>2, CallFields
<1>4. /\ engaged' \in BOOLEAN
      /\ calls[i].kind \notin {"set", "clear"} => engaged' = engaged
      /\ calls[i].stage # "orphan" /\ calls[i].kind = "set" => engaged' = TRUE
  <2>1. engaged' = CASE calls[i].stage = "orphan" -> engaged
                     [] calls[i].kind = "set"     -> TRUE
                     [] calls[i].kind = "clear"   -> FALSE
                     [] OTHER                     -> engaged
    BY DEF finish
  <2>2. CASE calls[i].stage = "orphan"
    BY <1>2, <2>1, <2>2
  <2>3. CASE calls[i].stage # "orphan" /\ calls[i].kind = "set"
    BY <1>2, <2>1, <2>3
  <2>4. CASE calls[i].stage # "orphan" /\ calls[i].kind = "clear"
    BY <1>2, <2>1, <2>4
  <2>5. CASE calls[i].stage # "orphan" /\ calls[i].kind \notin {"set", "clear"}
    BY <1>2, <2>1, <2>5
  <2>6. QED
    BY <2>2, <2>3, <2>4, <2>5
<1>5. /\ calls' \in [Slots -> Call]
      /\ calls'[i].kind = calls[i].kind
      /\ calls'[i].stage = "done" /\ calls'[i].clean = calls[i].clean
      /\ \A j \in Slots \ {i} : calls'[j] = calls[j]
  <2>1. calls \in [Slots -> Call] /\ calls[i] \in Call
    BY <1>2, CallFields DEF SystemTypes
  <2>2. calls' = [calls EXCEPT ![i].left = calls[i].left, ![i].stage = "done",
                               ![i].clean = calls[i].clean]
    BY <1>1, <2>1 DEF Call
  <2>3. Stepped(i, calls[i].left, "done", calls[i].clean)
    BY <1>2, <1>3, <2>2, OneCall
  <2>4. QED
    BY <2>3 DEF Stepped
<1>6. SystemTypes'
  <2>1. disturbed' \in BOOLEAN
    BY <1>1, <1>2
  <2>2. QED
    BY <1>1, <1>2, <1>4, <1>5, <2>1 DEF SystemTypes
<1>7. SlotsOK'
  <2>1. \A j \in Slots : /\ calls'[j].kind = calls[j].kind
                         /\ calls'[j].stage = "none" <=> calls[j].stage = "none"
                         /\ calls'[j].stage \in {"running", "orphan"} =>
                              calls'[j].stage = calls[j].stage
    BY <1>1, <1>5 DEF Active
  <2>2. QED
    BY <1>1, <1>2, <2>1, SlotsKept
<1>8. /\ ~Active(i)' /\ ~ProxyCall(i)'
      /\ ProxyCall(i) <=> OfProxy(calls[i].kind)
      /\ \A j \in Slots \ {i} : (Active(j)' <=> Active(j)) /\ (ProxyCall(j)' <=> ProxyCall(j))
  BY <1>1, <1>5 DEF Active, ProxyCall
<1>9. CallsOK'
  <2>1. \A j \in Slots : /\ Active(j)' /\ ~OfProxy(calls'[j].kind) => CaOnly(calls'[j].left)
                         /\ calls'[j].stage = "orphan" => ~calls'[j].clean
    BY <1>2, <1>5, <1>8 DEF CallsOK
  <2>2. \A h, j \in Slots : ProxyCall(h)' /\ calls'[h].clean /\ ProxyCall(j)' => h = j
    BY <1>2, <1>5, <1>8 DEF CallsOK
  <2>3. ~disturbed' => \A j \in Slots : ProxyCall(j)' => calls'[j].clean
    BY <1>1, <1>2, <1>5, <1>8 DEF CallsOK
  <2>4. QED
    BY <2>1, <2>2, <2>3 DEF CallsOK
<1>10. app' = "exiting" =>
         /\ \/ /\ calls'[ExitSlot].kind = "exit" /\ calls'[ExitSlot].stage = "running"
               /\ calls'[ExitSlot].clean
            \/ disturbed' /\ ~calls'[ExitSlot].clean
         /\ \A j \in 1..MaxCalls : ~calls'[j].clean
  <2>1. ExitSlot \in Slots /\ 1..MaxCalls \subseteq Slots
        /\ \A j \in Slots : j = ExitSlot \/ j \in 1..MaxCalls
    BY DesktopAssumption DEF Slots, ExitSlot
  <2>2. app = "exiting" => \A j \in 1..MaxCalls : ~calls[j].clean
    BY <1>2 DEF SettingsOK
  <2>3. ASSUME app = "exiting"
        PROVE  \/ /\ calls'[ExitSlot].kind = "exit" /\ calls'[ExitSlot].stage = "running"
                  /\ calls'[ExitSlot].clean
               \/ disturbed' /\ ~calls'[ExitSlot].clean
    <3>1. \/ /\ calls[ExitSlot].kind = "exit" /\ calls[ExitSlot].stage = "running"
             /\ calls[ExitSlot].clean
          \/ disturbed /\ ~calls[ExitSlot].clean
      BY <1>2, <2>3 DEF SettingsOK
    <3>2. CASE i = ExitSlot
      BY <1>1, <1>5, <3>1, <3>2
    <3>3. CASE i # ExitSlot
      <4>1. ~calls[i].clean
        BY <2>1, <2>2, <2>3, <3>3
      <4>2. calls'[ExitSlot] = calls[ExitSlot] /\ (disturbed' <=> disturbed)
        BY <1>1, <1>5, <2>1, <3>3, <4>1
      <4>3. QED
        BY <3>1, <4>2
    <3>4. QED
      BY <3>2, <3>3
  <2>4. app' = "exiting" => \A j \in 1..MaxCalls : ~calls'[j].clean
    BY <1>1, <1>5, <2>1, <2>2
  <2>5. QED
    BY <1>1, <2>3, <2>4
<1>11. \A j \in Slots \ {i} : Clearing(j)' <=> Clearing(j)
  BY <1>1, <1>5 DEF Clearing
<1>12. \A j \in Slots : ProxyCall(j)' /\ calls'[j].clean =>
          /\ calls'[j].kind = "clear" => Clearing(j)'
          /\ calls'[j].kind = "exit" /\ (engaged' \/ ~disturbed') => Clearing(j)'
  <2>1. SUFFICES ASSUME NEW j \in Slots, ProxyCall(j)', calls'[j].clean
                 PROVE  /\ calls'[j].kind = "clear" => Clearing(j)'
                        /\ calls'[j].kind = "exit" /\ (engaged' \/ ~disturbed') => Clearing(j)'
    OBVIOUS
  <2>2. j # i /\ calls'[j] = calls[j] /\ ProxyCall(j) /\ calls[j].clean
    BY <1>5, <1>8, <2>1
  <2>3. ~OfProxy(calls[i].kind)
    BY <1>2, <1>8, <2>2 DEF CallsOK
  <2>4. engaged' = engaged /\ (disturbed' <=> disturbed)
    BY <1>1, <1>4, <2>3 DEF OfProxy
  <2>5. QED
    BY <1>2, <1>11, <2>2, <2>4 DEF SettingsOK
<1>13. ~disturbed' =>
         /\ app' = "up" /\ (\A j \in Slots : ~ProxyCall(j)') /\ Uses(os', settings') => engaged'
         /\ app' = "down" => ~Uses(os', settings')
  <2>1. SUFFICES ASSUME ~disturbed'
                 PROVE  /\ app' = "up" /\ (\A j \in Slots : ~ProxyCall(j)') /\ Uses(os', settings')
                             => engaged'
                        /\ app' = "down" => ~Uses(os', settings')
    OBVIOUS
  <2>2. CASE ~OfProxy(calls[i].kind)
    <3>1. engaged' = engaged /\ ~disturbed
      BY <1>1, <1>4, <2>1, <2>2 DEF OfProxy
    <3>2. QED
      BY <1>1, <1>2, <1>8, <2>2, <3>1 DEF SettingsOK
  <2>3. CASE OfProxy(calls[i].kind)
    <3>1. calls[i].clean
      BY <1>1, <1>2, <1>8, <2>1, <2>3 DEF CallsOK
    <3>2. calls[i].stage = "running" /\ calls[i].kind \in {"set", "clear"} /\ app # "down"
      BY <1>1, <1>2, <2>3, <3>1 DEF CallsOK, OfProxy, Active, SlotsOK
    <3>3. CASE calls[i].kind = "set"
      BY <1>1, <1>4, <3>2, <3>3
    <3>4. CASE calls[i].kind = "clear"
      <4>1. ClearingAt(<<>>, os, settings)
        BY <1>1, <1>2, <1>8, <2>3, <3>1, <3>4 DEF SettingsOK, Clearing
      <4>2. ~Uses(os, settings)
        BY <1>2, <4>1, ClearDone
      <4>3. QED
        BY <1>1, <4>2
    <3>5. QED
      BY <3>2, <3>3, <3>4
  <2>4. QED
    BY <2>2, <2>3
<1>14. SettingsOK'
  BY <1>10, <1>12, <1>13 DEF SettingsOK, ExitSlot
<1>15. QED
  BY <1>6, <1>7, <1>9, <1>14 DEF SystemInv

\* What a kill or an exit makes of a call.
LEMMA OrphanedIs ==
    ASSUME NEW c \in Call
    PROVE  /\ Orphaned(c) \in Call /\ Orphaned(c).kind = c.kind
           /\ Orphaned(c).stage # "running"
           /\ Orphaned(c).stage = "none" <=> c.stage = "none"
           /\ Orphaned(c).stage = "orphan" =>
                c.stage \in {"running", "orphan"} /\ Orphaned(c).left = c.left
           /\ Orphaned(c).clean => c.clean /\ c.stage # "running" /\ Orphaned(c) = c
<1> DEFINE S == Seq(Commands)
<1>1. /\ <<>> \in S
      /\ Call = [kind : Kinds, left : S,
                 stage : {"none", "running", "orphan", "done", "failed"}, clean : BOOLEAN]
  BY DEF Call
<1> HIDE DEF S
<1>2. CASE c.stage # "running"
  <2>1. Orphaned(c) = c
    BY <1>2 DEF Orphaned
  <2>2. QED
    BY <1>2, <2>1
<1>3. CASE c.stage = "running" /\ c.left # <<>> /\ Head(c.left).elevated
  <2>1. Orphaned(c) = [c EXCEPT !.stage = "orphan", !.clean = FALSE]
    BY <1>3 DEF Orphaned
  <2>2. c.stage = "running"
    BY <1>3
  <2>3. QED
    BY <1>1, <2>1, <2>2
<1>4. CASE c.stage = "running" /\ ~(c.left # <<>> /\ Head(c.left).elevated)
  <2> DEFINE empty == <<>>
  <2>1. Orphaned(c) = [c EXCEPT !.stage = "failed", !.left = empty, !.clean = FALSE]
    BY <1>4 DEF Orphaned
  <2>2. empty \in S
    BY <1>1
  <2> HIDE DEF empty
  <2>3. QED
    BY <1>1, <1>4, <2>1, <2>2
<1>5. QED
  BY <1>2, <1>3, <1>4

\* The calls when the process has ended, and what that means for SystemInv.
Ended ==
    /\ calls' \in [Slots -> Call]
    /\ \A i \in Slots :
         /\ calls'[i].kind = calls[i].kind /\ calls'[i].stage # "running"
         /\ calls'[i].stage = "none" => calls[i].stage = "none"
         /\ i <= MaxCalls /\ calls[i].stage = "none" => calls'[i].stage = "none"
         /\ calls'[i].stage = "orphan" =>
              /\ calls[i].stage \in {"running", "orphan"} /\ calls'[i].left = calls[i].left
              /\ calls'[i].clean => calls[i].clean /\ calls[i].stage = "orphan"

LEMMA EndedStep ==
    ASSUME SystemInv, Ended, app' = "down", UNCHANGED <<os, settings, engaged>>,
           disturbed' \in BOOLEAN,
           ~disturbed' => ~Uses(os, settings) /\ \A j \in Slots : ~ProxyCall(j)'
    PROVE  SystemInv'
<1>1. /\ calls' \in [Slots -> Call]
      /\ \A i \in Slots :
           /\ calls'[i].kind = calls[i].kind /\ calls'[i].stage # "running"
           /\ calls'[i].stage = "none" => calls[i].stage = "none"
           /\ i <= MaxCalls /\ calls[i].stage = "none" => calls'[i].stage = "none"
           /\ calls'[i].stage = "orphan" =>
                /\ calls[i].stage \in {"running", "orphan"} /\ calls'[i].left = calls[i].left
                /\ calls'[i].clean => calls[i].clean /\ calls[i].stage = "orphan"
  BY DEF Ended
<1>2. SystemTypes /\ SlotsOK /\ CallsOK /\ SettingsOK
  BY DEF SystemInv
<1>3. SystemTypes'
  BY <1>1, <1>2 DEF SystemTypes
<1>4. /\ ExitSlot \in Slots /\ \A i \in 1..MaxCalls : i \in Slots /\ i <= MaxCalls
  BY DesktopAssumption DEF Slots, ExitSlot
<1>5. SlotsOK'
  <2>1. \E k \in 0..MaxCalls : \A i \in 1..MaxCalls : calls'[i].stage # "none" <=> i <= k
    <3>1. \A i \in 1..MaxCalls : calls'[i].stage # "none" <=> calls[i].stage # "none"
      BY <1>1, <1>4
    <3>2. QED
      BY <1>2, <3>1 DEF SlotsOK
  <2>2. \A i \in 1..MaxCalls : calls'[i].kind # "exit"
    BY <1>1, <1>2, <1>4 DEF SlotsOK
  <2>3. calls'[ExitSlot].kind \in {"none", "exit"}
    BY <1>1, <1>2, <1>4 DEF SlotsOK
  <2>4. \A i \in Slots : calls'[i].stage # "running"
    BY <1>1
  <2>5. QED
    BY <2>1, <2>2, <2>3, <2>4 DEF SlotsOK, ExitSlot
<1>6. \A i \in Slots : calls'[i].stage = "orphan" => ~calls'[i].clean
  BY <1>1, <1>2 DEF CallsOK
<1>7. \A i \in Slots : /\ Active(i)' => Active(i) /\ calls'[i].stage = "orphan"
                       /\ ProxyCall(i)' => ~calls'[i].clean
  BY <1>1, <1>6 DEF Active, ProxyCall
<1>8. CallsOK'
  <2>1. \A i \in Slots : Active(i)' /\ ~OfProxy(calls'[i].kind) => CaOnly(calls'[i].left)
    BY <1>1, <1>2, <1>7 DEF CallsOK
  <2>2. ~disturbed' => \A j \in Slots : ~ProxyCall(j)'
    OBVIOUS
  <2>3. QED
    BY <1>6, <1>7, <2>1, <2>2 DEF CallsOK
<1>9. SettingsOK'
  BY <1>7 DEF SettingsOK
<1>10. QED
  BY <1>3, <1>5, <1>8, <1>9 DEF SystemInv

\* An exit: clean if teardown's call was alone and did not fail.
LEMMA ExitStep ==
    ASSUME SystemInv, exit
    PROVE  SystemInv'
<1>1. /\ app = "exiting" /\ calls[ExitSlot].left = <<>>
      /\ app' = "down" /\ UNCHANGED <<os, settings, engaged>>
      /\ calls' = [i \in Slots |-> IF i > MaxCalls THEN [calls[i] EXCEPT !.stage = "done"]
                                   ELSE Orphaned(calls[i])]
      /\ disturbed' = (disturbed /\ ~(engaged /\ calls[ExitSlot].clean))
  BY DEF exit, process_ends, ExitSlot
<1>2. /\ SystemTypes /\ SlotsOK /\ CallsOK /\ SettingsOK /\ os \in Platforms
      /\ disturbed \in BOOLEAN /\ calls \in [Slots -> Call]
  BY DesktopAssumption DEF SystemInv, SystemTypes, Platforms
<1>3. /\ MaxCalls \in Nat /\ ExitSlot \in Slots
      /\ \A i \in Slots : i > MaxCalls <=> i = ExitSlot
      /\ \A i \in Slots : i <= MaxCalls <=> i # ExitSlot
  BY DesktopAssumption DEF Slots, ExitSlot
<1>4. \A i \in Slots : i # ExitSlot => calls'[i] = Orphaned(calls[i])
  BY <1>1, <1>3
<1>5. /\ [calls[ExitSlot] EXCEPT !.stage = "done"] \in Call
      /\ calls'[ExitSlot].kind = calls[ExitSlot].kind /\ calls'[ExitSlot].stage = "done"
  <2> DEFINE S == Seq(Commands)
  <2>1. /\ calls[ExitSlot] \in Call
        /\ Call = [kind : Kinds, left : S,
                   stage : {"none", "running", "orphan", "done", "failed"}, clean : BOOLEAN]
    BY <1>2, <1>3 DEF Call
  <2> HIDE DEF S
  <2>2. calls'[ExitSlot] = [calls[ExitSlot] EXCEPT !.stage = "done"]
    BY <1>1, <1>3
  <2>3. QED
    BY <2>1, <2>2
<1>6. calls' \in [Slots -> Call]
  <2>1. \A i \in Slots : Orphaned(calls[i]) \in Call
    BY <1>2, OrphanedIs
  <2>2. calls' = [i \in Slots |-> IF i = ExitSlot THEN [calls[ExitSlot] EXCEPT !.stage = "done"]
                                  ELSE Orphaned(calls[i])]
    BY <1>1, <1>3
  <2>3. QED
    BY <1>5, <2>1, <2>2
<1>7. ASSUME NEW i \in Slots, i # ExitSlot
      PROVE  /\ calls'[i].kind = calls[i].kind /\ calls'[i].stage # "running"
             /\ calls'[i].stage = "none" <=> calls[i].stage = "none"
             /\ calls'[i].stage = "orphan" =>
                  /\ calls[i].stage \in {"running", "orphan"} /\ calls'[i].left = calls[i].left
                  /\ calls'[i].clean => calls[i].clean /\ calls[i].stage = "orphan"
  <2>1. calls[i] \in Call /\ calls'[i] = Orphaned(calls[i])
    BY <1>2, <1>4, <1>7
  <2>2. QED
    BY <2>1, OrphanedIs
<1>8. Ended
  BY <1>3, <1>5, <1>6, <1>7 DEF Ended
<1>9. ASSUME ~disturbed'
      PROVE  ~Uses(os, settings) /\ \A j \in Slots : ~ProxyCall(j)'
  <2>1. ~disturbed \/ (engaged /\ calls[ExitSlot].clean)
    BY <1>1, <1>9
  <2>2. /\ calls[ExitSlot].kind = "exit" /\ calls[ExitSlot].stage = "running"
        /\ calls[ExitSlot].clean
    BY <1>1, <1>2, <2>1 DEF SettingsOK
  <2>3. ProxyCall(ExitSlot)
    BY <2>2 DEF ProxyCall, Active, OfProxy
  <2>4. ClearingAt(<<>>, os, settings)
    BY <1>1, <1>2, <1>3, <2>1, <2>2, <2>3 DEF SettingsOK, Clearing
  <2>5. ~Uses(os, settings)
    BY <1>2, <2>4, ClearDone
  <2>6. \A j \in Slots : ProxyCall(j)' => j = ExitSlot
    <3>1. \A j \in Slots : ProxyCall(j) => j = ExitSlot
      BY <1>2, <1>3, <2>2, <2>3 DEF CallsOK
    <3>2. \A j \in Slots : j # ExitSlot /\ ProxyCall(j)' => ProxyCall(j)
      BY <1>7 DEF ProxyCall, Active
    <3>3. QED
      BY <3>1, <3>2
  <2>7. \A j \in Slots : ~ProxyCall(j)'
    <3>1. SUFFICES ASSUME NEW j \in Slots, ProxyCall(j)' PROVE FALSE
      OBVIOUS
    <3>2. j = ExitSlot
      BY <2>6, <3>1
    <3>3. calls'[j].stage = "done"
      BY <1>5, <3>2
    <3>4. QED
      BY <3>1, <3>3 DEF ProxyCall, Active
  <2>8. QED
    BY <2>5, <2>7
<1>10. disturbed' \in BOOLEAN
  BY <1>1, <1>2
<1>11. QED
  BY <1>1, <1>8, <1>9, <1>10, EndedStep

\* A kill.
LEMMA CrashStep ==
    ASSUME SystemInv, crash
    PROVE  SystemInv'
<1>1. /\ app' = "down" /\ UNCHANGED <<os, settings, engaged>> /\ disturbed' = TRUE
      /\ calls' = [i \in Slots |-> Orphaned(calls[i])]
  BY DEF crash, process_ends
<1>2. calls \in [Slots -> Call]
  BY DEF SystemInv, SystemTypes
<1>3. \A i \in Slots : calls[i] \in Call /\ calls'[i] = Orphaned(calls[i])
  BY <1>1, <1>2
<1>4. Ended
  BY <1>1, <1>3, OrphanedIs DEF Ended
<1>5. QED
  BY <1>1, <1>4, EndedStep

\* A slot no call has used.
LEMMA NoCallIs == NoCall \in Call /\ NoCall.stage = "none" /\ NoCall.kind = "none"
<1> DEFINE S == Seq(Commands)
           empty == <<>>
<1>1. /\ empty \in S /\ NoCall = [kind |-> "none", left |-> empty, stage |-> "none",
                                  clean |-> FALSE]
      /\ Call = [kind : Kinds, left : S,
                 stage : {"none", "running", "orphan", "done", "failed"}, clean : BOOLEAN]
  BY DEF Call, NoCall
<1> HIDE DEF S, empty
<1>2. QED
  BY <1>1 DEF Kinds

\* A new life: what teardown's slot held is gone.
LEMMA RelaunchStep ==
    ASSUME SystemInv, relaunch
    PROVE  SystemInv'
<1>1. /\ app = "down" /\ app' = "up" /\ engaged' = FALSE
      /\ calls[ExitSlot].stage # "orphan"
      /\ calls' = [calls EXCEPT ![ExitSlot] = NoCall]
      /\ UNCHANGED <<os, settings, disturbed>>
  BY DEF relaunch, ExitSlot
<1>2. SystemTypes /\ SlotsOK /\ CallsOK /\ SettingsOK /\ calls \in [Slots -> Call]
  BY DEF SystemInv, SystemTypes
<1>3. /\ MaxCalls \in Nat /\ ExitSlot \in Slots
      /\ \A i \in 1..MaxCalls : i \in Slots /\ i # ExitSlot
  BY DesktopAssumption DEF Slots, ExitSlot
<1>4. NoCall \in Call /\ NoCall.stage = "none" /\ NoCall.kind = "none"
  BY NoCallIs
<1>5. /\ calls' \in [Slots -> Call] /\ calls'[ExitSlot] = NoCall
      /\ \A i \in Slots \ {ExitSlot} : calls'[i] = calls[i]
  BY <1>1, <1>2, <1>3, <1>4
<1>6. SystemTypes'
  BY <1>1, <1>2, <1>5 DEF SystemTypes
<1>7. SlotsOK'
  <2>1. \A i \in 1..MaxCalls : calls'[i] = calls[i]
    BY <1>3, <1>5
  <2>2. \E k \in 0..MaxCalls : \A i \in 1..MaxCalls : calls'[i].stage # "none" <=> i <= k
    BY <1>2, <2>1 DEF SlotsOK
  <2>3. \A i \in 1..MaxCalls : calls'[i].kind # "exit"
    BY <1>2, <2>1 DEF SlotsOK
  <2>4. calls'[ExitSlot].kind \in {"none", "exit"}
    BY <1>4, <1>5
  <2>5. calls'[ExitSlot].stage \notin {"running", "orphan"}
    BY <1>4, <1>5
  <2>6. QED
    BY <1>1, <2>2, <2>3, <2>4, <2>5 DEF SlotsOK, Active, ExitSlot
<1>8. \A i \in Slots : /\ Active(i)' => /\ calls'[i] = calls[i] /\ Active(i)
                                        /\ calls'[i].stage = "orphan"
                       /\ ProxyCall(i)' <=> ProxyCall(i)
  <2>1. \A i \in Slots : calls[i].stage # "running"
    BY <1>1, <1>2 DEF SlotsOK
  <2>2. calls'[ExitSlot].stage = "none"
    BY <1>4, <1>5
  <2>3. QED
    BY <1>1, <1>3, <1>5, <2>1, <2>2 DEF Active, ProxyCall
<1>9. \A i \in Slots : calls'[i].stage = "orphan" => ~calls'[i].clean
  <2>1. \A i \in Slots : calls'[i].stage = "orphan" => calls'[i] = calls[i]
    BY <1>4, <1>5
  <2>2. QED
    BY <1>2, <2>1 DEF CallsOK
<1>10. CallsOK'
  <2>1. \A i \in Slots : Active(i)' /\ ~OfProxy(calls'[i].kind) => CaOnly(calls'[i].left)
    BY <1>2, <1>8 DEF CallsOK
  <2>2. \A i \in Slots : ProxyCall(i)' => ~calls'[i].clean
    BY <1>8, <1>9 DEF ProxyCall
  <2>3. ~disturbed' => \A i \in Slots : ProxyCall(i)' => calls'[i].clean
    BY <1>1, <1>2, <1>8 DEF CallsOK, ProxyCall
  <2>4. QED
    BY <1>9, <2>1, <2>2, <2>3 DEF CallsOK
<1>11. SettingsOK'
  <2>1. \A i \in Slots : ProxyCall(i)' => ~calls'[i].clean
    BY <1>8, <1>9 DEF ProxyCall
  <2>2. ~disturbed' => ~Uses(os', settings')
    BY <1>1, <1>2 DEF SettingsOK
  <2>3. QED
    BY <1>1, <2>1, <2>2 DEF SettingsOK
<1>12. QED
  BY <1>6, <1>7, <1>10, <1>11 DEF SystemInv

\* Every step keeps the system's part of the invariant.
LEMMA SystemStep ==
    ASSUME SystemInv, [Next]_vars
    PROVE  SystemInv'
<1> USE DEF proxyVars, systemVars
<1>1. CASE UNCHANGED <<app, os, settings, calls, engaged, disturbed>>
  <2>1. SystemTypes'
    BY <1>1 DEF SystemInv, SystemTypes
  <2>2. SlotsOK'
    BY <1>1 DEF SystemInv, SlotsOK, Active, ExitSlot
  <2>3. CallsOK'
    BY <1>1 DEF SystemInv, CallsOK, ProxyCall, Active
  <2>4. SettingsOK'
    BY <1>1 DEF SystemInv, SettingsOK, ProxyCall, Active, Clearing, ExitSlot
  <2>5. QED
    BY <2>1, <2>2, <2>3, <2>4 DEF SystemInv
<1>2. CASE set_system_proxy \/ clear_system_proxy \/ install_ca \/ uninstall_ca
  BY <1>2, BeginStep DEF set_system_proxy, clear_system_proxy, install_ca, uninstall_ca
<1>3. ASSUME NEW i \in Slots, apply_specs_blocking(i)
      PROVE  SystemInv'
  BY <1>3, SucceedStep, FailStep, FinishStep DEF apply_specs_blocking
<1>4. CASE teardown \/ exit \/ crash \/ relaunch
  BY <1>4, TeardownStep, ExitStep, CrashStep, RelaunchStep
<1>5. QED
  BY <1>1, <1>2, <1>3, <1>4
  DEF Next, vars, start_proxy, stop_proxy, run_proxy, load_or_create_ca, read_cert,
      write_key, set_permissions, write_cert, bind, run_fails, graceful_shutdown,
      KeepRest, emit, spawn_audit_pump, pump_begins, tick

--------------------------------------------------------------------------------
(* Theorems                                                                 *)

\* The program starts with nothing running and no CA.
LEMMA InitProxy == Init => ProxyInv
<1> SUFFICES ASSUME Init PROVE ProxyInv
  OBVIOUS
<1>1. /\ handle = None /\ runs = [n \in Runs |-> NoRun] /\ pumps = [n \in Runs |-> NoPump]
      /\ key = None /\ cert = None /\ protected = FALSE /\ overlapped = FALSE
  BY DEF Init
<1>2. ProxyTypes
  BY <1>1, RunTypes DEF ProxyTypes, Generations
<1>3. PumpsOK
  <2>1. PumpOK(NoPump)
    BY EmptyPump
  <2>2. NoPump \in PumpRecord
    BY <2>1 DEF PumpOK
  <2>3. QED
    BY <1>1, <2>1, <2>2 DEF PumpsOK
<1>4. \A n \in Runs : runs[n].stage = "none"
  BY <1>1, RunTypes
<1>5. FilesOK /\ PairOK
  BY <1>1, <1>4 DEF FilesOK, PairOK, Writing, Loading
<1>6. QED
  BY <1>2, <1>3, <1>5 DEF ProxyInv

\* The settings are the user's own and no call is in progress.
LEMMA InitSystem == Init => SystemInv
<1> SUFFICES ASSUME Init PROVE SystemInv
  OBVIOUS
<1>1. /\ app = "up" /\ os \in Oses /\ settings \in {Unset, Own}
      /\ calls = [i \in Slots |-> NoCall] /\ engaged = FALSE /\ disturbed = FALSE
  BY DEF Init
<1>2. /\ NoCall \in Call /\ NoCall.stage = "none" /\ NoCall.kind = "none"
  BY NoCallIs
<1>3. settings \in Settings /\ os \in Platforms
  <2>1. Unset \in Settings /\ Own \in Settings
    BY DEF Unset, Own, Settings, Values
  <2>2. QED
    BY <1>1, <2>1, DesktopAssumption DEF Platforms
<1>4. SystemTypes
  BY <1>1, <1>2, <1>3 DEF SystemTypes
<1>5. /\ \A i \in Slots : calls[i].stage = "none" /\ calls[i].kind = "none"
      /\ \A i \in Slots : ~Active(i) /\ ~ProxyCall(i)
  BY <1>1, <1>2 DEF Active, ProxyCall
<1>6. SlotsOK
  <2>1. /\ ExitSlot \in Slots /\ 0 \in 0..MaxCalls
        /\ \A i \in 1..MaxCalls : i \in Slots /\ ~(i <= 0)
    BY DesktopAssumption DEF Slots, ExitSlot
  <2>2. \A i \in 1..MaxCalls : calls[i].stage # "none" <=> i <= 0
    BY <1>5, <2>1
  <2>3. \A i \in 1..MaxCalls : calls[i].kind # "exit"
    BY <1>5, <2>1
  <2>4. QED
    BY <1>1, <1>5, <2>1, <2>2, <2>3 DEF SlotsOK
<1>7. CallsOK
  BY <1>5 DEF CallsOK
<1>8. ~Uses(os, settings)
  <2>1. settings.https # "us" /\ settings.http # "us" /\ settings.server # "us"
    <3>1. Unset.https = "off" /\ Unset.http = "off" /\ Unset.server = "off"
      BY DEF Unset
    <3>2. Own.https = "other" /\ Own.http = "other" /\ Own.server = "other"
      BY DEF Own, Unset
    <3>3. QED
      BY <1>1, <3>1, <3>2
  <2>2. QED
    BY <1>3, <2>1 DEF Uses, Platforms
<1>9. SettingsOK
  <2>1. app = "up" /\ \A i \in Slots : ~ProxyCall(i)
    BY <1>1, <1>5
  <2>2. QED
    BY <1>8, <2>1 DEF SettingsOK
<1>10. QED
  BY <1>4, <1>6, <1>7, <1>9 DEF SystemInv

\* ca.rs and run_proxy: for any number of starts, stops, failures and kills, a
\* CA that later starts will load has its key file protected, and a proxy that
\* serves signs with the key of its certificate unless two tasks were at the CA
\* together; no ring outgrows its capacity and no cursor leaves its ring.
THEOREM AuthorityHolds == Spec => []AuthoritySound
<1>1. ProxyInv /\ SystemInv => AuthoritySound
  <2> SUFFICES ASSUME ProxyInv, SystemInv PROVE AuthoritySound
    OBVIOUS
  <2>1. TypeOK
    <3>1. \A n \in Runs : /\ pumps[n].stage \in {"none", "spawned", "on", "off"}
                          /\ Len(pumps[n].ring) <= RingCapacity
                          /\ pumps[n].cursor <= Len(pumps[n].ring)
      BY DEF ProxyInv, PumpsOK, PumpOK, PumpRecord
    <3>2. \A i \in Slots : calls[i].stage \in {"none", "running", "orphan", "done", "failed"}
      BY CallFields DEF SystemInv
    <3>3. QED
      BY <3>1, <3>2 DEF TypeOK, ProxyInv, ProxyTypes, RunRecord, SystemInv, SystemTypes
  <2>2. cert # None => key # None /\ protected
    BY DEF ProxyInv, FilesOK
  <2>3. \A n \in Runs : runs[n].stage = "serving" /\ ~overlapped => runs[n].key = runs[n].cert
    BY DEF ProxyInv, PairOK
  <2>4. QED
    BY <2>1, <2>2, <2>3 DEF AuthoritySound
<1>2. QED
  BY <1>1, InitProxy, InitSystem, ProxyStep, SystemStep, PTL DEF Spec

\* lib.rs, teardown: on every platform and for any number of commands, an exit
\* that was not a kill leaves no setting that points at the proxy that is gone,
\* if a set or clear, or the exit's own clear, went through alone and without a
\* failure since the last trouble.
THEOREM ExitCleansUp == Spec => []ExitLeavesNoProxy
<1>1. SystemInv => ExitLeavesNoProxy
  BY DEF SystemInv, SettingsOK, ExitLeavesNoProxy, UsesUs, Uses
<1>2. QED
  BY <1>1, InitSystem, SystemStep, PTL DEF Spec
================================================================================
