--------------------------------- MODULE XTask ---------------------------------
(***************************************************************************)
(* The build tool (xtask/src): invocations of `build`, `run`, `test` and   *)
(* `gdb` that share the files target/gdb/gdb.sock and target/gdb/gdbinit.  *)
(* Each runs as a process of its own; run and test start a QEMU process.   *)
(***************************************************************************)
EXTENDS FiniteSets

CONSTANTS
  Invocations,
  Nobody        \* the owner of a file that does not exist

VARIABLES
  command,      \* invocation -> [name, debugger, wait]
  pc,           \* invocation -> where it is
  server,       \* invocations that hold a gdb::Server
  qemu,         \* invocation -> its QEMU: "none", "starting", "listening", "exited"
  code,         \* invocation -> QEMU's exit code, or NoCode
  status,       \* invocation -> the code that Qemu::run returned, NoCode for an error
  tests,        \* invocation -> how the kernel tests it ran came out
  socket,       \* SOCKET_PATH: the invocation whose QEMU made it, or Nobody
  init,         \* INIT_PATH: the invocation whose binary it names, or Nobody
  stale,        \* history: the invocations that ended a session without removing its files
  attached,     \* invocations to whose QEMU a debugger has attached
  overlap       \* history: the check for the socket missed another session

xtaskVars ==
  <<command, pc, server, qemu, code, status, tests, socket, init, attached, stale, overlap>>

ASSUME NobodyAssumption == Nobody \notin Invocations

NoCode == "signal"

\* Command and QemuOpts: --debugger-wait implies a debugger.
Commands ==
  [name : {"build", "gdb"}, debugger : {FALSE}, wait : {FALSE}]
  \cup {c \in [name : {"run", "test"}, debugger : BOOLEAN, wait : BOOLEAN] : c.wait => c.debugger}

Final == {"ok", "failed", "killed"}

XTaskInit ==
  /\ command \in [Invocations -> Commands]
  /\ tests = [p \in Invocations |-> "none"]
  /\ pc = [p \in Invocations |-> "exec"]
  /\ server = {}
  /\ qemu = [p \in Invocations |-> "none"]
  /\ code = [p \in Invocations |-> NoCode]
  /\ status = [p \in Invocations |-> NoCode]
  /\ socket = Nobody
  /\ init = Nobody
  /\ attached = {}
  /\ stale = {}
  /\ overlap = FALSE

Runs(p) == qemu[p] \in {"starting", "listening"}

Goto(p, where) == pc' = [pc EXCEPT ![p] = where]
-----------------------------------------------------------------------------
\* exec: the command, which for all but gdb begins with a build.
exec(p) ==
  /\ pc[p] = "exec"
  /\ Goto(p, IF command[p].name = "gdb" THEN "gdb" ELSE "build")
  /\ UNCHANGED <<command, server, qemu, code, status, tests, socket, init, attached, stale, overlap>>

\* Cargo::build and BuildOutput::executable.
build(p) ==
  /\ pc[p] = "build"
  /\ \/ Goto(p, "failed")
     \/ command[p].name = "build" /\ Goto(p, "ok")
     \/ command[p].name # "build" /\ Goto(p, IF command[p].debugger THEN "server" ELSE "image")
  /\ UNCHANGED <<command, server, qemu, code, status, tests, socket, init, attached, stale, overlap>>

\* A session is being set up, is there, is being cleaned up, or is a QEMU that has
\* outlived its invocation.
InSession(q) ==
  q \in server \/ pc[q] \in {"create", "config"} \/ (Runs(q) /\ command[q].debugger)

\* Mutant: no check.
server_check_Missing(p) ==
  /\ pc[p] = "server"
  /\ Goto(p, "create")
  /\ overlap' = (overlap \/ (socket = Nobody /\ \E q \in Invocations : InSession(q)))
  /\ UNCHANGED <<command, server, qemu, code, status, tests, socket, init, attached, stale>>

\* gdb::Server::new: the directory, and the check that no other QEMU has the socket.
server_check(p) ==
  /\ pc[p] = "server"
  /\ \/ Goto(p, "failed") /\ UNCHANGED overlap
     \/ /\ socket = Nobody
        /\ Goto(p, "create")
        /\ overlap' = (overlap \/ \E q \in Invocations : InSession(q))
  /\ UNCHANGED <<command, server, qemu, code, status, tests, socket, init, attached, stale>>

server_create(p) ==
  /\ pc[p] = "create"
  /\ \/ Goto(p, "failed") /\ UNCHANGED init
     \/ Goto(p, "config") /\ init' = p
  /\ UNCHANGED <<command, server, qemu, code, status, tests, socket, attached, stale, overlap>>

\* write_config: if it fails there is no Server yet to remove the file.
server_config(p) ==
  /\ pc[p] = "config"
  /\ \/ Goto(p, "failed") /\ stale' = stale \cup {p} /\ UNCHANGED server
     \/ Goto(p, "image") /\ server' = server \cup {p} /\ UNCHANGED stale
  /\ UNCHANGED <<command, qemu, code, status, tests, socket, init, attached, overlap>>

\* Qemu::run: the boot image, then the QEMU process.
add_binary(p) ==
  /\ pc[p] = "image"
  /\ Goto(p, "start") \/ Goto(p, "drop")
  /\ UNCHANGED <<command, server, qemu, code, status, tests, socket, init, attached, stale, overlap>>

start_qemu(p) ==
  /\ pc[p] = "start"
  /\ \/ Goto(p, "drop") /\ UNCHANGED qemu
     \/ Goto(p, "decode") /\ qemu' = [qemu EXCEPT ![p] = "starting"]
  /\ UNCHANGED <<command, server, code, status, tests, socket, init, attached, stale, overlap>>

\* Mutant: the reader is left behind, and QEMU with it.
decode_fails_LeavesQemu(p) ==
  /\ pc[p] = "decode"
  /\ Goto(p, "drop")
  /\ UNCHANGED <<command, server, qemu, code, status, tests, socket, init, attached, stale, overlap>>

\* An error of the symbolizer or decoder, or a panic of the formatter: the drop of
\* the ReaderHandle kills QEMU before that of the Server.
decode_fails(p) ==
  /\ pc[p] = "decode"
  /\ qemu' = [qemu EXCEPT ![p] = IF Runs(p) THEN "none" ELSE @]
  /\ Goto(p, "drop")
  /\ UNCHANGED <<command, server, code, status, tests, socket, init, attached, stale, overlap>>

\* Mutant: only an exit with a code is waited for.
decode_ends_NotBySignal(p) ==
  /\ pc[p] = "decode"
  /\ qemu[p] = "exited"
  /\ code[p] # NoCode
  /\ status' = [status EXCEPT ![p] = code[p]]
  /\ Goto(p, "drop")
  /\ UNCHANGED <<command, server, qemu, code, tests, socket, init, attached, stale, overlap>>

\* The end of QEMU's output; then the process has ended too.
decode_ends(p) ==
  /\ pc[p] = "decode"
  /\ qemu[p] = "exited"
  /\ status' = [status EXCEPT ![p] = code[p]]
  /\ Goto(p, "drop")
  /\ UNCHANGED <<command, server, qemu, code, tests, socket, init, attached, stale, overlap>>

\* Drop for Server, at the end of Qemu::run: the socket, then the configuration.
\* A file that cannot be removed is reported and left.
drop_socket(p) ==
  /\ pc[p] = "drop"
  /\ IF p \in server
     THEN /\ Goto(p, "drop init")
          /\ \/ socket' = Nobody /\ UNCHANGED stale
             \/ socket # Nobody /\ stale' = stale \cup {p} /\ UNCHANGED socket
     ELSE Goto(p, "verdict") /\ UNCHANGED <<socket, stale>>
  /\ UNCHANGED <<command, server, qemu, code, status, tests, init, attached, overlap>>

\* Mutant: the configuration is left.
drop_init_Keeps(p) ==
  /\ pc[p] = "drop init"
  /\ server' = server \ {p}
  /\ Goto(p, "verdict")
  /\ UNCHANGED <<command, qemu, code, status, tests, socket, init, attached, stale, overlap>>

drop_init(p) ==
  /\ pc[p] = "drop init"
  /\ \/ init' = Nobody /\ UNCHANGED stale
     \/ init # Nobody /\ stale' = stale \cup {p} /\ UNCHANGED init
  /\ server' = server \ {p}
  /\ Goto(p, "verdict")
  /\ UNCHANGED <<command, qemu, code, status, tests, socket, attached, overlap>>

\* Mutant: any exit by the debug exit device is a success.
verdict_AnyExit(p) ==
  /\ pc[p] = "verdict"
  /\ Goto(p, IF status[p] \in IF command[p].name = "run" THEN {"0"} ELSE {"1", "3"} THEN "ok" ELSE "failed")
  /\ UNCHANGED <<command, server, qemu, code, status, tests, socket, init, attached, stale, overlap>>

\* do_run wants a successful status; do_test the code that ktest has chosen.
verdict(p) ==
  /\ pc[p] = "verdict"
  /\ Goto(p, IF status[p] = IF command[p].name = "run" THEN "0" ELSE "3" THEN "ok" ELSE "failed")
  /\ UNCHANGED <<command, server, qemu, code, status, tests, socket, init, attached, stale, overlap>>

\* gdb::run: the two files are looked for one after the other.
gdb_init(p) ==
  /\ pc[p] = "gdb"
  /\ Goto(p, IF init # Nobody THEN "gdb socket" ELSE "failed")
  /\ UNCHANGED <<command, server, qemu, code, status, tests, socket, init, attached, stale, overlap>>

gdb_socket(p) ==
  /\ pc[p] = "gdb socket"
  /\ Goto(p, IF socket # Nobody THEN "rust-gdb" ELSE "failed")
  /\ UNCHANGED <<command, server, qemu, code, status, tests, socket, init, attached, stale, overlap>>

\* rust-gdb reads the configuration, if it is still there, and connects.
rust_gdb(p) ==
  /\ pc[p] = "rust-gdb"
  /\ IF init # Nobody /\ socket # Nobody /\ qemu[socket] = "listening"
     THEN attached' = attached \cup {socket} /\ (Goto(p, "ok") \/ Goto(p, "failed"))
     ELSE Goto(p, "failed") /\ UNCHANGED attached
  /\ UNCHANGED <<command, server, qemu, code, status, tests, socket, init, stale, overlap>>

\* A signal ends the tool, and no handle is dropped.  One to the process group ends its
\* QEMU too; one to the tool alone leaves QEMU running, with nobody to kill it.
interrupted(p) ==
  /\ pc[p] \notin Final
  /\ Goto(p, "killed")
  /\ server' = server \ {p}
  /\ \/ qemu' = [qemu EXCEPT ![p] = IF Runs(p) THEN "none" ELSE @]
     \/ Runs(p) /\ UNCHANGED qemu
  /\ stale' = IF p \in server \/ pc[p] = "config" THEN stale \cup {p} ELSE stale
  /\ UNCHANGED <<command, code, status, tests, socket, init, attached, overlap>>
-----------------------------------------------------------------------------
(* QEMU.                                                                    *)

\* The socket is made anew, also if there is one.
qemu_listens(p) ==
  /\ qemu[p] = "starting"
  /\ qemu' = [qemu EXCEPT ![p] = "listening"]
  /\ socket' = IF command[p].debugger THEN p ELSE socket
  /\ UNCHANGED <<command, pc, server, code, status, tests, init, attached, stale, overlap>>

\* ktest::exit through the debug exit device, which cannot make QEMU return 0.  With
\* -S the kernel does not run before a debugger lets it.
ktest_exit(p) ==
  /\ qemu[p] = "listening"
  /\ command[p].name = "test"
  /\ command[p].wait => p \in attached
  /\ \E outcome \in {"pass", "fail"} :
       /\ tests' = [tests EXCEPT ![p] = outcome]
       /\ code' = [code EXCEPT ![p] = IF outcome = "pass" THEN "3" ELSE "1"]
  /\ qemu' = [qemu EXCEPT ![p] = "exited"]
  /\ UNCHANGED <<command, pc, server, status, socket, init, attached, stale, overlap>>

\* QEMU is closed, fails or is killed.  It may remove its socket when it ends.
qemu_exits(p) ==
  /\ Runs(p)
  /\ \E c \in {"0", "1", NoCode} : code' = [code EXCEPT ![p] = c]
  /\ qemu' = [qemu EXCEPT ![p] = "exited"]
  /\ \/ command[p].debugger /\ qemu[p] = "listening" /\ socket' = Nobody
     \/ UNCHANGED socket
  /\ UNCHANGED <<command, pc, server, status, tests, init, attached, stale, overlap>>

XTaskStep(p) ==
  \/ exec(p) \/ build(p) \/ server_check(p) \/ server_create(p) \/ server_config(p)
  \/ add_binary(p) \/ start_qemu(p) \/ decode_ends(p) \/ drop_socket(p) \/ drop_init(p)
  \/ verdict(p) \/ gdb_init(p) \/ gdb_socket(p) \/ rust_gdb(p)

XTaskNext ==
  \E p \in Invocations :
    XTaskStep(p) \/ decode_fails(p) \/ interrupted(p) \/ qemu_listens(p) \/ ktest_exit(p) \/ qemu_exits(p)

\* The tool does not stop by itself; QEMU, its user and errors have no fairness.
XTaskSpec ==
  /\ XTaskInit
  /\ [][XTaskNext]_xtaskVars
  /\ \A p \in Invocations : WF_xtaskVars(XTaskStep(p))
-----------------------------------------------------------------------------
\* "ReaderHandle will kill QEMU if it's dropped due to an error", and the Server
\* "should outlive the QEMU invocation": unless a signal has ended the tool, a QEMU
\* process runs only while the invocation that started it reads its output, and as long
\* as one that offers a debugger runs, the Server that cleans up after it exists.
QemuOwned ==
  \A p \in Invocations :
    Runs(p) => \/ pc[p] = "decode" /\ (command[p].debugger => p \in server)
               \/ pc[p] = "killed"

\* GDB state is cleaned up: however sessions overlap, and whatever became of the others,
\* a file is there only while the invocation that made it has still to remove it, or if
\* that one was interrupted, could not write the configuration or could not remove a file.
CleanedUp ==
  /\ socket # Nobody => socket \in server \cup stale
  /\ init # Nobody => init \in server \cup stale \/ pc[init] = "config"

\* If no invocation looked for the socket while another was setting up or cleaning
\* up, or while a QEMU without its tool had yet to make the socket, then a debugger that
\* attaches finds the QEMU and the symbols that belong together, as long as that QEMU
\* runs, also after a signal has ended the tool.
SessionIntact ==
  ~overlap =>
    \A p \in Invocations : (qemu[p] = "listening" /\ command[p].debugger) => socket = p /\ init = p

\* The verdict on a test run is that of the tests: it is a success only if they
\* passed, whatever else ended QEMU or the tool.
TestVerdict ==
  \A p \in Invocations : (pc[p] = "ok" /\ command[p].name = "test") => tests[p] = "pass" /\ code[p] = "3"

\* When QEMU has ended, so does the invocation.
InvocationEnds ==
  \A p \in Invocations : (qemu[p] = "exited") ~> (pc[p] \in Final)
=============================================================================
