------------------------------ MODULE XTask_proofs ------------------------------
(***************************************************************************)
(* Proofs about XTask, for any set of invocations.                         *)
(***************************************************************************)
EXTENDS XTask, TLAPS

Places ==
  {"exec", "build", "server", "create", "config", "image", "start", "decode", "drop", "drop init",
   "verdict", "gdb", "gdb socket", "rust-gdb"} \cup Final

XTypes ==
  /\ command \in [Invocations -> Commands]
  /\ pc \in [Invocations -> Places]
  /\ server \subseteq Invocations
  /\ qemu \in [Invocations -> {"none", "starting", "listening", "exited"}]
  /\ code \in [Invocations -> {"0", "1", "3", NoCode}]
  /\ status \in [Invocations -> {"0", "1", "3", NoCode}]
  /\ tests \in [Invocations -> {"none", "pass", "fail"}]
  /\ socket \in Invocations \cup {Nobody}
  /\ init \in Invocations \cup {Nobody}
  /\ stale \subseteq Invocations

\* Who holds a Server: an invocation on its way through Qemu::run, and every one
\* there that was told to offer a debugger until its drop is over.
HolderAt(p) ==
  /\ p \in server => pc[p] \in {"image", "start", "decode", "drop", "drop init"}
  /\ (pc[p] \in {"image", "start", "decode", "drop"} /\ command[p].debugger) => p \in server
  /\ pc[p] = "drop init" => p \in server

Holders == \A p \in Invocations : HolderAt(p)

\* A QEMU that offers a debugger has a Server, unless its tool was interrupted.
OrphanAt(p) == (Runs(p) /\ command[p].debugger) => p \in server \cup stale

Orphans == \A p \in Invocations : OrphanAt(p)

\* A file belongs to somebody who has still to remove it, or failed to.
Files ==
  /\ init # Nobody => init \in server \cup stale \/ pc[init] = "config"
  /\ socket # Nobody => (socket \in server /\ pc[socket] # "drop init") \/ socket \in stale

\* A session that has written its configuration.
Configured(p) == p \in server \/ pc[p] = "config" \/ (Runs(p) /\ command[p].debugger)

\* As long as no check missed another session, there is at most one, and the
\* configuration is its own.
OneSession ==
  ~overlap =>
    /\ \A p, q \in Invocations : (InSession(p) /\ InSession(q)) => p = q
    /\ \A p \in Invocations : Configured(p) => init = p

\* Where the codes come from.
CodesAt(p) ==
  /\ code[p] = "3" => tests[p] = "pass"
  /\ code[p] # NoCode => qemu[p] = "exited"
  /\ qemu[p] = "exited" => pc[p] \in {"decode", "drop", "drop init", "verdict"} \cup Final
  /\ status[p] # NoCode => status[p] = code[p] /\ pc[p] \in {"drop", "drop init", "verdict"} \cup Final
  /\ pc[p] \in {"gdb", "gdb socket", "rust-gdb"} => command[p].name = "gdb"
  /\ (pc[p] = "ok" /\ command[p].name = "test") => status[p] = "3"

Codes == \A p \in Invocations : CodesAt(p)

\* The inductive invariant.
XTaskInv ==
  /\ XTypes
  /\ QemuOwned
  /\ Holders
  /\ Orphans
  /\ Files
  /\ OneSession
  /\ SessionIntact
  /\ Codes
-----------------------------------------------------------------------------
\* QemuOwned, for one invocation.
OwnedAt(p) ==
  Runs(p) => \/ pc[p] = "decode" /\ (command[p].debugger => p \in server)
             \/ pc[p] = "killed"

\* A step of an invocation or of its QEMU.
XTaskAction(p) ==
  XTaskStep(p) \/ decode_fails(p) \/ interrupted(p) \/ qemu_listens(p) \/ ktest_exit(p) \/ qemu_exits(p)

\* Every step keeps the types.
LEMMA TypesKept ==
  ASSUME XTaskInv, NEW p \in Invocations, XTaskAction(p)
  PROVE  XTypes'
<1> USE DEF XTaskInv, XTypes, Places, Final, Goto, Runs, NoCode
<1>1. CASE exec(p)
  BY <1>1 DEF exec
<1>2. CASE build(p)
  BY <1>2 DEF build
<1>3. CASE server_check(p)
  BY <1>3 DEF server_check
<1>4. CASE server_create(p)
  BY <1>4 DEF server_create
<1>5. CASE server_config(p)
  BY <1>5 DEF server_config
<1>6. CASE add_binary(p)
  BY <1>6 DEF add_binary
<1>7. CASE start_qemu(p)
  BY <1>7 DEF start_qemu
<1>8. CASE decode_ends(p)
  BY <1>8 DEF decode_ends
<1>9. CASE decode_fails(p)
  BY <1>9 DEF decode_fails
<1>10. CASE drop_socket(p)
  <2>1. pc' = [pc EXCEPT ![p] = "drop init"] \/ pc' = [pc EXCEPT ![p] = "verdict"]
    BY <1>10 DEF drop_socket
  <2>2. pc' \in [Invocations -> Places]
    BY <2>1
  <2>3. socket' = socket \/ socket' = Nobody
    BY <1>10 DEF drop_socket
  <2>4. stale' = stale \/ stale' = stale \cup {p}
    BY <1>10 DEF drop_socket
  <2>5. socket' \in Invocations \cup {Nobody} /\ stale' \subseteq Invocations
    BY <2>3, <2>4
  <2> QED
    BY <1>10, <2>2, <2>5 DEF drop_socket
<1>11. CASE drop_init(p)
  BY <1>11 DEF drop_init
<1>12. CASE verdict(p)
  BY <1>12 DEF verdict
<1>13. CASE gdb_init(p)
  BY <1>13 DEF gdb_init
<1>14. CASE gdb_socket(p)
  BY <1>14 DEF gdb_socket
<1>15. CASE rust_gdb(p)
  BY <1>15 DEF rust_gdb
<1>16. CASE interrupted(p)
  BY <1>16 DEF interrupted
<1>17. CASE qemu_listens(p)
  BY <1>17 DEF qemu_listens
<1>18. CASE ktest_exit(p)
  <2>1. PICK outcome \in {"pass", "fail"} :
          /\ tests' = [tests EXCEPT ![p] = outcome]
          /\ code' = [code EXCEPT ![p] = IF outcome = "pass" THEN "3" ELSE "1"]
    BY <1>18 DEF ktest_exit
  <2>2. code' = [code EXCEPT ![p] = "3"] \/ code' = [code EXCEPT ![p] = "1"]
    BY <2>1
  <2> QED
    BY <1>18, <2>1, <2>2 DEF ktest_exit
<1>19. CASE qemu_exits(p)
  <2>1. PICK c \in {"0", "1", NoCode} : code' = [code EXCEPT ![p] = c]
    BY <1>19 DEF qemu_exits
  <2>2. c \in {"0", "1", "3", NoCode}
    OBVIOUS
  <2> QED
    BY <1>19, <2>1, <2>2 DEF qemu_exits
<1> QED
  BY <1>1, <1>2, <1>3, <1>4, <1>5, <1>6, <1>7, <1>8, <1>9, <1>10, <1>11, <1>12, <1>13, <1>14, <1>15, <1>16, <1>17, <1>18, <1>19 DEF XTaskAction, XTaskStep

\* An invocation changes only its own state, besides the files.
LEMMA Frame ==
  ASSUME XTaskInv, NEW p \in Invocations, XTaskAction(p)
  PROVE  /\ command' = command
         /\ \A q \in Invocations \ {p} :
              /\ pc'[q] = pc[q] /\ qemu'[q] = qemu[q] /\ code'[q] = code[q]
              /\ status'[q] = status[q] /\ tests'[q] = tests[q]
              /\ q \in server' <=> q \in server
<1> USE DEF XTaskInv, XTypes, Goto
<1>1. CASE exec(p)
  BY <1>1 DEF exec
<1>2. CASE build(p)
  BY <1>2 DEF build
<1>3. CASE server_check(p)
  BY <1>3 DEF server_check
<1>4. CASE server_create(p)
  BY <1>4 DEF server_create
<1>5. CASE server_config(p)
  BY <1>5 DEF server_config
<1>6. CASE add_binary(p)
  BY <1>6 DEF add_binary
<1>7. CASE start_qemu(p)
  BY <1>7 DEF start_qemu
<1>8. CASE decode_ends(p)
  BY <1>8 DEF decode_ends
<1>9. CASE decode_fails(p)
  BY <1>9 DEF decode_fails
<1>10. CASE drop_socket(p)
  BY <1>10 DEF drop_socket
<1>11. CASE drop_init(p)
  BY <1>11 DEF drop_init
<1>12. CASE verdict(p)
  BY <1>12 DEF verdict
<1>13. CASE gdb_init(p)
  BY <1>13 DEF gdb_init
<1>14. CASE gdb_socket(p)
  BY <1>14 DEF gdb_socket
<1>15. CASE rust_gdb(p)
  BY <1>15 DEF rust_gdb
<1>16. CASE interrupted(p)
  BY <1>16 DEF interrupted
<1>17. CASE qemu_listens(p)
  BY <1>17 DEF qemu_listens
<1>18. CASE ktest_exit(p)
  BY <1>18 DEF ktest_exit
<1>19. CASE qemu_exits(p)
  BY <1>19 DEF qemu_exits
<1> QED
  BY <1>1, <1>2, <1>3, <1>4, <1>5, <1>6, <1>7, <1>8, <1>9, <1>10, <1>11, <1>12, <1>13, <1>14, <1>15, <1>16, <1>17, <1>18, <1>19 DEF XTaskAction, XTaskStep

\* A QEMU process and the Server of its invocation go together.
LEMMA OwnedAtKept ==
  ASSUME XTaskInv, NEW p \in Invocations, XTaskAction(p)
  PROVE  (HolderAt(p) /\ OwnedAt(p))'
<1> USE DEF XTaskInv, XTypes, QemuOwned, OwnedAt, Holders, HolderAt, Goto, Runs, Final
<1>1. CASE exec(p)
  BY <1>1 DEF exec
<1>2. CASE build(p)
  <2>1. pc[p] = "build" /\ command' = command /\ qemu' = qemu
    BY <1>2 DEF build
  <2>2. pc'[p] \in {"failed", "ok", "server", "image"} /\ (pc'[p] = "image" => ~command[p].debugger) /\ server' = server
    BY <1>2, <2>1 DEF build
  <2> QED
    BY <2>1, <2>2
<1>3. CASE server_check(p)
  <2>1. pc[p] = "server" /\ command' = command /\ qemu' = qemu
    BY <1>3 DEF server_check
  <2>2. pc'[p] \in {"failed", "create"} /\ server' = server
    BY <1>3, <2>1 DEF server_check
  <2> QED
    BY <2>1, <2>2
<1>4. CASE server_create(p)
  <2>1. pc[p] = "create" /\ command' = command /\ qemu' = qemu
    BY <1>4 DEF server_create
  <2>2. pc'[p] \in {"failed", "config"} /\ server' = server
    BY <1>4, <2>1 DEF server_create
  <2> QED
    BY <2>1, <2>2
<1>5. CASE server_config(p)
  <2>1. pc[p] = "config" /\ command' = command /\ qemu' = qemu
    BY <1>5 DEF server_config
  <2>2. pc'[p] \in {"failed", "image"} /\ (pc'[p] = "image" => p \in server') /\ (pc'[p] = "failed" => server' = server)
    BY <1>5, <2>1 DEF server_config
  <2> QED
    BY <2>1, <2>2
<1>6. CASE add_binary(p)
  BY <1>6 DEF add_binary
<1>7. CASE start_qemu(p)
  <2>1. pc[p] = "start" /\ command' = command
    BY <1>7 DEF start_qemu
  <2>2. pc'[p] \in {"drop", "decode"} /\ (pc'[p] = "drop" => qemu' = qemu) /\ server' = server
    BY <1>7, <2>1 DEF start_qemu
  <2> QED
    BY <2>1, <2>2
<1>8. CASE decode_ends(p)
  BY <1>8 DEF decode_ends
<1>9. CASE decode_fails(p)
  BY <1>9 DEF decode_fails
<1>10. CASE drop_socket(p)
  BY <1>10 DEF drop_socket
<1>11. CASE drop_init(p)
  BY <1>11 DEF drop_init
<1>12. CASE verdict(p)
  BY <1>12 DEF verdict
<1>13. CASE gdb_init(p)
  BY <1>13 DEF gdb_init
<1>14. CASE gdb_socket(p)
  BY <1>14 DEF gdb_socket
<1>15. CASE rust_gdb(p)
  BY <1>15 DEF rust_gdb
<1>16. CASE interrupted(p)
  BY <1>16 DEF interrupted
<1>17. CASE qemu_listens(p)
  BY <1>17 DEF qemu_listens
<1>18. CASE ktest_exit(p)
  BY <1>18 DEF ktest_exit
<1>19. CASE qemu_exits(p)
  BY <1>19 DEF qemu_exits
<1> QED
  BY <1>1, <1>2, <1>3, <1>4, <1>5, <1>6, <1>7, <1>8, <1>9, <1>10, <1>11, <1>12, <1>13, <1>14, <1>15, <1>16, <1>17, <1>18, <1>19 DEF XTaskAction, XTaskStep

\* ... and they do for every invocation, whichever of them takes the step.
LEMMA OwnedKept ==
  ASSUME XTaskInv, NEW p \in Invocations, XTaskAction(p)
  PROVE  (QemuOwned /\ Holders)'
<1> SUFFICES ASSUME NEW q \in Invocations
             PROVE  (HolderAt(q) /\ OwnedAt(q))'
  BY DEF QemuOwned, Holders, OwnedAt
<1>1. CASE q = p
  BY <1>1, OwnedAtKept
<1>2. CASE q # p
  <2>1. HolderAt(q) /\ OwnedAt(q)
    BY DEF XTaskInv, QemuOwned, Holders, OwnedAt
  <2>2. /\ pc'[q] = pc[q] /\ qemu'[q] = qemu[q] /\ command' = command
        /\ q \in server' <=> q \in server
    BY <1>2, Frame
  <2> QED
    BY <2>1, <2>2 DEF HolderAt, OwnedAt, Runs
<1> QED
  BY <1>1, <1>2

\* Only a signal ends the tool so, and after it only QEMU takes steps.
LEMMA KilledStays ==
  ASSUME XTaskInv, NEW p \in Invocations, XTaskAction(p), ~interrupted(p), pc'[p] = "killed", Runs(p)'
  PROVE  pc[p] = "killed" /\ Runs(p) /\ server' = server /\ command' = command
<1> USE DEF XTaskInv, XTypes, Goto, Runs, Final, Places
<1>1. CASE qemu_listens(p)
  BY <1>1 DEF qemu_listens
<1>2. CASE ktest_exit(p)
  BY <1>2 DEF ktest_exit
<1>3. CASE qemu_exits(p)
  BY <1>3 DEF qemu_exits
<1>4. CASE decode_fails(p)
  BY <1>4 DEF decode_fails
<1>5. CASE exec(p) \/ verdict(p) \/ gdb_init(p) \/ gdb_socket(p) \/ rust_gdb(p)
  BY <1>5 DEF exec, verdict, gdb_init, gdb_socket, rust_gdb
<1>6. CASE build(p) \/ server_check(p) \/ server_create(p) \/ server_config(p)
  BY <1>6 DEF build, server_check, server_create, server_config
<1>7. CASE add_binary(p) \/ start_qemu(p) \/ decode_ends(p) \/ drop_socket(p) \/ drop_init(p)
  BY <1>7 DEF add_binary, start_qemu, decode_ends, drop_socket, drop_init
<1> QED
  BY <1>1, <1>2, <1>3, <1>4, <1>5, <1>6, <1>7 DEF XTaskAction, XTaskStep

\* What an invocation leaves behind stays recorded, and records only itself.
LEMMA StaleGrows ==
  ASSUME XTaskInv, NEW p \in Invocations, XTaskAction(p)
  PROVE  stale' = stale \/ stale' = stale \cup {p}
  BY DEF XTaskAction, XTaskStep, exec, build, server_check, server_create, server_config, add_binary,
         start_qemu, decode_ends, decode_fails, drop_socket, drop_init, verdict, gdb_init, gdb_socket,
         rust_gdb, interrupted, qemu_listens, ktest_exit, qemu_exits

\* A QEMU with a debugger outlives its Server only if the Server was left behind.
LEMMA OrphansKept ==
  ASSUME XTaskInv, NEW p \in Invocations, XTaskAction(p)
  PROVE  Orphans'
<1> SUFFICES ASSUME NEW q \in Invocations
             PROVE  OrphanAt(q)'
  BY DEF Orphans
<1>1. stale \subseteq stale'
  BY StaleGrows
<1>2. OrphanAt(q)
  BY DEF XTaskInv, Orphans
<1>3. CASE q # p
  <2>1. /\ qemu'[q] = qemu[q] /\ command' = command
        /\ q \in server' <=> q \in server
    BY <1>3, Frame
  <2> QED
    BY <1>1, <1>2, <2>1 DEF OrphanAt, Runs
<1>4. CASE q = p /\ ~interrupted(p)
  <2>1. HolderAt(p)' /\ OwnedAt(p)'
    BY OwnedAtKept
  <2>2. CASE pc'[p] = "decode"
    BY <1>4, <2>1, <2>2 DEF OwnedAt, OrphanAt, HolderAt
  <2>3. CASE pc'[p] = "killed" /\ Runs(p)'
    <3>1. pc[p] = "killed" /\ Runs(p) /\ server' = server /\ command' = command
      BY <1>4, <2>3, KilledStays
    <3> QED
      BY <1>1, <1>2, <1>4, <3>1 DEF OrphanAt
  <2> QED
    BY <1>4, <2>1, <2>2, <2>3 DEF OwnedAt, OrphanAt, Runs
<1>5. CASE q = p /\ interrupted(p)
  <2>1. Runs(p)' => Runs(p)
    BY <1>5 DEF interrupted, Runs, XTaskInv, XTypes
  <2>2. command' = command /\ (p \in server => p \in stale')
    BY <1>5 DEF interrupted
  <2> QED
    BY <1>1, <1>2, <1>5, <2>1, <2>2 DEF OrphanAt
<1> QED
  BY <1>3, <1>4, <1>5

\* A file has somebody who has still to remove it, or is left behind.
LEMMA FilesKept ==
  ASSUME XTaskInv, NEW p \in Invocations, XTaskAction(p)
  PROVE  Files'
<1> USE NobodyAssumption DEF XTaskInv, XTypes, QemuOwned, Holders, HolderAt, Orphans, OrphanAt, Files, Goto, Runs, Final
<1>1. CASE exec(p)
  BY <1>1 DEF exec
<1>2. CASE build(p)
  BY <1>2 DEF build
<1>3. CASE server_check(p)
  BY <1>3 DEF server_check
<1>4. CASE server_create(p)
  <2>1. CASE pc' = [pc EXCEPT ![p] = "failed"] /\ init' = init
    BY <1>4, <2>1 DEF server_create
  <2>2. CASE pc' = [pc EXCEPT ![p] = "config"] /\ init' = p
    <3>1. pc'[p] = "config" /\ p \notin server
      BY <1>4, <2>2 DEF server_create
    <3>2. socket \in server => pc'[socket] = pc[socket]
      BY <2>2, <3>1
    <3> QED
      BY <1>4, <2>2, <3>1, <3>2 DEF server_create
  <2> QED
    BY <1>4, <2>1, <2>2 DEF server_create
<1>5. CASE server_config(p)
  BY <1>5 DEF server_config
<1>6. CASE add_binary(p)
  BY <1>6 DEF add_binary
<1>7. CASE start_qemu(p)
  BY <1>7 DEF start_qemu
<1>8. CASE decode_ends(p)
  BY <1>8 DEF decode_ends
<1>9. CASE decode_fails(p)
  BY <1>9 DEF decode_fails
<1>10. CASE drop_socket(p)
  <2>1. CASE p \in server
    <3>1. server' = server /\ init' = init /\ pc' = [pc EXCEPT ![p] = "drop init"]
      BY <1>10, <2>1 DEF drop_socket
    <3>2. \A q \in Invocations : q # p => pc'[q] = pc[q]
      BY <3>1
    <3>3. \/ socket' = Nobody /\ stale' = stale
          \/ socket' = socket /\ stale' = stale \cup {p}
      BY <1>10, <2>1 DEF drop_socket
    <3>4. init # Nobody => init \in server \cup stale' \/ pc'[init] = "config"
      BY <2>1, <3>2, <3>3
    <3>5. socket' # Nobody => (socket' \in server /\ pc'[socket'] # "drop init") \/ socket' \in stale'
      BY <3>2, <3>3
    <3> QED
      BY <3>1, <3>4, <3>5
  <2>2. CASE p \notin server
    <3>1. \A q \in server : pc'[q] = pc[q]
      BY <1>10, <2>2 DEF drop_socket
    <3>2. init \in Invocations /\ pc[init] = "config" => pc'[init] = "config"
      BY <1>10 DEF drop_socket
    <3>3. stale' = stale /\ init' = init /\ socket' = socket /\ server' = server
      BY <1>10, <2>2 DEF drop_socket
    <3> QED
      BY <3>1, <3>2, <3>3
  <2> QED
    BY <2>1, <2>2
<1>11. CASE drop_init(p)
  BY <1>11 DEF drop_init
<1>12. CASE verdict(p)
  BY <1>12 DEF verdict
<1>13. CASE gdb_init(p)
  BY <1>13 DEF gdb_init
<1>14. CASE gdb_socket(p)
  BY <1>14 DEF gdb_socket
<1>15. CASE rust_gdb(p)
  BY <1>15 DEF rust_gdb
<1>16. CASE interrupted(p)
  BY <1>16 DEF interrupted
<1>17. CASE qemu_listens(p)
  BY <1>17 DEF qemu_listens
<1>18. CASE ktest_exit(p)
  BY <1>18 DEF ktest_exit
<1>19. CASE qemu_exits(p)
  BY <1>19 DEF qemu_exits
<1> QED
  BY <1>1, <1>2, <1>3, <1>4, <1>5, <1>6, <1>7, <1>8, <1>9, <1>10, <1>11, <1>12, <1>13, <1>14, <1>15, <1>16, <1>17, <1>18, <1>19 DEF XTaskAction, XTaskStep

\* The codes of the invocation that takes the step.
LEMMA CodesAtKept ==
  ASSUME NEW p \in Invocations, XTypes, OwnedAt(p), CodesAt(p), XTaskAction(p)
  PROVE  CodesAt(p)'
<1> USE DEF XTypes, OwnedAt, CodesAt, NoCode, Goto, Runs, Final
<1>1. CASE exec(p)
  BY <1>1 DEF exec
<1>2. CASE build(p)
  <2>1. code' = code /\ status' = status /\ tests' = tests /\ command' = command /\ qemu' = qemu
    BY <1>2 DEF build
  <2>2. pc[p] = "build"
    BY <1>2 DEF build
  <2>3. pc'[p] \in {"failed", "ok", "server", "image"}
    <3>1. pc' = [pc EXCEPT ![p] = pc'[p]]
      BY <1>2 DEF build
    <3> QED
      BY <1>2, <3>1 DEF build
  <2>4. pc'[p] = "ok" => command[p].name = "build"
    BY <1>2 DEF build
  <2> QED
    BY <2>1, <2>2, <2>3, <2>4
<1>3. CASE server_check(p)
  <2>1. code' = code /\ status' = status /\ tests' = tests /\ command' = command /\ qemu' = qemu
    BY <1>3 DEF server_check
  <2>2. pc[p] = "server" /\ pc'[p] \in {"failed", "create"}
    BY <1>3 DEF server_check
  <2> QED
    BY <2>1, <2>2
<1>4. CASE server_create(p)
  <2>1. code' = code /\ status' = status /\ tests' = tests /\ command' = command /\ qemu' = qemu
    BY <1>4 DEF server_create
  <2>2. pc[p] = "create" /\ pc'[p] \in {"failed", "config"}
    BY <1>4 DEF server_create
  <2> QED
    BY <2>1, <2>2
<1>5. CASE server_config(p)
  <2>1. code' = code /\ status' = status /\ tests' = tests /\ command' = command /\ qemu' = qemu
    BY <1>5 DEF server_config
  <2>2. pc[p] = "config" /\ pc'[p] \in {"failed", "image"}
    BY <1>5 DEF server_config
  <2> QED
    BY <2>1, <2>2
<1>6. CASE add_binary(p)
  <2>1. code' = code /\ status' = status /\ tests' = tests /\ command' = command /\ qemu' = qemu
    BY <1>6 DEF add_binary
  <2>2. pc[p] = "image" /\ pc'[p] \in {"start", "drop"}
    BY <1>6 DEF add_binary
  <2> QED
    BY <2>1, <2>2
<1>7. CASE start_qemu(p)
  <2>1. code' = code /\ status' = status /\ tests' = tests /\ command' = command
    BY <1>7 DEF start_qemu
  <2>2. pc[p] = "start" /\ pc'[p] \in {"drop", "decode"}
    BY <1>7 DEF start_qemu
  <2>3. qemu'[p] = qemu[p] \/ qemu'[p] = "starting"
    BY <1>7 DEF start_qemu
  <2> QED
    BY <2>1, <2>2, <2>3
<1>8. CASE decode_ends(p)
  BY <1>8 DEF decode_ends
<1>9. CASE decode_fails(p)
  BY <1>9 DEF decode_fails
<1>10. CASE drop_socket(p)
  <2>1. code' = code /\ status' = status /\ tests' = tests /\ command' = command /\ qemu' = qemu
    BY <1>10 DEF drop_socket
  <2>2. pc[p] = "drop"
    BY <1>10 DEF drop_socket
  <2>3. pc' = [pc EXCEPT ![p] = "drop init"] \/ pc' = [pc EXCEPT ![p] = "verdict"]
    BY <1>10 DEF drop_socket
  <2>4. pc'[p] = "drop init" \/ pc'[p] = "verdict"
    BY <2>3
  <2> QED
    BY <2>1, <2>2, <2>4
<1>11. CASE drop_init(p)
  BY <1>11 DEF drop_init
<1>12. CASE verdict(p)
  BY <1>12 DEF verdict
<1>13. CASE gdb_init(p)
  <2>1. code' = code /\ status' = status /\ tests' = tests /\ command' = command /\ qemu' = qemu
    BY <1>13 DEF gdb_init
  <2>2. pc[p] = "gdb" /\ pc'[p] \in {"gdb socket", "failed"}
    BY <1>13 DEF gdb_init
  <2> QED
    BY <2>1, <2>2
<1>14. CASE gdb_socket(p)
  BY <1>14 DEF gdb_socket
<1>15. CASE rust_gdb(p)
  BY <1>15 DEF rust_gdb
<1>16. CASE interrupted(p)
  BY <1>16 DEF interrupted
<1>17. CASE qemu_listens(p)
  BY <1>17 DEF qemu_listens
<1>18. CASE ktest_exit(p)
  <2>1. PICK outcome \in {"pass", "fail"} :
          /\ tests' = [tests EXCEPT ![p] = outcome]
          /\ code' = [code EXCEPT ![p] = IF outcome = "pass" THEN "3" ELSE "1"]
    BY <1>18 DEF ktest_exit
  <2>2. tests'[p] = outcome /\ (code'[p] = "3" => outcome = "pass")
    BY <2>1
  <2>3. pc[p] \in {"decode", "killed"} /\ status[p] = NoCode
    BY <1>18 DEF ktest_exit
  <2>4. pc' = pc /\ status' = status /\ command' = command
    BY <1>18 DEF ktest_exit
  <2>5. qemu' = [qemu EXCEPT ![p] = "exited"]
    BY <1>18 DEF ktest_exit
  <2>6. qemu'[p] = "exited"
    BY <2>5
  <2> QED
    BY <2>2, <2>3, <2>4, <2>6
<1>19. CASE qemu_exits(p)
  <2>1. PICK c \in {"0", "1", NoCode} : code' = [code EXCEPT ![p] = c]
    BY <1>19 DEF qemu_exits
  <2>2. code'[p] # "3"
    BY <2>1
  <2>3. pc[p] \in {"decode", "killed"} /\ status[p] = NoCode
    BY <1>19 DEF qemu_exits
  <2>4. pc' = pc /\ status' = status /\ command' = command
    BY <1>19 DEF qemu_exits
  <2>5. qemu' = [qemu EXCEPT ![p] = "exited"]
    BY <1>19 DEF qemu_exits
  <2>6. qemu'[p] = "exited"
    BY <2>5
  <2> QED
    BY <2>2, <2>3, <2>4, <2>6
<1> QED
  BY <1>1, <1>2, <1>3, <1>4, <1>5, <1>6, <1>7, <1>8, <1>9, <1>10, <1>11, <1>12, <1>13, <1>14, <1>15, <1>16, <1>17, <1>18, <1>19 DEF XTaskAction, XTaskStep

\* What a step may do to sessions: it changes the configuration only within its own,
\* and begins one only if there is no other, or the overlap is noted.
LEMMA SessionStep ==
  ASSUME XTaskInv, NEW p \in Invocations, XTaskAction(p)
  PROVE  \/ /\ overlap' = overlap
            /\ InSession(p)' => InSession(p)
            /\ init' = init \/ InSession(p)
            /\ Configured(p)' => (init' = p \/ (init' = init /\ Configured(p)))
         \/ /\ overlap' \/ \A q \in Invocations : ~InSession(q)
            /\ overlap => overlap'
            /\ init' = init /\ ~Configured(p)'
<1> USE DEF XTaskInv, XTypes, QemuOwned, Holders, HolderAt, InSession, Configured, Goto, Runs, Final
<1>1. CASE exec(p)
  BY <1>1 DEF exec
<1>2. CASE build(p)
  BY <1>2 DEF build
<1>3. CASE server_check(p)
  <2>1. CASE pc' = [pc EXCEPT ![p] = "failed"] /\ overlap' = overlap
    BY <1>3, <2>1 DEF server_check
  <2>2. CASE pc' = [pc EXCEPT ![p] = "create"] /\ overlap' = (overlap \/ \E q \in Invocations : InSession(q))
    BY <1>3, <2>2 DEF server_check
  <2> QED
    BY <1>3, <2>1, <2>2 DEF server_check
<1>4. CASE server_create(p)
  BY <1>4 DEF server_create
<1>5. CASE server_config(p)
  BY <1>5 DEF server_config
<1>6. CASE add_binary(p)
  BY <1>6 DEF add_binary
<1>7. CASE start_qemu(p)
  BY <1>7 DEF start_qemu
<1>8. CASE decode_ends(p)
  BY <1>8 DEF decode_ends
<1>9. CASE decode_fails(p)
  BY <1>9 DEF decode_fails
<1>10. CASE drop_socket(p)
  BY <1>10 DEF drop_socket
<1>11. CASE drop_init(p)
  <2>2. ~InSession(p)' /\ overlap' = overlap /\ p \notin server' /\ pc'[p] = "verdict"
    BY <1>11 DEF drop_init
  <2>3. init' = init \/ InSession(p)
    BY <1>11 DEF drop_init
  <2> QED
    BY <2>2, <2>3
<1>12. CASE verdict(p)
  BY <1>12 DEF verdict
<1>13. CASE gdb_init(p)
  BY <1>13 DEF gdb_init
<1>14. CASE gdb_socket(p)
  BY <1>14 DEF gdb_socket
<1>15. CASE rust_gdb(p)
  BY <1>15 DEF rust_gdb
<1>16. CASE interrupted(p)
  BY <1>16 DEF interrupted
<1>17. CASE qemu_listens(p)
  BY <1>17 DEF qemu_listens
<1>18. CASE ktest_exit(p)
  BY <1>18 DEF ktest_exit
<1>19. CASE qemu_exits(p)
  BY <1>19 DEF qemu_exits
<1> QED
  BY <1>1, <1>2, <1>3, <1>4, <1>5, <1>6, <1>7, <1>8, <1>9, <1>10, <1>11, <1>12, <1>13, <1>14, <1>15, <1>16, <1>17, <1>18, <1>19 DEF XTaskAction, XTaskStep

\* One session at a time keeps its configuration.
LEMMA OneSessionKept ==
  ASSUME XTaskInv, NEW p \in Invocations, XTaskAction(p)
  PROVE  OneSession'
<1>1. \A q \in Invocations \ {p} : (InSession(q)' <=> InSession(q)) /\ (Configured(q)' <=> Configured(q))
  BY Frame DEF InSession, Configured, Runs
<1>2. \A q \in Invocations : Configured(q) => InSession(q)
  BY DEF InSession, Configured
<1>3. CASE /\ overlap' = overlap
           /\ InSession(p)' => InSession(p)
           /\ init' = init \/ InSession(p)
           /\ Configured(p)' => (init' = p \/ (init' = init /\ Configured(p)))
  <2> SUFFICES ASSUME ~overlap
               PROVE  /\ \A q, r \in Invocations : (InSession(q)' /\ InSession(r)') => q = r
                      /\ \A q \in Invocations : Configured(q)' => init' = q
    BY <1>3 DEF OneSession
  <2>1. \A q \in Invocations : InSession(q)' => InSession(q)
    BY <1>1, <1>3
  <2>2. \A q, r \in Invocations : (InSession(q) /\ InSession(r)) => q = r
    BY DEF XTaskInv, OneSession
  <2>3. \A q \in Invocations : Configured(q) => init = q
    BY DEF XTaskInv, OneSession
  <2> QED
    BY <1>1, <1>2, <1>3, <2>1, <2>2, <2>3
<1>4. CASE /\ overlap' \/ \A q \in Invocations : ~InSession(q)
           /\ overlap => overlap'
           /\ init' = init /\ ~Configured(p)'
  <2> SUFFICES ASSUME ~(overlap')
               PROVE  /\ \A q, r \in Invocations : (InSession(q)' /\ InSession(r)') => q = r
                      /\ \A q \in Invocations : Configured(q)' => init' = q
    BY DEF OneSession
  <2>1. \A q \in Invocations \ {p} : ~InSession(q)' /\ ~Configured(q)'
    BY <1>1, <1>2, <1>4
  <2> QED
    BY <2>1, <1>4
<1> QED
  BY <1>3, <1>4, SessionStep

\* A step leaves the socket alone, or changes it within its own session; then its
\* QEMU listens after the step only if the socket is its own.
LEMMA SocketStep ==
  ASSUME XTaskInv, NEW p \in Invocations, XTaskAction(p)
  PROVE  /\ socket' = socket \/ (InSession(p) /\ (qemu'[p] = "listening" => socket' = p))
         /\ qemu'[p] = "listening" /\ command[p].debugger => socket' = p \/ (socket' = socket /\ qemu[p] = "listening")
         /\ overlap => overlap'
         /\ init' = init \/ qemu'[p] # "listening"
<1> USE DEF XTaskInv, XTypes, QemuOwned, Holders, HolderAt, InSession, Goto, Runs, Final
<1>1. CASE exec(p)
  BY <1>1 DEF exec
<1>2. CASE build(p)
  BY <1>2 DEF build
<1>3. CASE server_check(p)
  <2>1. CASE pc' = [pc EXCEPT ![p] = "failed"] /\ overlap' = overlap
    BY <1>3, <2>1 DEF server_check
  <2>2. CASE pc' = [pc EXCEPT ![p] = "create"] /\ overlap' = (overlap \/ \E q \in Invocations : InSession(q))
    BY <1>3, <2>2 DEF server_check
  <2> QED
    BY <1>3, <2>1, <2>2 DEF server_check
<1>4. CASE server_create(p)
  BY <1>4 DEF server_create
<1>5. CASE server_config(p)
  BY <1>5 DEF server_config
<1>6. CASE add_binary(p)
  BY <1>6 DEF add_binary
<1>7. CASE start_qemu(p)
  BY <1>7 DEF start_qemu
<1>8. CASE decode_ends(p)
  BY <1>8 DEF decode_ends
<1>9. CASE decode_fails(p)
  BY <1>9 DEF decode_fails
<1>10. CASE drop_socket(p)
  BY <1>10 DEF drop_socket
<1>11. CASE drop_init(p)
  BY <1>11 DEF drop_init
<1>12. CASE verdict(p)
  BY <1>12 DEF verdict
<1>13. CASE gdb_init(p)
  BY <1>13 DEF gdb_init
<1>14. CASE gdb_socket(p)
  BY <1>14 DEF gdb_socket
<1>15. CASE rust_gdb(p)
  BY <1>15 DEF rust_gdb
<1>16. CASE interrupted(p)
  BY <1>16 DEF interrupted
<1>17. CASE qemu_listens(p)
  BY <1>17 DEF qemu_listens
<1>18. CASE ktest_exit(p)
  BY <1>18 DEF ktest_exit
<1>19. CASE qemu_exits(p)
  BY <1>19 DEF qemu_exits
<1> QED
  BY <1>1, <1>2, <1>3, <1>4, <1>5, <1>6, <1>7, <1>8, <1>9, <1>10, <1>11, <1>12, <1>13, <1>14, <1>15, <1>16, <1>17, <1>18, <1>19 DEF XTaskAction, XTaskStep

\* A session that runs keeps its socket and its configuration.
LEMMA SessionKept ==
  ASSUME XTaskInv, NEW p \in Invocations, XTaskAction(p)
  PROVE  SessionIntact'
<1> SUFFICES ASSUME ~(overlap'), NEW q \in Invocations, qemu'[q] = "listening", command'[q].debugger
             PROVE  socket' = q /\ init' = q
  BY DEF SessionIntact
<1>1. ~overlap
  BY SocketStep
<1>2. command' = command
  BY Frame
<1>3. OneSession'
  BY OneSessionKept
<1>4. Configured(q)' /\ init' = q
  BY <1>1, <1>3 DEF OneSession, Configured, Runs
<1>5. CASE q = p
  <2>1. socket' = p \/ (socket' = socket /\ qemu[p] = "listening")
    BY <1>2, <1>5, SocketStep
  <2>2. qemu[p] = "listening" => socket = p
    BY <1>1, <1>2, <1>5 DEF XTaskInv, SessionIntact
  <2> QED
    BY <1>4, <1>5, <2>1, <2>2
<1>6. CASE q # p
  <2>1. qemu[q] = "listening" /\ command[q].debugger
    BY <1>2, <1>6, Frame
  <2>2. socket = q
    BY <1>1, <1>2, <2>1 DEF XTaskInv, SessionIntact
  <2>3. ~InSession(p)
    BY <1>1, <1>6, <2>1 DEF XTaskInv, OneSession, InSession, Runs
  <2> QED
    BY <1>4, <2>2, <2>3, SocketStep
<1> QED
  BY <1>5, <1>6

\* The invariant is inductive.
LEMMA XTaskInvKept == XTaskInv /\ [XTaskNext]_xtaskVars => XTaskInv'
<1> SUFFICES ASSUME XTaskInv, [XTaskNext]_xtaskVars
             PROVE  XTaskInv'
  OBVIOUS
<1>1. CASE XTaskNext
  <2>1. PICK p \in Invocations : XTaskAction(p)
    BY <1>1 DEF XTaskNext, XTaskAction
  <2>2. (XTypes /\ QemuOwned /\ Holders /\ Orphans /\ Files)'
    BY <2>1, TypesKept, OwnedKept, OrphansKept, FilesKept
  <2>3. (OneSession /\ SessionIntact)'
    BY <2>1, OneSessionKept, SessionKept
  <2>4. Codes'
    <3> SUFFICES ASSUME NEW q \in Invocations
                 PROVE  CodesAt(q)'
      BY DEF Codes
    <3>1. CASE q = p
      <4>1. XTypes /\ OwnedAt(p) /\ CodesAt(p)
        BY DEF XTaskInv, Codes, QemuOwned, OwnedAt
      <4> QED
        BY <2>1, <3>1, <4>1, CodesAtKept
    <3>2. CASE q # p
      <4>1. CodesAt(q)
        BY DEF XTaskInv, Codes
      <4>2. /\ pc'[q] = pc[q] /\ qemu'[q] = qemu[q] /\ code'[q] = code[q] /\ status'[q] = status[q]
            /\ tests'[q] = tests[q] /\ command' = command
        BY <2>1, <3>2, Frame
      <4> QED
        BY <4>1, <4>2 DEF CodesAt
    <3> QED
      BY <3>1, <3>2
  <2> QED
    BY <2>2, <2>3, <2>4 DEF XTaskInv
<1>2. CASE UNCHANGED xtaskVars
  BY <1>2 DEF xtaskVars, XTaskInv, XTypes, QemuOwned, Holders, Orphans, OrphanAt, Files, OneSession, InSession,
              Configured, HolderAt, SessionIntact, Codes, CodesAt, Runs
<1> QED
  BY <1>1, <1>2

\* The initial states: nobody has a file, a Server or a QEMU.
LEMMA XTaskInvInit == XTaskInit => XTaskInv
  BY NobodyAssumption DEF XTaskInit, XTaskInv, XTypes, Places, Final, NoCode, QemuOwned, Holders, HolderAt, Orphans, OrphanAt, Files,
     OneSession, InSession, Configured, SessionIntact, Codes, CodesAt, Runs

\* The inductive invariant holds whatever the invocations do.
THEOREM XTaskInvariant == XTaskSpec => []XTaskInv
  BY XTaskInvInit, XTaskInvKept, PTL DEF XTaskSpec

\* A QEMU process outlives the invocation that started it, or its gdb Server, only if a
\* signal ended the tool, for any number of invocations and whatever else fails.
THEOREM QemuIsOwned == XTaskSpec => []QemuOwned
<1>1. XTaskInv => QemuOwned
  BY DEF XTaskInv
<1> QED
  BY <1>1, XTaskInvariant, PTL

\* Server's Drop leaves no file behind, however many sessions overlap and whatever becomes
\* of the others: a file that stays was made by an invocation that was interrupted or
\* whose file operations failed.
THEOREM FilesCleanedUp == XTaskSpec => []CleanedUp
<1>1. XTaskInv => CleanedUp
  BY NobodyAssumption DEF XTaskInv, XTypes, Files, CleanedUp
<1> QED
  BY <1>1, XTaskInvariant, PTL

\* If the check of Server::new never missed another session, a running session has
\* its own socket and configuration.
THEOREM SessionsIntact == XTaskSpec => []SessionIntact
<1>1. XTaskInv => SessionIntact
  BY DEF XTaskInv
<1> QED
  BY <1>1, XTaskInvariant, PTL

\* do_test reports success only for tests that passed.
THEOREM TestVerdictRight == XTaskSpec => []TestVerdict
<1>1. XTaskInv => TestVerdict
  BY DEF XTaskInv, Codes, CodesAt, TestVerdict, NoCode
<1> QED
  BY <1>1, XTaskInvariant, PTL
=============================================================================
