# A verification project for libyazzy-preload

libyazzy-preload is a collection of small shared libraries for `LD_PRELOAD`.
Each one wraps a few libc functions of whatever program it is loaded into.
They share no code and no state with each other.  What makes them hard is
what they share with the world: the file system, the descriptor table of the
process, child processes, other threads and other processes that have the same
library loaded.  None of them takes a lock, and every wrapper is a sequence of
system calls that can fail or be overtaken at each step.

This directory holds TLA+ models of the five libraries whose calls are long
sequences of system calls and of eleven small ones, on their own and loaded on top of
each other, the TLC runs that check them on small instances, and proofs checked by
TLAPS.

## 1. Inventory

| Component | State | Operations | Interacts with |
|---|---|---|---|
| `recyclix.so` | `RECYCLER`; locals of `unlinkat`; the bins and the file tree | `unlink`, `unlinkat`, `recyclix_clonepath_recursive` | the file tree, other processes that delete, the user's own operations |
| `autossl.so` | `AUTOSSL_*`; descriptor table; `sockpair` | `connect` | the caller's threads, the helper it forks, the wrapper script's environment |
| `autossl`, `autossl-conn` | `AUTOSSL_TLS_PORT_MAP`, arguments | set the environment, choose the TLS program and the port | `autossl.so`, which is preloaded into the helper again |
| `oob-proxy-socket-address-info` | a directory of symbolic links, `msg_name` | `set_`/`unset_proxy_address_info` (proxy), `recvmsg`, `sendmsg` (server) | proxies and servers write the same table |
| `openhelper.so` | `OPENHELPER_*`; descriptor table; temporary files; a child | `open`, `open64`, `fopen`, `fopen64` | the caller's threads, the helper command, the program's own signal handlers |
| `cupsgetpass.so`, `cups_askpass.sh` | two pipes, one child | `getpass` | the askpass program |
| `connredir.so`, `forcebindip.so` | `CONNREDIR_*`, `BIND_ADDRESS`; descriptor table | `connect` | each other: each is the other's next library; a program that retries, closes and reuses descriptors |
| `forcebindiface.so`, `ip_dscp.so`, `uds_chmod.so` | `BIND_INTERFACE`, `SOCKET_IP_DSCP`, `UDS_CHMOD_*` | `socket`, `bind` | each other; processes that rename the socket's path |
| `xdev.so` | `/proc/mounts`, the current directory | `__lxstat64`, `opendir`, `__openat_2`, `nftw64` | mounts made and undone by others, `pathrewrite.so`'s `fopen` |
| `pathrewrite.so` | `PATHREWRITE_*` | `open`, `open64`, `__open_2`, `fopen`, `__xstat`, `__lxstat` | the other libraries, whose `fopen` it is |
| `saveunlinkedinode.so` | the log in `$HOME` | `unlinkat` | other threads and processes that rename, replace, remove |
| `xopenhook.so` | `XOPENHOOK_*`, changed while a command runs | `XOpenDisplay`, `XvListImageFormats` | all threads and all child processes, through the environment |
| `ld_env_restore.so` | `LD_PRELOAD`, `LD_PRELOAD_OLD` and the like | `__libc_start_main` | every program that inherits the environment |
| `dontcallshell.so` | none | `exec*`, `__posix_spawn` | the programs executed |
| `nofail_setfacl.so`, `ignore_read_flock.so`, `cupspwd.so`, `x11wmclass.so`, `tcpmaxrt.so`, `alarmselect.so`, `alarmwrite.so`, `nosleep.so`, `getenv.so`, `lnbuf.so` | none between calls | one check or substitution per call | - |

Hard behaviours, and what makes each component correct:

* **recyclix**: a deletion is up to a few dozen system calls (choose a bin, find
  the mount point, clone the directories of the path into the bin, repair what is in
  their way, rename).  It may fail half-way, and two processes may clone the same
  directories.  *Correct*: success means the name is gone; a failure has left the
  user's files alone; a file goes to the first bin that wants it, at its path below
  the mount point; the bin loses only what is in the way; a malformed `RECYCLER` never
  deletes; every call returns, unless others undo its repairs for ever.
* **autossl**: `fork` copies every descriptor of a threaded client, helpers may start
  helpers, and errors must not send plain text.  *Correct*: a socket is connected to
  the helper made for it, no helper holds another's channel, no failure sends
  out in plain what is listed to be upgraded when an error number is configured, and every
  helper is told of the end of its input when the client has exited.
* **oobpsai**: the table is read and written in single calls by processes that do not
  know of each other, and results are not looked at.  *Correct*: a server never
  takes a peer for another peer's client, finds the peer again, and leaves the
  proxy's entries alone.
* **openhelper**: a child fills a file whose descriptor the parent holds, `waitpid`
  may be interrupted or find nothing.  *Correct*: the caller gets the whole output
  of its own helper or an error, never the file itself.
* **cupsgetpass**: two pipes and a child that may not read its input or close its
  output, descriptors closed under their streams on three ways out: everyone may wait
  on everyone.  *Correct*: a password is the first line of what the askpass program has
  written, no descriptor is lost, the call returns.
* **wrappers of sockets**: several are loaded at once, in an order the user chose, and
  the program retries.  Errors are partly ignored, partly reported.  *Correct*: an address
  that is to be replaced is not connected to, `connect` does not report a connection that
  there is not, and what the environment asks of a socket holds of those the program gets.
* **wrappers of paths**: what they find out is another moment's than what the kernel
  does.  *Correct*: no call goes to a network file system, the log tells what was removed,
  but for the exceptions that come from that gap.
* **wrappers of processes**: state is kept in the environment, which threads share and
  children copy.  *Correct*: the hook's command is told its phase and does not hook, the
  environment is what it was, children are loaded with what they should be.

`PROJECT.json` lists every component with its status and every hazard at its line.

## 2. Modules

| Module | Models | Notes |
|---|---|---|
| `FileTree` | the kernel's side of `recyclix.c`: path resolution and the outcome of `stat`, `mkdir`, `unlink`, `rmdir`, `rename` | external; pure operators |
| `Recyclers` | the `RECYCLER` variable and how its options are read, and what they are documented to mean | pure operators; the two readings are compared by `KeepsPromise` |
| `Recyclix` | `unlink`/`unlinkat` and the clone, one action per system call; the user | composes the two above |
| `RecycleBin` | the abstract specification: what the user is promised, without system calls | refined by `Recyclix` |
| `Autossl` | `connect` in the client and in the helpers, the forked child, `autossl-conn`, the wrapper's environment | |
| `OpenHelper` | the four wrappers, the child, the helper command | |
| `Oobpsai` | the proxy's and the server's functions on the table | |
| `CupsGetpass` | `getpass`, its child and the askpass program, with the ends that every fork copies | |
| `SocketCalls` | `connredir.c`, `forcebindip.c`, `forcebindiface.c`, `ip_dscp.c`, `uds_chmod.c` in any order of `LD_PRELOAD` | |
| `FileCalls` | `xdev.c`, `pathrewrite.c`, `saveunlinkedinode.c`, the file system and the mounts, other processes | |
| `ProcessCalls` | `xopenhook.c`, `ld_env_restore.c`, `dontcallshell.c`, the tree of processes and their environments | |
| `Wrappers` | a program with the libraries of the last three modules | composes them |
| `MC*` | instances for TLC | only give values to constants |
| `RecyclixProofs`, `OobpsaiProofs`, `AutosslProofs`, `OpenHelperProofs`, `CupsGetpassProofs` | theorems about the module of that name | |
| `SocketCallsProofs`, `WrappersProofs` | theorems about `Wrappers`: the socket calls, then the others | |
| `LeastProofs` | the least and the greatest of a set of numbers, which the other proof modules cite | |

Definitions whose comment starts with "Slip:" are what a plausible mistake would make
of the definition after them.  They are no part of a specification; each run's
properties are shown to notice them.

### How the code is read

**Recyclix.**  `pc[p]` names the next system call of process `p`, `call[p]` is the
record of the local variables of its `unlinkat` (`st1`, `recycler_inode`, `fqpath`,
the length of `mp_path`), with the stack of `donor_st.st_mode` for the recursive
`recyclix_clonepath_recursive`.  `Fstatat`, `BadOption`/`TakeBin`/`SkipBin` (one turn of
the loop over `RECYCLER`), `AtDirFails`, `RealpathFails`, `Resolve`, `WalkUp` (one turn
of the loop over parents), `DonorStat`, `Mkdir`, `RmParent`, `StatDst`, `ChmodDst`, `RmDst`,
`Rename`, `RealUnlink` follow the source from top to bottom.  `retval` is modelled where
it matters: the early `break` after `realpath` returns what the last call left in it.
A path is a sequence of names; an exclude pattern is the set of arguments it matches;
sizes go through `Atoi` with its width.  Abstracted: device and inode number are
functions of the path; chown, the fixed buffers and messages are left out; permission is one
bit, the owner's write permission, which the umask of a `mkdir` may take away (`Umasks`); a name given by descriptor is resolved to the path
the descriptor was opened at.

**Autossl.**  A task is a thread of the client or a helper.  `fds` is the descriptor
table of each process, so that what `fork` copies, `dup2` overwrites and `closefrom`
closes is explicit, and end of file on a pair is a fact about all tables
(`OnlyMakerHolds`).  `HelperEnds` is the end of a program that `autossl-conn` has executed; nothing
makes it happen.  `Decision`
is everything `connect` does before its first system call, with the scan of the two lists
and the 16 bits of `in_port_t`.  The helper's own `connect` is the same action as the
client's, for the library is preloaded there too.

**OpenHelper.**  The same treatment of descriptors.  A temporary file is its number
of lines and the offset of the program's descriptor; the helper's is another open file
description (`Again`), as it opens `/dev/fd/N`.  A `waitpid` that fails has
its helper gone (`WaitFails`, `ECHILD`) or is interrupted (`WaitInterrupted`, `EINTR`).

**Oobpsai.**  `table` maps a name (an address) to the target of its link.  One action
per system call: `SetUnlink`, `SetSymlink` (for proxies and servers), `Lookup` is
`readlink`.  A target of another family changes the port only (`Half`), as
`update_socket_addr` does.  `RecvFails` is a `recvmsg` that returned -1,
`SetUnlinkFails` and `SetSymlinkFails` are calls that fail though nothing is wrong with the name
(`Faults`).  `peer`, `given`, `failed` and `broken` (the names that a symlink failed for) are history variables for the properties.

**CupsGetpass.**  Call `n` has askpass process `n` and two pipes; `held` says which ends each
process has open, so that end of file, `EPIPE` and a blocked writer are facts about all
processes, and two calls at once show what a fork of one does to the other.  A failed
`pipe` leaves two uninitialised numbers, and the code goes on: they are no descriptor, or
one the program has open (`Garbage`).  A character is ordinary, a newline, or one of the
program's own unwritten output, which a failed `execvp` followed by `exit` writes into the
pipe.  The askpass program reads nothing, a line or everything, writes up to `says`
characters, and ends in any way.  `Reap` is a handler of `SIGCHLD` in the program.

**SocketCalls.**  `job[t]` is the call a thread is in, with the set of the libraries that are
still to act, which `LD_PRELOAD` orders: a library whose work follows the real call (`socket`, `bind`) acts from the last of
`LD_PRELOAD` to the first, one whose work precedes it (`connect`) from the first to the
last.  A socket records how it was bound, configured and connected.  The program does
not close a descriptor that another of its threads is calling with.  `Matches`, `Breaks`
and `NewDest` are the three things that connredir's `connect` decides; `ConnRedir` has a
disjunct for each way out of it.  A `bind` that fails leaves
the path to whoever has it (`BindFails`).  `TakesName` is another process that puts a file at the
socket's path.

**FileCalls.**  A path is a sequence of tokens, so that `strncmp` with a mount point and
`strstr` with `PATHREWRITE_FROM` also match across components ("/n" begins "/n2").  `at`
says where each directory is, so that renaming one changes the path of all below it; no two
directories are at one place, and places are absolute.  A program that exits ends the calls
of all its threads.
The program's calls go through the system calls of the source one by one; what the others
do meanwhile marks a call in progress (`stale`), which is how the properties name the
windows.  `Opens` is the `fopen` of the other two, which `pathrewrite.so` rewrites.

**ProcessCalls.**  Each process has an environment, which its threads share and its
children copy; `getenv`, `setenv`, `unsetenv` and `system` are an action each, and each is
atomic.  `libs` is what was loaded when the program was executed.  `born`, `alone`
and the phase of an `image` are history for the properties.

**Wrappers.**  Its next-state relation interleaves the three families; they share nothing
but the process, so `Init` lets one family at a time make calls.

## 3. Runs

| Run | Question | Instance |
|---|---|---|
| `recyclix_seq` | one process against the user: `TypeOK`, `SuccessRemoves`, `LiveTreeFrame`, `BinLossOnlyInTheWay`, `CloneHasDonorMode`, `KeepsPromise` | one bin on `/h`; 11 paths, 3 files; calls on files and directories, inside the bin too; two umasks; the user creates, replaces, makes directories, changes modes, empties the bin (365,635 states) |
| `recyclix_bins` | many `RECYCLER` values: `MalformedEntryCancels`, `WalkFindsMount`, `KeepsPromise` | three file systems, five bins, nine values (unset, empty, limits at their edge, several options, patterns, malformed, insane, nested, relative, missing), links, calls relative to the working directory and to a descriptor, `getcwd`, `readlink` and `realpath` failing (133,003 states) |
| `recyclix_conc` | two processes, interleaved between any two system calls: `LiveTreeFrame`, `KeepsPromise`, `Terminates` | a file of a directory and one of the directory below it, which both need the same clone, and a file in the bin that is in the way of it; the user puts another one there while the calls go on (40,038 states) |
| `recyclix_realpath`, `recyclix_symlink` | one finding each (violations) | as `recyclix_seq`, with one more thing the user does or one more call that fails |
| `autossl` | `TypeOK`, `NoDowngrade`, `HelpersAreTold` | one thread, five destinations, ten environments (among them the wrapper's, unparsable words, a port beyond 16 bits, a helper whose own port is listed), every call failing at will, two pairs (189,583 states) |
| `autossl_threads` | `HelperIsIsolated`, `RedirectedToOwnHelper`, `SocketKept` | two threads, symmetric, one destination, `fork` and `dup2` failing |
| `openhelper` | `TypeOK`, `ResultComplete`, `WritesOwnFile`, `NeverPlain`, `OpenFilesAccounted`, `CallsReturn` | two threads, two helpers, three free descriptors, all four settings of the variables, all faults (239,908 states) |
| `oobpsai` | `TypeOK`, `SeenBelongsToPeer`, `RoundTrip`, `LostToStaleLookupOnly` | one proxy, two servers, two peers, one of them with a client; `unlink` and `symlink` failing (807,353 states) |
| `cupsgetpass` | `TypeOK`, `PasswordIsAnswer`, `EndsAccounted`, `CallsReturn` | one thread that asks twice with every system call failing, two threads that ask at once; askpass programs that read nothing, a line or everything and write too much for the pipe; a password in the environment that is short or too long; pipes of one character |
| `wrappers` | `TypeOK`; of sockets `Redirected`, `AsConfigured`; of files `NetworkRefused`, `LogTellsRemoved`; of processes `CommandIsTold`, `EnvironmentIsBack`, `LibrariesInherited` | two threads, three descriptors, two sockets, three destinations, 24 environments of sockets; two directories, two names, three inodes, ten programs of files with mounts, renames and replacements; two threads and three processes, 20 environments with three commands and three values of the old `LD_PRELOAD` (722,025 states) |
| `oobpsai_family` | one finding (violation) | the client comes by IPv6, the peer is IPv4 |

**Bounds, and why they are enough.**  The universe of `recyclix_seq` has every relation
two names can have to one bin: the same place, one a parent of the other, at the
mount point, inside the bin; three files are the deleted one, the one in its place and
a bystander.  The recursion of the clone reaches depth two, where every repair (`ENOENT`,
`ENOTDIR`, `EEXIST` with a file, a directory and nothing) happens.  `Kilo` is 4 in
`recyclix_bins`, so that `1k` is the size of the larger file; `IntWidth` is 8 there and
no number reaches it.  Two threads or processes are what the races need.  `MaxPairs`,
`MaxCalls` (the system's room for processes) and `MaxFd` are small enough that the runs
hit them, so exhaustion is covered; they bound only how many calls a behaviour has.
In `recyclix_conc` the file in the way is at the parent of both clones, so that `RmParent`, `RmDst` and
the `goto try_mkdir` behind each are taken, also again after the user has put the file back.
`autossl_threads` has one destination, so that there a socket can be at the wrong helper but a helper
not at a wrong address; `RedirectedRight` (§5) has any number of them.
The model values of addresses and ports are compared, never computed with, except for
the ports' 16 bits, which are real.

For `cupsgetpass`, a pipe of one character is full at the answer's first, and one thread that asks twice meets the descriptors that the first call left.
For `wrappers`, two sockets and three descriptors with one given let a number be closed and
reused; two names, of which one is a link and begins like a mount point, and one rename,
mount or replacement in each program reach each window; three processes are a program, a
command and the command's command.  `MaxOpens` is two hooked calls of a process: a
second one sees what the first has left.

What the properties except is part of what they say, and each exception happens in the
run.  `CallsReturn` of `cupsgetpass` excepts askpass programs of two threads that wait for
each other (`Crossed`), which have inherited each other's pipes; `Redirected` port numbers
beyond 65535 (§4), a program
that closed `CONNREDIR_TO_FD` and a program that asked for the very address it is sent to,
and the errors that without `CONNREDIR_ERRNO` fall back to the original destination, as the text
at the top of the source says; `AsConfigured` a `bind` or `chmod` that failed, and a socket that
has taken the number of `CONNREDIR_TO_FD`; `NetworkRefused` and `LogTellsRemoved` calls overtaken by another
process, links, directories, and paths relative to another directory; `RoundTrip` a name whose `symlink`
failed and one that a failed `recvmsg` has written; `CommandIsTold` commands that were started while another thread was in the hook.

**Deadlock** is not checked: in all the systems the callers may stop calling, and the
fresh files of `Recyclix` and the helper numbers of the others are used up.

**Fairness.**  `Recyclix`: weak fairness on each process's `Step` - a call in
progress goes on, it never waits for anything but the kernel.  Nobody has to begin a
call and the user has to do nothing.  `Terminates` says that each call returns unless others change
the tree under it for ever.  The exception is needed: a process that deletes the clone's
directory from under the bin as often as the other makes it keeps that one in the `try_mkdir` loop.
Each interference by itself, and any finite number of them, the call gets over.
`Autossl`: weak fairness on the library's system calls and on a helper until its program has
connected.  Nothing is assumed of what comes then: `nc` does not end at the end of its input, nor
does `s_client` with the `-quiet` of the wrapper, so `HelpersAreTold` speaks of the end of
the input and not of the helper's.  `OpenHelper`: weak fairness on the library's system calls,
`waitpid` among them once its helper is no more, and on the child until it runs its command.  No signal
has to come and no command has to end; `CallsReturn` excepts a call whose command runs for
ever.  `CupsGetpass`: weak fairness
on the library's system calls and on the askpass program's steps but writing, so it ends
unless it is waiting for a pipe; nobody has to ask for a password, and no signal has to
come.  `Oobpsai` and `Wrappers` have safety properties only.

## 4. What the runs found

Each of these is a run with `expect: violation`, and a finding in `PROJECT.json` that
quotes the repository's own words:

* `recyclix_realpath`: `realpath` of the parent fails, the loop is left by `break`,
  `unlink` returns 0 (or a positive number) and the file is still there.
* `recyclix_symlink`: a recycled symbolic link to a directory lies where a directory is
  to be cloned; `stat` follows it, so does `renameat`, and the next file deleted goes out
  of the bin over a file of the user.
* `oobpsai_family`: half of an address is changed when the client's family is not the
  peer's; the server sees an address that can be another peer's.

One more disagreement is not a run of its own.  The header of `connredir.c` (lines 26-29) counts an
"invalid port number" among the error cases, which fall back to the original destination or, with
`CONNREDIR_ERRNO`, fail.  The code has no such case: lines 99 and 122 assign `atoi` to 16 bits, so that
65616 is port 80, and 65536 and a word that is no number are as good as none.  `Port` is what the
code does; `Redirected` is claimed for valid numbers only (`PortsAreValid`), and says nothing of the
others, which the run has, too.

Seen while modelling and recorded as hazards with a note: the walk up compares inode
numbers before devices, so that a directory beyond the mount point can pass for the bin
and the file is deleted for good (give the outer root the bin's number in `MCIno`: `KeepsPromise`
is violated); a directory that was recycled where a file is to go lets that file be neither
saved nor deleted until the bin is emptied; a file linked back from
the bin is not deleted although `unlink` returns 0; the entry of a peer is gone when the
`symlink` that was to replace it fails, and the server does not find the peer again; an autossl helper of a client
that runs without standard output and error keeps its own channel open;
openhelper loses a descriptor on each failure after `fork`, and fails when
standard input is closed; `sendmsg` translates the address after sending; a server's
stale lookup overwrites the proxy's entry; askpass programs of two threads that wait for
each other; a socket that `forcebindiface.so` could not bind stays open; `connredir.so` reports
a connection when the number in `CONNREDIR_TO_FD` has become another socket's, and `dup2`s that
socket, which no library has bound, over the program's; `xdev.so`
takes "/n2" to be below "/n", and looks up the path of `openat` from the current directory;
the log of `saveunlinkedinode.so` has the inode of a link's target; two threads in the hook of
`xopenhook.so` tell a command the wrong phase and let it run the hook in its turn.

## 5. Proofs

Checked by TLAPS for every value of the constants that meets the named assumptions:
`FileTreeAssumption`, `RecyclersAssumption`, `RecyclixAssumption`, `OobpsaiAssumption`,
`OpenHelperAssumption`, `AutosslAssumption`, `CupsGetpassAssumption`, `SocketCallsAssumption`,
`FileCallsAssumption` and `ProcessCallsAssumption`.  They say of which types the constants are, that
threads, helpers and the like are not each other, and that tables have room for the standard
descriptors (`MaxFd`).  `0 \in Ports` of `Autossl` is an assumption only because the provers know
nothing of powers.  TLC evaluates all of them.  Where a theorem needs more, its
`ASSUME` says it; every such hypothesis is met by an instance that a run checks.

**Recyclix** (`RecyclixProofs`)

* `TypeCorrect`: `Spec => []TypeOK`.  `TypeOK` is inductive: besides the
  types it says that a call in the loop has an entry of `RECYCLER`, and that a
  system call of the clone has an active `recyclix_clonepath_recursive`.  The lemmas
  type the operators of `FileTree`, then `ProcessType`, `ReturnType` and `GotoType` reduce
  each step to the record of the process that makes it; `StepType` has one case per
  action.
* `ChoiceJustified` and `MalformedCancels`: `Spec => []MalformedEntryCancels`.  The property
  speaks of the moment before something is moved or removed, so it is not inductive:
  `ChoiceInv` adds what a call has found out at each place - the entries it has passed are
  well formed, the one it took admits the file - and that the clone keeps the file, the
  argument and the entry it began with.
* `WalkIsRight`: `Spec => []WalkFindsMount` if no file system is mounted below a
  directory of itself (`OneMount`; a bind mount could be, and then the walk stops before it
  passes the bin), and there are no symbolic links (`NoLinks`), or one process and a user who
  waits for it (`Alone`).  `WalkInv` says what a call knows at each place: the
  device of the file (`FileSeen`), that the bin is on it (`BinSeen`), and of every directory it has
  passed on its way up that it is on the device and is not the bin (`Walked`).  That is
  about paths as `realpath` has given them, so it needs `CanonOfAppend` (`lstat` of a path finds
  the last name in the directory that `realpath` of its parent finds, however many links are
  followed) and that the tree stays as seen (`SameView`), which is what the second hypothesis is for.
* The four action properties, all of the tree without links (`NoLinks`).  Without links `realpath`
  is the identity (`UnlinkedCanon`), the file is where the call says it is and on the bin's file
  system (`WayInv`), and a step does to the tree one of five things (`StepFlat`): nothing, make a
  directory or change its mode, clear the way of one, rename, or delete.
  * `BinLossIsOnTheWay`: `Spec => BinLossOnlyInTheWay`, for any number of processes and a user who
    acts at any time, if `OneMount` holds and nothing that is deleted from one bin is on the
    file system of another (`BinsApart`; it could go from bin to bin and overwrite what is there).
  * `OutsideTheBins`: `Spec => LiveTreeFrame`, for as many, if `OneMount` holds and nobody deletes
    a mount point (`MountsKept`), a bin or a directory above one, and no bin is in another
    (`BinsKept`).  `DeepInv` is what keeps the recursion inside the bin: it never gets deeper
    than the path below the bin is long (`Deep`), because the directory that the bin is in is
    still there (`BinStays`), so that making the bin itself never fails for want of a parent.
  * `SuccessIsRemoval`: `Spec => SuccessRemoves` with `Alone`, `OneMount`, `MountsKept`, no
    hard links (`NoHardLinks`: `rename` of one name of a file onto another does nothing and
    says that it worked; §4) and no failing `realpath` (the finding of `recyclix_realpath`).
    `ThereInv` says that the directory of the file is there until `realpath` is asked for it, `Named`
    that no two names are of one file.
  * `CloneIsFaithful`: `Spec => CloneHasDonorMode` with `Alone`, `OneMount`, `MountsKept` and
    `BinsKept`.  `ModeInv`: the first mode a call has noted is still that of the donor, for all it
    changes meanwhile is in the bin, and the donor is not (`DonorOutside`).  A directory that the call has just made has that mode less
    what a umask takes away, one that was there has it in full.

* `OptionsAdmit`: what `Options` reads with a fold, option by option as the code does, admits a file
  exactly when the documented meaning does (`Admits`: the last option of each type counts), for
  every list of options whose numbers fit in an `int` (`NumbersFit`; `atoi` wraps the others) and of
  which none is bad.  A fold is recursion over a set; `OptionTurnsAre` shows that it exists and turns
  as it should, by the least number of options for which it would not.
* `PromiseIsKept`: `Spec => KeepsPromise`, the refinement of `RecycleBin`, with the hypotheses of
  `CloneIsFaithful`, `NumbersFit`, and three about `RECYCLER` and the tree: its directories are named by
  absolute paths (`BinsAbsolute`; the library resolves a relative one for its checks and then refuses
  to rename there), no other directory above what is deleted has the inode number of a bin
  (`BinsNumbered`; `recyclix.c` compares only `st_ino`, §4), and no file is in the place of a
  bin or is put on the way to one (`BinsClear`; a clone would delete it, though it is in no bin).
  * The refinement mapping: a bin stands when `stat` finds it (`StandingIn`), the names of a file are
    the paths it lies at (`NamesIn`).  A step that leaves these alone stutters, what makes or removes
    a directory is `BinDirChanges`, the unlink of the clone is `MakeRoom`, `renameat` is `Recycle`, the
    caller's own unlink `Delete`; what the user does is `Bind` or `Empty` (`StepPromise`, `UserPromise`).
  * `KeepInv` is the invariant: those of the theorems above, every file there is was born (`BornInv`), no
    file is in the place of a bin (`BinsInv`), and `ChosenInv`: the file is the one that `stat` has
    seen, no entry the call has passed wants it (`Passed`), the entry at hand does and goes on to
    stand, and a file that is about to be removed for good is wanted by no entry or lies
    below the first that wants it.  The promise is made of the moment of the `renameat` or
    `unlinkat`, when all of that was found out steps before.

  The instance of `recyclix_seq` meets all these hypotheses, that of `recyclix_conc` those of
  `BinLossIsOnTheWay` and `OutsideTheBins`.

**Oobpsai** (`OobpsaiProofs`)

* `TypeCorrect`: names are closed under half-changed addresses (`HalvesClosed`).
* `SeenCorrect`: `Spec => []SeenBelongsToPeer` if a peer's clients are its
  own (`DisjointGroups`) and of its family (`SameFamily`); the run `oobpsai_family` shows
  that the second is needed.  The argument: a peer and its clients form a group;
  `GroupInv` says that an entry of the table, a message and the address saved for it
  never leave the group, whatever is interleaved and whatever fails.
* `LostCorrect`: `Spec => LostToStaleLookupOnly` under the same two
  assumptions.  `LostInv` adds to `GroupInv` that the address a busy server has saved is a
  peer's unless a `recvmsg` has failed on it, and that a proxy which is writing an
  entry is the only one to write it and has given up what it wrote before;
  `EntryStep` then leaves `SetUnlink` of a server as the one step that can take it.
* `RoundTripCorrect`: `Spec => []RoundTrip` under the same two assumptions.  `RoundInv` adds
  to `LostInv` that every entry of a client leads back to its peer, and so does the address
  that a server has saved (`EntriesReturn`, `SavedReturns`).  An `unlink` or a
  `symlink` that fails leaves an entry as it was or none, which the exception for `broken` names covers
  (`BreakingStep`).

**OpenHelper** (`OpenHelperProofs`)

* `TypesCorrect`, `FileIsComplete` (`ResultComplete`), `CommandWritesOwnFile` (`WritesOwnFile`),
  `HelperIsNotBypassed` (`NeverPlain`) and `FilesAccounted` (`OpenFilesAccounted`), from one
  inductive invariant: no two threads have one call (`CallsApart`), the descriptor a
  thread is about to return is its own temporary file (`ProgramFiles`), a helper that
  runs belongs to a call that has begun and has not been waited for (`HelpersLive`), its
  standard output is that call's file (`HelperFiles`), and a refused call is not going to
  open the file itself (`Refused`).  A temporary file is complete because the thread
  that returns it has seen the helper's end; others inherit a descriptor of it that is open for
  writing, but every command prints to its own file (`HelperFiles`).

**Autossl** (`AutosslProofs`)

* `TypesCorrect`, `RedirectedRight` (`RedirectedToOwnHelper`), `SocketIsKept` (`SocketKept`),
  `NeverDowngraded` (`NoDowngrade`) and `HelperHasOwnFiles` (`HelperIsIsolated`), from one inductive
  invariant: a pair of sockets is made by one task and has one helper (`PairsApart`,
  `ForkedOnce`), the caller's socket stays at its number until `dup2` puts the
  pair's end there (`InPlace`), what a helper has open from before its `fork` is closed by
  `closefrom` or overwritten (`Isolated`), a helper connects to what its client asked
  for (`SameAddress`), and what the library sends out in plain is not listed (`PlainUnlisted`) - or is no longer: for
  a port without a map entry `autossl-conn` takes the list away and runs `nc`, on purpose.
* `HelperHasOwnFiles` assumes that the client has a standard error (`2 \in Stdio`): `closefrom(3)`
  leaves descriptor 2, which without it may be the helper's own channel (a hazard of §4; TLC finds it
  with `Stdio = {0, 1}`).

**CupsGetpass** (`CupsGetpassProofs`)

* `TypesCorrect`, `AnswerIsReturned` (`PasswordIsAnswer`) and `EndsAreClosed` (`EndsAccounted`), from
  one inductive invariant: for each thread, by its place in the call, which ends of its
  two pipes it still has (`EndsLeft`), that they are the pipes of its call (`PipesInPlace`),
  and that what it has read is a beginning of what the askpass program has written (`Answers`); for
  each askpass program, that one which may still write has the writing end (`HelperOk`).  Once
  `fgets` has a line, what is written later changes nothing, which is what lets the password
  be compared with the whole output at the end.

**Wrappers** (`SocketCallsProofs`, `WrappersProofs`)

* `SocketsTypeCorrect`, `RedirectedCorrect` (`Redirected`) and `ConfiguredCorrect`
  (`AsConfigured`), for any number of threads and any order of `LD_PRELOAD`, from `SocketInv`: no
  two threads call with one descriptor and no open descriptor is given out
  again (`Tables`), what the libraries that have acted on a call leave for those still to
  act (`JobOk`), what a connected socket is connected to (`PeerOk`), and what is bound of the
  descriptors that the program was told (`ToldOk`).  A `bind` that fails changes none of it.
* `NetworkIsRefused` (`NetworkRefused`) and `LogIsTrue` (`LogTellsRemoved`), from `FileInv`: no two
  directories are at one place and a removed one is empty (`Placed`); what each call has
  found out is still so unless it has been overtaken (`WorkOk`).  The mount
  point of a path is the last in the table that it begins with, and there is such a last one by
  `GreatestNatural`.
* `HookPutsBack`: `Spec => []EnvironmentIsBack`, for any number of processes and
  of threads in the hook at once.  The invariant speaks of the time in between: what differs
  from the environment that the process began with is due to be put back by a thread on its
  way to do it, and the value it will put back is the one the process began with (`PutBack`).
* `CommandsAreTold`: `Spec => []CommandIsTold`.  A thread that is alone in the
  hook finds there what it has set (`HookAlone`), the process that it starts gets a copy with
  the hook turned off, and so starts none (`ToldAlone`).  That a process which is not there
  yet has no thread in the hook comes from `PutBack`.
* `CommandsInherit`: `Spec => []LibrariesInherited`.  `InheritInv` says what
  `LD_PRELOAD` and `LD_PRELOAD_OLD` are at each place in the tree of processes: the first
  program's until it has restored them, afterwards exactly the old value; where that names
  `ld_env_restore.so` itself, the first shell is loaded with it and restores once more, and
  everything behind that shell with nothing.
* `WrappersTyped`: `Spec => []TypeOK`, with `BegunInv`: a process that is not there has nothing
  loaded, and a thread that waits for a command waits for a child of its own process.

**Least and greatest** (`LeastProofs`): a set of numbers that is not empty has a least element
(`MinIsLeast`), one that has a bound a greatest (`MaxIsGreatest`), by the library's theorem that
the order of the numbers is well founded.  These are lemmas and say nothing of the system by themselves.  The lowest free descriptor, the first link on a path and the
mount point rest on them.

**Only model-checked.**  Every safety invariant, action property and refinement that a run checks is
proved, under the hypotheses named above.  What stays with TLC is liveness (`Terminates`,
`HelpersAreTold`, `CallsReturn`), out of the prover's reach, and each property where its
theorem does not reach: `KeepsPromise` with links, deleted mount points and bins that are relative or
in one another (`recyclix_bins`), and with two processes (`recyclix_conc`).  Induction over data is not available,
for the library's theorems about it take an operator as parameter; `TurnsAre`, `CanonOfAppend` and
`OptionTurnsAre` do with a least counterexample (`LeastNatural`) instead.

## 6. Not modelled

The libraries of the last line of the inventory.  `cupspwd.so` (it calls `stren`), `tcpmaxrt.so`
(it names `TCP_`) and `alarmselect.so` (its time to wait is a pointer to address 3) do not work
at all.  `nofail_setfacl.so`, `ignore_read_flock.so`, `x11wmclass.so`, `nosleep.so`, `getenv.so` and
`lnbuf.so` are one comparison or substitution each, and a test sees all of it.
`alarmwrite.so` shares the process's one timer between threads and is left for later.

Of the modelled libraries: messages, buffer sizes, `AUTOSSL_SILENT`, the rewriting of `https:`
arguments by the `autossl` script, the TLS programs, the mode and flags of `open`, stdio buffers
(but for what a failed `execvp` writes in `cupsgetpass.so`), signals other than what they do
to `waitpid` and `fgets`; `nftw64` of `xdev.so`, which only replaces a callback;
`__posix_spawn` and bash's names in `dontcallshell.so`; `LD_LIBRARY_PATH`, which
`ld_env_restore.so` treats as it does `LD_PRELOAD`; the data race of `getenv` and `setenv` in
glibc.

## 7. Plan

1. `PromiseIsKept` with links, for the one process of `Alone`: `StepFlat` and `StandingStays` speak of
   a tree without links, and a bin that is reached through one must be shown to stand as long
   as the link does.  With more processes what a call has seen of a file need not be so when it
   acts, and the promise would have to speak of what it saw.
2. An instance of `Recyclix` for the width of `atoi`, and one in which the user acts during calls
   whose path has links; `autossl_threads` with a second destination, as far as its states allow;
   `OpenHelper` and `Autossl` with incomplete standard descriptors; `alarmwrite.so`.
