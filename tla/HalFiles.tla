------------------------------ MODULE HalFiles ------------------------------
(***************************************************************************)
(* The file descriptors of the HAL: open, close, ioctl (TIOCEXCL and       *)
(* TIOCNXCL), fcntl, and the redirection of the standard ones at start-up. *)
(* There is one thread, so a call is one action.                           *)
(***************************************************************************)
EXTENDS Integers

CONSTANTS
  ALT_MAX_FD,    \* 32
  Devices,       \* registered in alt_dev_list
  FileSystems,   \* registered in alt_fs_list
  Null,          \* the device /dev/null
  Stdio,         \* the device of ALT_STDOUT, ALT_STDIN and ALT_STDERR
  NoDev          \* the null pointer
ASSUME FilesAssumption ==
  /\ ALT_MAX_FD \in Nat /\ ALT_MAX_FD > 3
  /\ Null \in Devices /\ Stdio \in Devices \ {Null}
  /\ NoDev \notin Devices \cup FileSystems /\ Devices \cap FileSystems = {}

VARIABLES
  alt_fd_list,   \* the pool of descriptors
  alt_max_fd,    \* the highest ever allocated
  redirected,    \* how many of the standard ones alt_io_redirect has done
  held           \* history: what open has returned and close has not taken
fileVars == <<alt_fd_list, alt_max_fd, redirected, held>>

Fds == 0 .. ALT_MAX_FD - 1
Std == 0 .. 2
Access == {"O_RDONLY", "O_WRONLY"}
\* The flags that fcntl may change.
FcntlFlags == {"O_NONBLOCK"}

Entry(dev, access, flags) ==
  [dev |-> dev, access |-> access, flags |-> flags, isdev |-> dev \in Devices,
   excl |-> FALSE]
\* An entry of zeros; O_RDONLY is 0.
Zero(dev) == [dev |-> dev, access |-> "O_RDONLY", flags |-> {}, isdev |-> FALSE,
              excl |-> FALSE]

FilesInit ==
  /\ alt_fd_list = [fd \in Fds |-> Zero(IF fd \in Std THEN Null ELSE NoDev)]
  /\ alt_max_fd = -1
  /\ redirected = 0
  /\ held = {}

\* alt_get_fd: the first free descriptor, none if all are in use.
Free == {fd \in Fds : alt_fd_list[fd].dev = NoDev}
FirstFree == {fd \in Free : \A other \in Free : fd <= other}
Marked(fd) == IF fd > alt_max_fd THEN fd ELSE alt_max_fd

\* alt_release_fd: the standard ones are never released.
\* (Mutants: every one is; only its flags are reset.)
ReleasedAll(fd) == [alt_fd_list EXCEPT ![fd] = Zero(NoDev)]
ReleasedHalf(fd) == [alt_fd_list EXCEPT ![fd].flags = {}, ![fd].excl = FALSE]
Released(fd) == IF fd \in Std THEN alt_fd_list ELSE [alt_fd_list EXCEPT ![fd] = Zero(NoDev)]

\* alt_file_locked: another descriptor up to the mark has locked the device.
\* (Mutant: the last one is forgotten.)
LockedByOtherShort(dev, fd) ==
  \E i \in Fds : /\ i < Marked(fd) /\ i # fd
                 /\ alt_fd_list[i].dev = dev /\ alt_fd_list[i].excl
LockedByOther(dev, fd) ==
  \E i \in Fds : /\ i <= Marked(fd) /\ i # fd
                 /\ alt_fd_list[i].dev = dev /\ alt_fd_list[i].excl
-----------------------------------------------------------------------------
\* alt_open_fd, for stdout, stdin and stderr in turn: the device is opened, its
\* entry moved to the standard descriptor, and the new one released.  If it can
\* not be opened the descriptor stays what it is.
Redirect ==
  /\ redirected < 3
  /\ redirected' = redirected + 1
  /\ LET fd == <<1, 0, 2>>[redirected + 1]
         access == IF fd = 0 THEN "O_RDONLY" ELSE "O_WRONLY"
     IN  \/ /\ \E new \in FirstFree : alt_max_fd' = Marked(new)
            /\ alt_fd_list' = [alt_fd_list EXCEPT ![fd] = Entry(Stdio, access, {})]
         \/ UNCHANGED <<alt_fd_list, alt_max_fd>>
  /\ UNCHANGED held

\* open of a device or a file: a descriptor is allocated first, and given back
\* if the device is locked or its own open fails.
OpenGranted(dev, access, flags) ==
  \E fd \in FirstFree :
    /\ dev \in FileSystems \/ ~LockedByOther(dev, fd)
    /\ alt_max_fd' = Marked(fd)
    /\ alt_fd_list' = [alt_fd_list EXCEPT ![fd] = Entry(dev, access, flags)]
    /\ held' = held \cup {fd}

OpenDenied(dev) ==
  \E fd \in FirstFree :
    /\ dev \in FileSystems \/ LockedByOther(dev, fd)
    /\ alt_max_fd' = Marked(fd)
    /\ alt_fd_list' = Released(fd)
    /\ UNCHANGED held

Open ==
  /\ redirected = 3
  /\ \E dev \in Devices \cup FileSystems, access \in Access, flags \in SUBSET FcntlFlags :
       OpenGranted(dev, access, flags) \/ OpenDenied(dev)
  /\ UNCHANGED redirected

\* The calls below are for a descriptor that refers to something.
InUse == {fd \in Fds : redirected = 3 /\ alt_fd_list[fd].dev # NoDev}

\* close releases the descriptor, also when the driver's close fails.
Close ==
  \E fd \in InUse :
    /\ alt_fd_list' = Released(fd)
    /\ held' = held \ {fd}
    /\ UNCHANGED <<alt_max_fd, redirected>>

\* alt_fd_lock looks for others below the mark, and not at the mark.
AloneBelow(fd) ==
  \A i \in Fds : i < alt_max_fd /\ i # fd => alt_fd_list[i].dev # alt_fd_list[fd].dev
Lock ==
  \E fd \in InUse :
    /\ alt_fd_list[fd].isdev /\ AloneBelow(fd)
    /\ alt_fd_list' = [alt_fd_list EXCEPT ![fd].excl = TRUE]
    /\ UNCHANGED <<alt_max_fd, redirected, held>>

Unlock ==
  \E fd \in InUse :
    /\ alt_fd_list[fd].isdev
    /\ alt_fd_list' = [alt_fd_list EXCEPT ![fd].excl = FALSE]
    /\ UNCHANGED <<alt_max_fd, redirected, held>>

\* fcntl (F_SETFL).  (Mutant: it replaces all flags.)
SetFlagsAll ==
  \E fd \in InUse, flags \in SUBSET FcntlFlags :
    /\ alt_fd_list' = [alt_fd_list EXCEPT ![fd] = Entry(@.dev, "O_RDONLY", flags)]
    /\ UNCHANGED <<alt_max_fd, redirected, held>>
SetFlags ==
  \E fd \in InUse, flags \in SUBSET FcntlFlags :
    /\ alt_fd_list' = [alt_fd_list EXCEPT ![fd].flags = flags]
    /\ UNCHANGED <<alt_max_fd, redirected, held>>

FilesNext == Redirect \/ Open \/ Close \/ Lock \/ Unlock \/ SetFlags
FilesSpec == FilesInit /\ [][FilesNext]_fileVars

\* What read and write are let through for; /dev/null has no read.
CanRead(fd) == alt_fd_list[fd].access # "O_WRONLY" /\ alt_fd_list[fd].dev # Null
CanWrite(fd) == alt_fd_list[fd].access # "O_RDONLY"
-----------------------------------------------------------------------------
\* Type correctness.
FilesTypeOK ==
  /\ alt_fd_list \in [Fds -> [dev : Devices \cup FileSystems \cup {NoDev},
                              access : Access, flags : SUBSET FcntlFlags,
                              isdev : BOOLEAN, excl : BOOLEAN]]
  /\ alt_max_fd \in -1 .. ALT_MAX_FD - 1
  /\ redirected \in 0 .. 3
  /\ held \subseteq Fds \ Std

\* No descriptor is lost or given away twice: those in use are the standard ones
\* and those that the program holds, however open and close have failed.
NoLeak == \A fd \in Fds : alt_fd_list[fd].dev # NoDev <=> fd \in Std \cup held

\* While a device is locked nobody joins the descriptors that refer to it.
NoJoin ==
  [][\A fd, other \in Fds :
       /\ alt_fd_list[fd].excl /\ alt_fd_list'[fd].excl /\ other # fd
       /\ alt_fd_list'[other].dev = alt_fd_list'[fd].dev
       => alt_fd_list[other].dev = alt_fd_list'[other].dev]_fileVars

\* A lock is lost only by closing its descriptor or unlocking it.
LockKept ==
  [][\A fd \in Fds :
       alt_fd_list[fd].excl /\ ~alt_fd_list'[fd].excl
         => Unlock \/ alt_fd_list'[fd].dev = NoDev]_fileVars

\* What printf and fgets rely on: once redirected, the standard descriptors
\* let them through whatever the program opens, closes, locks or sets.
StdioUsable ==
  [][/\ CanRead(0) => CanRead(0)'
     /\ \A fd \in {1, 2} : CanWrite(fd) => CanWrite(fd)']_fileVars
=============================================================================
