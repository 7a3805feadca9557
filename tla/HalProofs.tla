------------------------------ MODULE HalProofs ------------------------------
(* Proofs about the HAL: the file descriptors, for every number of         *)
(* descriptors and every set of devices and file systems; the alarms, for  *)
(* every set of them and every width of the tick counter; and the two side *)
(* by side.                                                                *)
EXTENDS MCHal, TLAPS

(***************************************************************************)
(* The file descriptors.                                                   *)
(***************************************************************************)
\* The standard descriptors always refer to something, and every other one in
\* use is up to the mark, so that a search up to the mark misses none.
HighWater ==
  \A fd \in Fds :
    /\ fd \in Std => alt_fd_list[fd].dev # NoDev
    /\ alt_fd_list[fd].dev # NoDev => fd \in Std \/ fd <= alt_max_fd

\* Only devices are locked, and none before main.
LocksAreDevices ==
  \A fd \in Fds :
    /\ alt_fd_list[fd].isdev => alt_fd_list[fd].dev \in Devices
    /\ alt_fd_list[fd].excl => alt_fd_list[fd].isdev /\ redirected = 3

\* Before main the program holds nothing.
HeldInMain == redirected < 3 => held = {}

IInv == FilesTypeOK /\ NoLeak /\ HighWater /\ LocksAreDevices /\ HeldInMain

LEMMA Constants == /\ Fds \subseteq Nat /\ Std \subseteq Fds
                   /\ NoDev \notin Devices /\ NoDev \notin FileSystems
                   /\ Null \in Devices /\ Stdio \in Devices /\ Null # NoDev
                   /\ Stdio # Null
  BY FilesAssumption DEF Fds, Std

\* A free descriptor is not a standard one, and marking it moves the mark up to
\* it and never down.
LEMMA FreeFd ==
  ASSUME IInv, NEW fd \in FirstFree
  PROVE  /\ fd \in Fds \ Std /\ fd \notin held
         /\ alt_fd_list[fd].dev = NoDev /\ ~alt_fd_list[fd].excl
         /\ Marked(fd) \in -1 .. ALT_MAX_FD - 1
         /\ Marked(fd) >= alt_max_fd /\ Marked(fd) >= fd /\ fd >= 3
<1>1. fd \in Fds /\ alt_fd_list[fd].dev = NoDev
  BY DEF FirstFree, Free
<1>2. fd \notin Std /\ fd \notin held /\ ~alt_fd_list[fd].excl
  BY <1>1, FilesAssumption DEF IInv, NoLeak, LocksAreDevices
<1> QED
  BY <1>1, <1>2, FilesAssumption DEF IInv, FilesTypeOK, Marked, Fds, Std

\* The initial state.
LEMMA InitInv == FilesInit => IInv
  BY Constants, FilesAssumption
  DEF FilesInit, IInv, FilesTypeOK, NoLeak, HighWater, LocksAreDevices, HeldInMain,
      Zero, Fds, Std, Access

\* The entries that the calls make are well-formed.
EntryType == [dev : Devices \cup FileSystems \cup {NoDev}, access : Access,
              flags : SUBSET FcntlFlags, isdev : BOOLEAN, excl : BOOLEAN]

LEMMA EntryTypes ==
  ASSUME NEW dev \in Devices \cup FileSystems, NEW access \in Access,
         NEW flags \in SUBSET FcntlFlags
  PROVE  /\ Entry(dev, access, flags) \in EntryType
         /\ Entry(dev, access, flags).dev = dev
         /\ ~Entry(dev, access, flags).excl
         /\ Entry(dev, access, flags).isdev <=> dev \in Devices
<1> DEFINE entry == Entry(dev, access, flags)
<1>1. /\ entry.dev = dev /\ entry.access = access /\ entry.flags = flags
      /\ entry.isdev = (dev \in Devices) /\ entry.excl = FALSE
  BY Zenon DEF Entry
<1>2. (dev \in Devices) \in BOOLEAN
  OBVIOUS
<1>3. entry \in EntryType
  BY <1>2, Zenon DEF Entry, EntryType
<1> QED
  BY <1>1, <1>3

LEMMA ZeroEntry == /\ Zero(NoDev) \in EntryType /\ Zero(NoDev).dev = NoDev
                   /\ ~Zero(NoDev).excl /\ ~Zero(NoDev).isdev
  BY DEF Zero, EntryType, Access

LEMMA RedirectInv == IInv /\ Redirect => IInv'
<1> SUFFICES ASSUME IInv, Redirect PROVE IInv'
  OBVIOUS
<1>1. redirected' = redirected + 1 /\ redirected < 3 /\ held' = held /\ held = {}
  BY DEF Redirect, IInv, HeldInMain
<1>2. CASE UNCHANGED <<alt_fd_list, alt_max_fd>>
  BY <1>1, <1>2 DEF IInv, FilesTypeOK, NoLeak, HighWater, LocksAreDevices, HeldInMain
<1>3. ASSUME NEW new \in FirstFree, NEW fd \in Std, NEW access \in Access,
             alt_max_fd' = Marked(new),
             alt_fd_list' = [alt_fd_list EXCEPT ![fd] = Entry(Stdio, access, {})]
      PROVE  IInv'
  <2>1. /\ Entry(Stdio, access, {}) \in EntryType /\ Entry(Stdio, access, {}).dev = Stdio
        /\ ~Entry(Stdio, access, {}).excl
    BY EntryTypes, Constants
  <2>2. /\ alt_max_fd' \in -1 .. ALT_MAX_FD - 1 /\ alt_max_fd' >= alt_max_fd
    BY <1>3, FreeFd
  <2>3. fd \in Fds
    BY Constants
  <2>4. FilesTypeOK'
    BY <1>1, <1>3, <2>1, <2>2, <2>3 DEF IInv, FilesTypeOK, EntryType
  <2>5. NoLeak'
    BY <1>1, <1>3, <2>1, <2>3, Constants DEF IInv, NoLeak, FilesTypeOK
  <2>6. HighWater'
    BY <1>3, <2>1, <2>2, <2>3, Constants DEF IInv, HighWater, FilesTypeOK, Fds
  <2>7. LocksAreDevices'
    BY <1>1, <1>3, <2>1, <2>3, Constants DEF IInv, LocksAreDevices, FilesTypeOK
  <2> QED
    BY <1>1, <2>4, <2>5, <2>6, <2>7 DEF IInv, HeldInMain
<1> QED
  <2>1. <<1, 0, 2>>[redirected + 1] \in Std
    BY <1>1 DEF IInv, FilesTypeOK, Std
  <2> QED
    BY <1>2, <1>3, <2>1 DEF Redirect, Access

\* open, granted or not, changes nothing but the first free descriptor.
LEMMA OpenInv == IInv /\ Open => IInv'
<1> SUFFICES ASSUME IInv, Open PROVE IInv'
  OBVIOUS
<1>1. redirected' = redirected /\ redirected = 3
  BY DEF Open
<1>2. ASSUME NEW dev \in Devices \cup FileSystems, NEW access \in Access,
             NEW flags \in SUBSET FcntlFlags, NEW fd \in FirstFree,
             alt_max_fd' = Marked(fd),
             alt_fd_list' = [alt_fd_list EXCEPT ![fd] = Entry(dev, access, flags)],
             held' = held \cup {fd}
      PROVE  IInv'
  <2>1. /\ Entry(dev, access, flags) \in EntryType /\ Entry(dev, access, flags).dev = dev
        /\ ~Entry(dev, access, flags).excl
        /\ Entry(dev, access, flags).isdev <=> dev \in Devices
    BY EntryTypes
  <2>2. /\ fd \in Fds \ Std /\ alt_max_fd' \in -1 .. ALT_MAX_FD - 1
        /\ alt_max_fd' >= alt_max_fd /\ alt_max_fd' >= fd
    BY <1>2, FreeFd
  <2>3. FilesTypeOK'
    BY <1>1, <1>2, <2>1, <2>2 DEF IInv, FilesTypeOK, EntryType
  <2>4. NoLeak'
    BY <1>2, <2>1, <2>2, Constants DEF IInv, NoLeak, FilesTypeOK
  <2>5. HighWater'
    BY <1>2, <2>1, <2>2, Constants DEF IInv, HighWater, FilesTypeOK, Fds
  <2>6. LocksAreDevices'
    BY <1>1, <1>2, <2>1, <2>2 DEF IInv, LocksAreDevices, FilesTypeOK
  <2> QED
    BY <1>1, <2>3, <2>4, <2>5, <2>6 DEF IInv, HeldInMain
<1>3. ASSUME NEW fd \in FirstFree, alt_max_fd' = Marked(fd),
             alt_fd_list' = Released(fd), held' = held
      PROVE  IInv'
  <2>1. Zero(NoDev) \in EntryType /\ Zero(NoDev).dev = NoDev
        /\ ~Zero(NoDev).excl /\ ~Zero(NoDev).isdev
    BY ZeroEntry
  <2>2. /\ fd \in Fds \ Std /\ fd \notin held /\ alt_max_fd' \in -1 .. ALT_MAX_FD - 1
        /\ alt_max_fd' >= alt_max_fd
    BY <1>3, FreeFd
  <2>3. alt_fd_list' = [alt_fd_list EXCEPT ![fd] = Zero(NoDev)]
    BY <1>3, <2>2 DEF Released
  <2>4. FilesTypeOK'
    BY <1>1, <1>3, <2>1, <2>2, <2>3 DEF IInv, FilesTypeOK, EntryType
  <2>5. NoLeak'
    BY <1>3, <2>1, <2>2, <2>3 DEF IInv, NoLeak, FilesTypeOK
  <2>6. HighWater'
    BY <1>3, <2>1, <2>2, <2>3 DEF IInv, HighWater, FilesTypeOK, Fds
  <2>7. LocksAreDevices'
    BY <1>1, <2>1, <2>2, <2>3 DEF IInv, LocksAreDevices, FilesTypeOK
  <2> QED
    BY <1>1, <2>4, <2>5, <2>6, <2>7 DEF IInv, HeldInMain
<1> QED
  BY <1>2, <1>3 DEF Open, OpenGranted, OpenDenied

LEMMA CloseInv == IInv /\ Close => IInv'
<1> SUFFICES ASSUME IInv, NEW fd \in InUse, alt_fd_list' = Released(fd),
                    held' = held \ {fd}, UNCHANGED <<alt_max_fd, redirected>>
             PROVE  IInv'
  BY DEF Close
<1>1. fd \in Fds /\ redirected = 3
  BY DEF InUse
<1>2. CASE fd \in Std
  <2>1. alt_fd_list' = alt_fd_list /\ held' = held
    BY <1>2 DEF Released, IInv, FilesTypeOK
  <2> QED
    BY <2>1 DEF IInv, FilesTypeOK, NoLeak, HighWater, LocksAreDevices, HeldInMain
<1>3. CASE fd \notin Std
  <2>1. Zero(NoDev) \in EntryType /\ Zero(NoDev).dev = NoDev
        /\ ~Zero(NoDev).excl /\ ~Zero(NoDev).isdev
    BY ZeroEntry
  <2>2. alt_fd_list' = [alt_fd_list EXCEPT ![fd] = Zero(NoDev)]
    BY <1>3 DEF Released
  <2>3. FilesTypeOK'
    BY <1>1, <2>1, <2>2 DEF IInv, FilesTypeOK, EntryType
  <2>4. NoLeak'
    BY <1>1, <1>3, <2>1, <2>2 DEF IInv, NoLeak, FilesTypeOK
  <2>5. HighWater'
    BY <1>1, <1>3, <2>1, <2>2 DEF IInv, HighWater, FilesTypeOK
  <2>6. LocksAreDevices'
    BY <1>1, <2>1, <2>2 DEF IInv, LocksAreDevices, FilesTypeOK
  <2> QED
    BY <1>1, <2>3, <2>4, <2>5, <2>6 DEF IInv, HeldInMain
<1> QED
  BY <1>2, <1>3

\* Locking, unlocking and setting flags leave the devices where they are.
LEMMA FlagsInv == IInv /\ (Lock \/ Unlock \/ SetFlags) => IInv'
<1> SUFFICES ASSUME IInv, Lock \/ Unlock \/ SetFlags PROVE IInv'
  OBVIOUS
<1>1. CASE Lock
  <2> PICK fd \in InUse :
        /\ alt_fd_list[fd].isdev
        /\ alt_fd_list' = [alt_fd_list EXCEPT ![fd].excl = TRUE]
        /\ UNCHANGED <<alt_max_fd, redirected, held>>
    BY <1>1 DEF Lock
  <2> QED
    BY DEF IInv, FilesTypeOK, NoLeak, HighWater, LocksAreDevices, HeldInMain, InUse
<1>2. CASE Unlock
  <2> PICK fd \in InUse :
        /\ alt_fd_list' = [alt_fd_list EXCEPT ![fd].excl = FALSE]
        /\ UNCHANGED <<alt_max_fd, redirected, held>>
    BY <1>2 DEF Unlock
  <2>1. fd \in Fds
    BY DEF InUse
  <2>2. FilesTypeOK'
    BY <2>1 DEF IInv, FilesTypeOK
  <2>3. \A other \in Fds : /\ alt_fd_list'[other].dev = alt_fd_list[other].dev
                           /\ alt_fd_list'[other].isdev = alt_fd_list[other].isdev
                           /\ alt_fd_list'[other].excl => alt_fd_list[other].excl
    BY <2>1 DEF IInv, FilesTypeOK
  <2>4. NoLeak' /\ HighWater' /\ HeldInMain'
    BY <2>3 DEF IInv, NoLeak, HighWater, HeldInMain
  <2>5. LocksAreDevices'
    BY <2>3 DEF IInv, LocksAreDevices
  <2> QED
    BY <2>2, <2>4, <2>5 DEF IInv
<1>3. CASE SetFlags
  <2> PICK fd \in InUse, flags \in SUBSET FcntlFlags :
        /\ alt_fd_list' = [alt_fd_list EXCEPT ![fd].flags = flags]
        /\ UNCHANGED <<alt_max_fd, redirected, held>>
    BY <1>3 DEF SetFlags
  <2> QED
    BY DEF IInv, FilesTypeOK, NoLeak, HighWater, LocksAreDevices, HeldInMain, InUse
<1> QED
  BY <1>1, <1>2, <1>3

LEMMA NextInv == IInv /\ [FilesNext]_fileVars => IInv'
<1> SUFFICES ASSUME IInv, [FilesNext]_fileVars PROVE IInv'
  OBVIOUS
<1>1. CASE UNCHANGED fileVars
  BY <1>1 DEF fileVars, IInv, FilesTypeOK, NoLeak, HighWater, LocksAreDevices, HeldInMain
<1> QED
  BY <1>1, RedirectInv, OpenInv, CloseInv, FlagsInv DEF FilesNext

\* The inductive invariant.
THEOREM Invariance == FilesSpec => []IInv
<1> QED
  BY InitInv, NextInv, PTL DEF FilesSpec

\* Type correctness of the descriptors.
THEOREM FilesTypeCorrect == FilesSpec => []FilesTypeOK
<1>1. IInv => FilesTypeOK
  BY DEF IInv
<1> QED
  BY <1>1, Invariance, PTL

\* The descriptors in use are the standard ones and those that open has returned
\* and close has not taken, for every number of them.
THEOREM LeakFree == FilesSpec => []NoLeak
<1>1. IInv => NoLeak
  BY DEF IInv
<1> QED
  BY <1>1, Invariance, PTL
-----------------------------------------------------------------------------
\* Nothing is locked before main.
LEMMA NoLockBeforeMain == IInv /\ Redirect => \A fd \in Fds : ~alt_fd_list[fd].excl
  BY DEF IInv, LocksAreDevices, Redirect

\* A device that an open is granted for is locked by nobody.
LEMMA GrantedUnlocked ==
  ASSUME IInv, NEW new \in FirstFree, NEW dev \in Devices \cup FileSystems,
         dev \in FileSystems \/ ~LockedByOther(dev, new),
         NEW fd \in Fds, fd # new, alt_fd_list[fd].dev = dev
  PROVE  ~alt_fd_list[fd].excl
<1> SUFFICES ASSUME alt_fd_list[fd].excl PROVE FALSE
  OBVIOUS
<1>1. dev \in Devices
  BY DEF IInv, LocksAreDevices
<1>2. ~LockedByOther(dev, new) /\ dev # NoDev
  BY <1>1, FilesAssumption
<1>3. fd \in Std \/ fd <= alt_max_fd
  BY <1>2 DEF IInv, HighWater
<1>4. /\ Marked(new) \in Int /\ Marked(new) >= alt_max_fd /\ Marked(new) >= 3
      /\ alt_max_fd \in Int /\ fd \in Int
  BY FreeFd, FilesAssumption DEF IInv, FilesTypeOK, Fds
<1>5. fd <= Marked(new)
  BY <1>3, <1>4 DEF Std
<1> QED
  BY <1>2, <1>5 DEF LockedByOther

\* The calls other than open and the redirection keep devices, but close frees.
LEMMA DevicesStay ==
  ASSUME IInv, Close \/ Lock \/ Unlock \/ SetFlags, NEW fd \in Fds
  PROVE  /\ \/ /\ alt_fd_list'[fd].dev = alt_fd_list[fd].dev
               /\ alt_fd_list'[fd].access = alt_fd_list[fd].access
            \/ fd \notin Std /\ alt_fd_list'[fd].dev = NoDev
         /\ alt_fd_list[fd].excl /\ ~alt_fd_list'[fd].excl
              => Unlock \/ alt_fd_list'[fd].dev = NoDev
<1>1. CASE Close
  <2> PICK closed \in InUse : alt_fd_list' = Released(closed)
    BY <1>1 DEF Close
  <2> QED
    BY ZeroEntry DEF Released, IInv, FilesTypeOK, InUse
<1>2. CASE Lock
  <2> PICK locked \in InUse : alt_fd_list' = [alt_fd_list EXCEPT ![locked].excl = TRUE]
    BY <1>2 DEF Lock
  <2> QED
    BY DEF IInv, FilesTypeOK, InUse
<1>3. CASE Unlock
  <2> PICK locked \in InUse : alt_fd_list' = [alt_fd_list EXCEPT ![locked].excl = FALSE]
    BY <1>3 DEF Unlock
  <2> QED
    BY <1>3 DEF IInv, FilesTypeOK, InUse
<1>4. CASE SetFlags
  <2> PICK set \in InUse, flags \in SUBSET FcntlFlags :
        alt_fd_list' = [alt_fd_list EXCEPT ![set].flags = flags]
    BY <1>4 DEF SetFlags
  <2> QED
    BY DEF IInv, FilesTypeOK, InUse
<1> QED
  BY <1>1, <1>2, <1>3, <1>4

\* What open does to the pool.
LEMMA OpenEffect ==
  ASSUME IInv, Open
  PROVE  \E new \in FirstFree :
           \/ alt_fd_list' = [alt_fd_list EXCEPT ![new] = Zero(NoDev)]
           \/ \E dev \in Devices \cup FileSystems, access \in Access, flags \in SUBSET FcntlFlags :
                /\ dev \in FileSystems \/ ~LockedByOther(dev, new)
                /\ alt_fd_list' = [alt_fd_list EXCEPT ![new] = Entry(dev, access, flags)]
<1>1. ASSUME NEW new \in FirstFree, alt_fd_list' = Released(new)
      PROVE  alt_fd_list' = [alt_fd_list EXCEPT ![new] = Zero(NoDev)]
  BY <1>1, FreeFd DEF Released
<1> QED
  BY <1>1 DEF Open, OpenGranted, OpenDenied

\* While a device is locked nobody joins the descriptors that refer to it, for
\* every number of descriptors and devices.
THEOREM JoinSafe == FilesSpec => NoJoin
<1>1. ASSUME IInv, [FilesNext]_fileVars, NEW fd \in Fds, NEW other \in Fds,
             alt_fd_list[fd].excl, alt_fd_list'[fd].excl, other # fd,
             alt_fd_list'[other].dev = alt_fd_list'[fd].dev
      PROVE  alt_fd_list[other].dev = alt_fd_list'[other].dev
  <2>1. CASE UNCHANGED fileVars
    BY <2>1 DEF fileVars
  <2>2. CASE Redirect
    BY <1>1, <2>2, NoLockBeforeMain
  <2>3. CASE Open
    <3>1. PICK new \in FirstFree :
           \/ alt_fd_list' = [alt_fd_list EXCEPT ![new] = Zero(NoDev)]
           \/ \E dev \in Devices \cup FileSystems, access \in Access, flags \in SUBSET FcntlFlags :
                /\ dev \in FileSystems \/ ~LockedByOther(dev, new)
                /\ alt_fd_list' = [alt_fd_list EXCEPT ![new] = Entry(dev, access, flags)]
      BY <1>1, <2>3, OpenEffect
    <3>2. new \in Fds /\ alt_fd_list[new].dev = NoDev /\ fd # new
      BY <1>1, FreeFd
    <3>3. CASE alt_fd_list' = [alt_fd_list EXCEPT ![new] = Zero(NoDev)]
      BY <1>1, <3>2, <3>3, ZeroEntry DEF IInv, FilesTypeOK
    <3>4. ASSUME NEW dev \in Devices \cup FileSystems, NEW access \in Access,
                 NEW flags \in SUBSET FcntlFlags,
                 dev \in FileSystems \/ ~LockedByOther(dev, new),
                 alt_fd_list' = [alt_fd_list EXCEPT ![new] = Entry(dev, access, flags)]
          PROVE  alt_fd_list[other].dev = alt_fd_list'[other].dev
      <4>1. other # new => alt_fd_list'[other] = alt_fd_list[other]
        BY <1>1, <3>2, <3>4 DEF IInv, FilesTypeOK
      <4>2. alt_fd_list'[fd].dev = alt_fd_list[fd].dev /\ alt_fd_list'[new].dev = dev
        BY <1>1, <3>2, <3>4, EntryTypes DEF IInv, FilesTypeOK
      <4>3. other = new => alt_fd_list[fd].dev = dev
        BY <1>1, <4>2
      <4> QED
        BY <1>1, <3>2, <3>4, <4>1, <4>3, GrantedUnlocked
    <3> QED
      BY <3>1, <3>3, <3>4
  <2>4. CASE Close \/ Lock \/ Unlock \/ SetFlags
    <3>1. alt_fd_list'[fd].dev = alt_fd_list[fd].dev \/ alt_fd_list'[fd].dev = NoDev
      BY <1>1, <2>4, DevicesStay
    <3>2. alt_fd_list[other].dev = alt_fd_list'[other].dev \/ alt_fd_list'[other].dev = NoDev
      BY <1>1, <2>4, DevicesStay
    <3>3. alt_fd_list'[fd].dev # NoDev
      <4>1. IInv'
        BY <1>1, <2>4, CloseInv, FlagsInv
      <4> QED
        BY <1>1, <4>1, FilesAssumption DEF IInv, LocksAreDevices
    <3> QED
      BY <1>1, <3>1, <3>2, <3>3
  <2> QED
    BY <1>1, <2>1, <2>2, <2>3, <2>4 DEF FilesNext
<1>2. IInv /\ [FilesNext]_fileVars =>
        \A fd, other \in Fds :
          /\ alt_fd_list[fd].excl /\ alt_fd_list'[fd].excl /\ other # fd
          /\ alt_fd_list'[other].dev = alt_fd_list'[fd].dev
          => alt_fd_list[other].dev = alt_fd_list'[other].dev
  BY <1>1
<1> QED
  BY <1>2, Invariance, PTL DEF FilesSpec, NoJoin

\* A lock is lost only by closing its descriptor or unlocking it.
THEOREM LockSafe == FilesSpec => LockKept
<1>1. ASSUME IInv, [FilesNext]_fileVars, NEW fd \in Fds,
             alt_fd_list[fd].excl, ~alt_fd_list'[fd].excl
      PROVE  Unlock \/ alt_fd_list'[fd].dev = NoDev
  <2>1. CASE UNCHANGED fileVars
    BY <1>1, <2>1 DEF fileVars
  <2>2. CASE Redirect
    BY <1>1, <2>2, NoLockBeforeMain
  <2>3. CASE Open
    <3>1. PICK new \in FirstFree : \A old \in Fds \ {new} : alt_fd_list'[old] = alt_fd_list[old]
      BY <1>1, <2>3, OpenEffect DEF IInv, FilesTypeOK
    <3> QED
      BY <1>1, <3>1, FreeFd
  <2>4. CASE Close \/ Lock \/ Unlock \/ SetFlags
    BY <1>1, <2>4, DevicesStay
  <2> QED
    BY <1>1, <2>1, <2>2, <2>3, <2>4 DEF FilesNext
<1>2. IInv /\ [FilesNext]_fileVars =>
        \A fd \in Fds : alt_fd_list[fd].excl /\ ~alt_fd_list'[fd].excl
                          => Unlock \/ alt_fd_list'[fd].dev = NoDev
  BY <1>1
<1> QED
  BY <1>2, Invariance, PTL DEF FilesSpec, LockKept

\* Once redirected, standard input can be read and the standard outputs be
\* written, whatever the program does with its descriptors.
THEOREM StdioSafe == FilesSpec => StdioUsable
<1>1. ASSUME IInv, [FilesNext]_fileVars
      PROVE  /\ CanRead(0) => CanRead(0)'
             /\ \A fd \in {1, 2} : CanWrite(fd) => CanWrite(fd)'
  <2>1. CASE UNCHANGED fileVars
    BY <2>1 DEF fileVars, CanRead, CanWrite
  <2>2. CASE Redirect
    <3>1. <<1, 0, 2>>[redirected + 1] \in Std
      BY <1>1, <2>2 DEF Redirect, IInv, FilesTypeOK, Std
    <3>2. CASE alt_fd_list' = alt_fd_list
      BY <3>2 DEF CanRead, CanWrite
    <3>3. ASSUME NEW fd \in Std,
                 alt_fd_list' = [alt_fd_list EXCEPT
                   ![fd] = Entry(Stdio, IF fd = 0 THEN "O_RDONLY" ELSE "O_WRONLY", {})]
          PROVE  /\ CanRead(0) => CanRead(0)'
                 /\ \A other \in {1, 2} : CanWrite(other) => CanWrite(other)'
      BY <1>1, <3>3, Constants DEF IInv, FilesTypeOK, CanRead, CanWrite, Entry, Std
    <3> QED
      BY <2>2, <3>1, <3>2, <3>3 DEF Redirect
  <2>3. CASE Open
    <3>1. \A fd \in Std : alt_fd_list'[fd] = alt_fd_list[fd]
      BY <1>1, <2>3, OpenEffect, FreeFd, Constants DEF IInv, FilesTypeOK
    <3> QED
      BY <3>1 DEF CanRead, CanWrite, Std
  <2>4. CASE Close \/ Lock \/ Unlock \/ SetFlags
    <3>1. \A fd \in Std : /\ alt_fd_list'[fd].dev = alt_fd_list[fd].dev
                          /\ alt_fd_list'[fd].access = alt_fd_list[fd].access
      BY <1>1, <2>4, DevicesStay, Constants
    <3> QED
      BY <3>1 DEF CanRead, CanWrite, Std
  <2> QED
    BY <1>1, <2>1, <2>2, <2>3, <2>4 DEF FilesNext
<1>2. IInv /\ [FilesNext]_fileVars =>
        /\ CanRead(0) => CanRead(0)'
        /\ \A fd \in {1, 2} : CanWrite(fd) => CanWrite(fd)'
  BY <1>1
<1> QED
  BY <1>2, Invariance, PTL DEF FilesSpec, StdioUsable
-----------------------------------------------------------------------------
(***************************************************************************)
(* The alarms.  The invariant names the list the links stand for, and how  *)
(* far alt_tick has come along it.                                         *)
(***************************************************************************)
\* s lists the running alarms in the order of the links, from the head.
Chain(n, s) ==
  /\ \A i, j \in 1 .. n : s[i] = s[j] => i = j
  /\ \A a \in Alarms : Linked(a) <=> \E i \in 1 .. n : s[i] = a
  /\ next[Head] = IF n = 0 THEN Head ELSE s[1]
  /\ \A i \in 1 .. n : next[s[i]] = IF i = n THEN Head ELSE s[i + 1]

\* The alarm taken for the next has been stopped and does not run.
Gone(e) == e \in Alarms /\ ~Linked(e)

\* Those from the m-th on are still to be looked at by this tick, unless it has
\* lost its way.
Place(n, s, m) ==
  /\ alarm = NoAlarm => m = n + 1 /\ ~calling
  /\ alarm # NoAlarm /\ ~calling /\ Linked(alarm) => m <= n /\ s[m] = alarm
  /\ calling => /\ alarm # NoAlarm /\ saved \in Entries
                /\ Linked(alarm) => saved # alarm
                /\ Gone(saved) \/ saved = IF m = n + 1 THEN Head ELSE s[m]
  /\ ~calling => saved = NoAlarm

\* An alarm that has been looked at is not due, unless its callback runs, and
\* the flag says whether its time comes after the counter wraps; in the tick
\* that wraps the counter the flags of the others may still be set.
Flags(n, s, m) ==
  \A i \in 1 .. n :
    /\ i < m /\ ~(calling /\ s[i] = alarm) => time[s[i]] # alt_nticks
    /\ calling /\ s[i] = alarm => time[s[i]] = alt_nticks
    /\ (rollover[s[i]] <=> time[s[i]] < alt_nticks) \/ (i >= m /\ alt_nticks = 0)

Listed == \E n \in Nat : \E s \in [1 .. n -> Alarms], m \in 1 .. n + 1 :
            Chain(n, s) /\ Place(n, s, m) /\ Flags(n, s, m)
AlarmsInv == AlarmsTypeOK /\ Listed

\* The links agree in both directions.
LinksOK ==
  /\ next \in [Entries -> Entries] /\ previous \in [Entries -> Entries]
  /\ \A e \in Entries : previous[next[e]] = e

LEMMA HeadApart == Head \notin Alarms /\ NoAlarm \notin Entries /\ Head \in Entries
                   /\ Alarms \subseteq Entries
  BY AlarmsAssumption DEF Entries

\* The entry before the k-th alarm.
Before(s, k) == IF k = 1 THEN Head ELSE s[k - 1]

LEMMA BeforeLinks ==
  ASSUME LinksOK, NEW n \in Nat, NEW s \in [1 .. n -> Alarms], Chain(n, s), NEW k \in 1 .. n
  PROVE  /\ Before(s, k) \in Entries /\ next[Before(s, k)] = s[k]
         /\ previous[s[k]] = Before(s, k) /\ Before(s, k) # s[k]
<1>1. CASE k = 1
  BY <1>1, HeadApart DEF Before, Chain, LinksOK
<1>2. CASE k # 1
  <2>1. k - 1 \in 1 .. n /\ k - 1 # n /\ (k - 1) + 1 = k /\ k - 1 # k
    BY <1>2
  <2>2. next[s[k - 1]] = s[k] /\ s[k - 1] # s[k] /\ s[k - 1] \in Entries
    BY <2>1, HeadApart DEF Chain
  <2> QED
    BY <1>2, <2>2 DEF Before, LinksOK
<1> QED
  BY <1>1, <1>2

LEMMA InsertLinks ==
  ASSUME LinksOK, NEW a \in Alarms, ~Linked(a), Insert(a)
  PROVE  LinksOK'
<1>1. a \in Entries /\ Head \in Entries /\ a # Head /\ next[a] = a /\ next[Head] \in Entries
  BY HeadApart DEF Linked, LinksOK
<1>2. /\ next' \in [Entries -> Entries] /\ previous' \in [Entries -> Entries]
      /\ next'[Head] = a /\ next'[a] = next[Head]
      /\ \A e \in Entries : e # a /\ e # Head => next'[e] = next[e]
      /\ previous'[next[Head]] = a
      /\ next[Head] # a => previous'[a] = Head
      /\ \A e \in Entries : e # a /\ e # next[Head] => previous'[e] = previous[e]
  BY <1>1 DEF Insert, LinksOK
<1>3. next[Head] # a
  BY <1>1 DEF LinksOK
<1>4. ASSUME NEW e \in Entries PROVE previous'[next'[e]] = e
  <2>1. CASE e # a /\ e # Head
    <3>1. next[e] \in Entries /\ next[e] # a /\ next[e] # next[Head]
      BY <1>1, <2>1 DEF LinksOK
    <3> QED
      BY <1>2, <2>1, <3>1 DEF LinksOK
  <2> QED
    BY <1>1, <1>2, <1>3, <2>1
<1> QED
  BY <1>2, <1>4 DEF LinksOK, Entries

\* The list with a in front.
Pushed(a, n, s) == [i \in 1 .. n + 1 |-> IF i = 1 THEN a ELSE s[i - 1]]

LEMMA InsertChain ==
  ASSUME LinksOK, NEW n \in Nat, NEW s \in [1 .. n -> Alarms], Chain(n, s),
         NEW a \in Alarms, ~Linked(a), Insert(a)
  PROVE  /\ Pushed(a, n, s) \in [1 .. n + 1 -> Alarms]
         /\ Chain(n + 1, Pushed(a, n, s))'
<1> DEFINE t == Pushed(a, n, s)
<1>1. /\ t \in [1 .. n + 1 -> Alarms] /\ t[1] = a
      /\ \A i \in 1 .. n : t[i + 1] = s[i]
      /\ \A i \in 2 .. n + 1 : i - 1 \in 1 .. n /\ t[i] = s[i - 1]
  BY DEF Pushed
<1> HIDE DEF t
<1>2. /\ a # Head /\ next[a] = a /\ Head \in Entries /\ a \in Entries
      /\ \A i \in 1 .. n : s[i] # a /\ s[i] # Head /\ s[i] \in Entries
  BY HeadApart DEF Chain, Linked
<1>3. /\ next'[Head] = a /\ next'[a] = next[Head]
      /\ \A e \in Entries : e # a /\ e # Head => next'[e] = next[e]
  BY <1>2 DEF Insert, LinksOK
<1>4. \A i, j \in 1 .. n + 1 : t[i] = t[j] => i = j
  <2> SUFFICES ASSUME NEW i \in 1 .. n + 1, NEW j \in 1 .. n + 1, t[i] = t[j] PROVE i = j
    OBVIOUS
  <2>1. CASE i = 1 \/ j = 1
    <3>1. \A k \in 2 .. n + 1 : t[k] # a
      BY <1>1, <1>2
    <3> QED
      BY <1>1, <2>1, <3>1
  <2>2. CASE i # 1 /\ j # 1
    <3>1. i - 1 \in 1 .. n /\ j - 1 \in 1 .. n /\ s[i - 1] = s[j - 1]
      BY <1>1, <2>2
    <3>2. i - 1 = j - 1
      BY <3>1 DEF Chain
    <3> QED
      BY <3>2
  <2> QED
    BY <2>1, <2>2
<1>5. ASSUME NEW b \in Alarms
      PROVE  next'[b] # b <=> \E i \in 1 .. n + 1 : t[i] = b
  <2>1. CASE b = a
    <3>1. next[Head] # a
      BY <1>2 DEF LinksOK
    <3> QED
      BY <1>1, <1>3, <2>1, <3>1
  <2>2. CASE b # a
    <3>1. next'[b] # b <=> \E i \in 1 .. n : s[i] = b
      BY <1>3, <2>2, HeadApart DEF Chain, Linked
    <3>2. (\E i \in 1 .. n : s[i] = b) <=> \E i \in 1 .. n + 1 : t[i] = b
      <4>1. ASSUME NEW i \in 1 .. n, s[i] = b PROVE \E j \in 1 .. n + 1 : t[j] = b
        <5>1. i + 1 \in 1 .. n + 1
          OBVIOUS
        <5> QED
          BY <1>1, <4>1, <5>1
      <4>2. ASSUME NEW j \in 1 .. n + 1, t[j] = b PROVE \E i \in 1 .. n : s[i] = b
        BY <1>1, <2>2, <4>2
      <4> QED
        BY <4>1, <4>2
    <3> QED
      BY <3>1, <3>2
  <2> QED
    BY <2>1, <2>2
<1>6. ASSUME NEW i \in 1 .. n + 1
      PROVE  next'[t[i]] = IF i = n + 1 THEN Head ELSE t[i + 1]
  <2>1. CASE i = 1
    <3>1. t[i] = a /\ next'[t[i]] = next[Head]
      BY <1>1, <1>3, <2>1
    <3>2. CASE n = 0
      BY <2>1, <3>1, <3>2 DEF Chain
    <3>3. CASE n # 0
      <4>1. 1 \in 1 .. n /\ t[1 + 1] = s[1] /\ next[Head] = s[1]
        BY <1>1, <3>3 DEF Chain
      <4> QED
        BY <2>1, <3>1, <3>3, <4>1
    <3> QED
      BY <3>2, <3>3
  <2>2. CASE i # 1
    <3>1. i - 1 \in 1 .. n /\ t[i] = s[i - 1] /\ (i - 1) + 1 = i
      BY <1>1, <2>2
    <3>2. next'[t[i]] = IF i - 1 = n THEN Head ELSE s[i]
      BY <1>2, <1>3, <3>1 DEF Chain
    <3>3. i # n + 1 => i \in 1 .. n /\ t[i + 1] = s[i]
      BY <1>1
    <3> QED
      BY <3>1, <3>2, <3>3
  <2> QED
    BY <2>1, <2>2
<1>7. n + 1 # 0
  OBVIOUS
<1>8. next'[Head] = IF n + 1 = 0 THEN Head ELSE t[1]
  BY <1>1, <1>3, <1>7
<1>9. Chain(n + 1, t)'
  BY <1>4, <1>5, <1>6, <1>8 DEF Chain, Linked
<1> QED
  BY <1>1, <1>9 DEF t

\* The list without its k-th alarm.
Without(k, n, s) == [i \in 1 .. n - 1 |-> IF i < k THEN s[i] ELSE s[i + 1]]

LEMMA RemoveChain ==
  ASSUME LinksOK, NEW n \in Nat, NEW s \in [1 .. n -> Alarms], Chain(n, s),
         NEW k \in 1 .. n, Remove(s[k])
  PROVE  /\ LinksOK' /\ n - 1 \in Nat
         /\ Without(k, n, s) \in [1 .. n - 1 -> Alarms]
         /\ Chain(n - 1, Without(k, n, s))'
         /\ \A b \in Alarms : next'[b] # b <=> next[b] # b /\ b # s[k]
<1> DEFINE a == s[k]
           t == Without(k, n, s)
           p == Before(s, k)
           q == next[a]
<1>1. /\ p \in Entries /\ next[p] = a /\ previous[a] = p /\ p # a
      /\ a \in Alarms /\ a \in Entries /\ a # Head /\ Head \in Entries
  BY BeforeLinks, HeadApart
<1>2. q \in Entries /\ q # a /\ previous[q] = a /\ q = IF k = n THEN Head ELSE s[k + 1]
  <2>1. q = IF k = n THEN Head ELSE s[k + 1]
    BY DEF Chain
  <2>2. q # a
    <3>1. \E i \in 1 .. n : s[i] = a
      OBVIOUS
    <3>2. Linked(a)
      BY <1>1, <3>1 DEF Chain
    <3> QED
      BY <3>2 DEF Linked
  <2> QED
    BY <1>1, <2>1, <2>2 DEF LinksOK
<1>3. /\ next' = [next EXCEPT ![p] = q, ![a] = a]
      /\ previous' = [previous EXCEPT ![q] = p, ![a] = a]
  BY <1>1 DEF Remove
<1>4. /\ next' \in [Entries -> Entries] /\ previous' \in [Entries -> Entries]
      /\ next'[p] = q /\ next'[a] = a
      /\ \A e \in Entries : e # a /\ e # p => next'[e] = next[e]
      /\ previous'[q] = p /\ previous'[a] = a
      /\ \A e \in Entries : e # a /\ e # q => previous'[e] = previous[e]
  <2> HIDE DEF a, p, q
  <2> QED
    BY <1>1, <1>2, <1>3 DEF LinksOK
<1>5. LinksOK'
  <2>1. ASSUME NEW e \in Entries PROVE previous'[next'[e]] = e
    <3>1. CASE e # a /\ e # p
      <4>1. next[e] \in Entries /\ previous[next[e]] = e
        BY DEF LinksOK
      <4>2. next[e] # a /\ next[e] # q
        BY <1>1, <1>2, <3>1, <4>1
      <4> QED
        BY <1>4, <3>1, <4>1, <4>2
    <3> QED
      BY <1>4, <3>1
  <2> QED
    BY <1>4, <2>1 DEF LinksOK, Entries
<1>6. /\ n - 1 \in Nat /\ t \in [1 .. n - 1 -> Alarms]
      /\ \A i \in 1 .. n - 1 : t[i] = IF i < k THEN s[i] ELSE s[i + 1]
      /\ \A i \in 1 .. n - 1 : i \in 1 .. n /\ i + 1 \in 1 .. n
  <2>1. n - 1 \in Nat /\ \A i \in 1 .. n - 1 : i \in 1 .. n /\ i + 1 \in 1 .. n
    OBVIOUS
  <2> QED
    BY <2>1 DEF Without
<1> HIDE DEF t
<1>7. \A i, j \in 1 .. n - 1 : t[i] = t[j] => i = j
  <2> SUFFICES ASSUME NEW i \in 1 .. n - 1, NEW j \in 1 .. n - 1, t[i] = t[j] PROVE i = j
    OBVIOUS
  <2>1. PICK x \in 1 .. n : t[i] = s[x] /\ x = IF i < k THEN i ELSE i + 1
    BY <1>6
  <2>2. PICK y \in 1 .. n : t[j] = s[y] /\ y = IF j < k THEN j ELSE j + 1
    BY <1>6
  <2>3. s[x] = s[y]
    BY <2>1, <2>2
  <2>4. \A u, v \in 1 .. n : s[u] = s[v] => u = v
    BY DEF Chain
  <2>5. x = y
    BY <2>3, <2>4
  <2> QED
    BY <2>1, <2>2, <2>5
<1>8. \A i \in 1 .. n : i = k \/ \E j \in 1 .. n - 1 : t[j] = s[i]
  <2> SUFFICES ASSUME NEW i \in 1 .. n, i # k PROVE \E j \in 1 .. n - 1 : t[j] = s[i]
    OBVIOUS
  <2>1. CASE i < k
    <3>1. i \in 1 .. n - 1
      BY <2>1
    <3> QED
      BY <1>6, <2>1, <3>1
  <2>2. CASE i > k
    <3>1. i - 1 \in 1 .. n - 1 /\ ~(i - 1 < k) /\ (i - 1) + 1 = i
      BY <2>2
    <3>2. t[i - 1] = s[(i - 1) + 1]
      BY <1>6, <3>1
    <3> QED
      BY <3>1, <3>2
  <2> QED
    BY <2>1, <2>2
<1>9. ASSUME NEW b \in Alarms PROVE next'[b] # b <=> next[b] # b /\ b # a
  <2>1. CASE b = a
    BY <1>4, <2>1
  <2>2. CASE b # a
    <3>1. CASE b = p
      <4>1. next[b] # b
        BY <1>1, <3>1
      <4>2. next'[b] # b
        <5>1. k # 1 /\ b = s[k - 1] /\ k - 1 \in 1 .. n
          BY <3>1, HeadApart DEF Before
        <5>2. q # b
          <6>1. k + 1 # k - 1
            OBVIOUS
          <6>2. k # n => k + 1 \in 1 .. n
            OBVIOUS
          <6> QED
            BY <1>2, <5>1, <6>1, <6>2, HeadApart DEF Chain
        <5> QED
          BY <1>4, <3>1, <5>2
      <4> QED
        BY <2>2, <4>1, <4>2
    <3>2. CASE b # p
      BY <1>4, <2>2, <3>2, HeadApart
    <3> QED
      BY <3>1, <3>2
  <2> QED
    BY <2>1, <2>2
<1>10. ASSUME NEW b \in Alarms
      PROVE  next'[b] # b <=> \E i \in 1 .. n - 1 : t[i] = b
  <2>1. CASE b = a
    <3>1. \A i \in 1 .. n - 1 : t[i] # a
      <4> SUFFICES ASSUME NEW i \in 1 .. n - 1, t[i] = a PROVE FALSE
        OBVIOUS
      <4>1. PICK x \in 1 .. n : s[x] = a /\ x = IF i < k THEN i ELSE i + 1
        BY <1>6
      <4>2. x = k
        BY <4>1 DEF Chain
      <4> QED
        BY <4>1, <4>2
    <3> QED
      BY <1>4, <2>1, <3>1
  <2>2. CASE b # a
    <3>1. next'[b] # b <=> next[b] # b
      BY <1>9, <2>2
    <3>2. next[b] # b <=> \E i \in 1 .. n : s[i] = b
      BY DEF Chain, Linked
    <3>3. (\E i \in 1 .. n : s[i] = b) <=> \E i \in 1 .. n - 1 : t[i] = b
      <4>1. ASSUME NEW i \in 1 .. n, s[i] = b PROVE \E j \in 1 .. n - 1 : t[j] = b
        BY <1>8, <2>2, <4>1
      <4>2. ASSUME NEW j \in 1 .. n - 1, t[j] = b PROVE \E i \in 1 .. n : s[i] = b
        BY <1>6, <4>2
      <4> QED
        BY <4>1, <4>2
    <3> QED
      BY <3>1, <3>2, <3>3
  <2> QED
    BY <2>1, <2>2
<1>11. next'[Head] = IF n - 1 = 0 THEN Head ELSE t[1]
  <2>1. CASE k = 1
    <3>1. next'[Head] = q /\ (n = 1 <=> k = n)
      BY <1>4, <2>1 DEF Before
    <3>2. n # 1 => 1 \in 1 .. n - 1 /\ t[1] = s[1 + 1]
      BY <1>6, <2>1
    <3> QED
      BY <1>2, <2>1, <3>1, <3>2
  <2>2. CASE k # 1
    <3>1. Head # p
      BY <2>2, HeadApart DEF Before
    <3>2. next'[Head] = s[1] /\ n # 1
      BY <1>1, <1>4, <2>2, <3>1 DEF Chain
    <3>3. 1 \in 1 .. n - 1 /\ t[1] = s[1]
      BY <1>6, <2>2, <3>2
    <3> QED
      BY <3>2, <3>3
  <2> QED
    BY <2>1, <2>2
<1>12. ASSUME NEW i \in 1 .. n - 1
       PROVE  next'[t[i]] = IF i = n - 1 THEN Head ELSE t[i + 1]
  <2>1. PICK x \in 1 .. n : t[i] = s[x] /\ x = IF i < k THEN i ELSE i + 1
    BY <1>6
  <2>2. i # n - 1 => i + 1 \in 1 .. n - 1 /\ t[i + 1] = IF i + 1 < k THEN s[i + 1] ELSE s[i + 1 + 1]
    BY <1>6
  <2>3. CASE i = k - 1
    <3>1. x = k - 1 /\ k # 1
      BY <2>1, <2>3
    <3>2. t[i] = p
      BY <2>1, <3>1 DEF Before
    <3>3. k = n <=> i = n - 1
      BY <2>3
    <3>4. i # n - 1 => t[i + 1] = s[k + 1]
      BY <2>2, <2>3
    <3> QED
      BY <1>2, <1>4, <3>2, <3>3, <3>4
  <2>4. CASE i # k - 1
    <3>1. x # k /\ (k # 1 => x # k - 1)
      BY <2>1, <2>4
    <3>2. s[x] # a /\ s[x] # p /\ s[x] \in Entries
      <4>1. s[x] # a
        BY <3>1 DEF Chain
      <4>2. s[x] # p
        <5>1. CASE k = 1
          BY <5>1, HeadApart DEF Before
        <5>2. CASE k # 1
          <6>1. k - 1 \in 1 .. n /\ x # k - 1
            BY <3>1, <5>2
          <6> QED
            BY <5>2, <6>1 DEF Before, Chain
        <5> QED
          BY <5>1, <5>2
      <4> QED
        BY <4>1, <4>2, HeadApart
    <3>3. next'[t[i]] = IF x = n THEN Head ELSE s[x + 1]
      BY <1>4, <2>1, <3>2 DEF Chain
    <3>4. CASE i < k
      <4>1. x = i /\ i + 1 < k /\ i # n - 1 /\ x # n
        BY <2>1, <2>4, <3>4
      <4> QED
        BY <2>2, <3>3, <4>1
    <3>5. CASE ~(i < k)
      <4>1. x = i + 1 /\ ~(i + 1 < k) /\ (x = n <=> i = n - 1)
        BY <2>1, <3>5
      <4> QED
        BY <2>2, <3>3, <4>1
    <3> QED
      BY <3>4, <3>5
  <2> QED
    BY <2>3, <2>4
<1>13. Chain(n - 1, t)'
  BY <1>7, <1>10, <1>11, <1>12 DEF Chain, Linked
<1> QED
  BY <1>5, <1>6, <1>9, <1>13 DEF t
-----------------------------------------------------------------------------
\* Times, without the modulus.
LEMMA LeftIs ==
  ASSUME NEW t \in Ticks, NEW c \in Ticks
  PROVE  /\ (t - c) % Wrap = IF t >= c THEN t - c ELSE t - c + Wrap
         /\ (t - c) % Wrap \in Ticks
<1>1. CASE t >= c
  <2>1. t - c \in 0 .. Wrap - 1 /\ Wrap \in Nat /\ Wrap > 0
    BY <1>1, AlarmsAssumption DEF Ticks
  <2>2. (t - c) % Wrap = t - c
    BY <2>1
  <2> QED
    BY <1>1, <2>1, <2>2 DEF Ticks
<1>2. CASE ~(t >= c)
  <2>1. t - c + Wrap \in 0 .. Wrap - 1 /\ Wrap \in Nat /\ Wrap > 0 /\ t - c \in Int
    BY <1>2, AlarmsAssumption DEF Ticks
  <2>2. (t - c) % Wrap = t - c + Wrap
    BY <2>1
  <2> QED
    BY <1>2, <2>1, <2>2 DEF Ticks
<1> QED
  BY <1>1, <1>2

LEMMA PlusIs ==
  ASSUME NEW t \in Ticks, NEW d \in Ticks
  PROVE  /\ (t + d) % Wrap = IF t + d < Wrap THEN t + d ELSE t + d - Wrap
         /\ (t + d) % Wrap \in Ticks
<1>1. CASE t + d < Wrap
  <2>1. t + d \in 0 .. Wrap - 1 /\ Wrap \in Nat /\ Wrap > 0
    BY <1>1, AlarmsAssumption DEF Ticks
  <2>2. (t + d) % Wrap = t + d
    BY <2>1
  <2> QED
    BY <1>1, <2>1, <2>2 DEF Ticks
<1>2. CASE ~(t + d < Wrap)
  <2>1. t + d - Wrap \in 0 .. Wrap - 1 /\ Wrap \in Nat /\ Wrap > 0
    BY <1>2, AlarmsAssumption DEF Ticks
  <2>2. (t + d) % Wrap = t + d - Wrap
    BY <2>1 DEF Ticks
  <2> QED
    BY <1>2, <2>1, <2>2 DEF Ticks
<1> QED
  BY <1>1, <1>2

\* A time ahead of the counter is not now, and is that far ahead.
LEMMA Ahead ==
  ASSUME NEW c \in Ticks, NEW d \in 1 .. MaxPeriod + 1
  PROVE  /\ (c + d) % Wrap \in Ticks /\ (c + d) % Wrap # c
         /\ (((c + d) % Wrap) - c) % Wrap = d
<1>1. d \in Ticks /\ d > 0
  BY AlarmsAssumption DEF Ticks
<1> DEFINE t == (c + d) % Wrap
<1>2. t \in Ticks /\ t = IF c + d < Wrap THEN c + d ELSE c + d - Wrap
  BY <1>1, PlusIs
<1> HIDE DEF t
<1>3. (t - c) % Wrap = IF t >= c THEN t - c ELSE t - c + Wrap
  BY <1>2, LeftIs
<1>4. t # c /\ (t - c) % Wrap = d
  BY <1>1, <1>2, <1>3, AlarmsAssumption DEF Ticks
<1> QED
  BY <1>2, <1>4 DEF t

\* The countdown reaches zero when the counter reaches the time.
LEMMA Countdown ==
  ASSUME NEW t \in Ticks, NEW c \in Ticks
  PROVE  /\ (t - c) % Wrap = 0 <=> t = c
         /\ (c + 1) % Wrap \in Ticks
         /\ t # c => (t - ((c + 1) % Wrap)) % Wrap = ((t - c) % Wrap) - 1
<1>1. 1 \in Ticks
  BY AlarmsAssumption DEF Ticks
<1> DEFINE e == (c + 1) % Wrap
<1>2. e \in Ticks /\ e = IF c + 1 < Wrap THEN c + 1 ELSE c + 1 - Wrap
  BY <1>1, PlusIs
<1> HIDE DEF e
<1>3. /\ (t - c) % Wrap = IF t >= c THEN t - c ELSE t - c + Wrap
      /\ (t - e) % Wrap = IF t >= e THEN t - e ELSE t - e + Wrap
  BY <1>2, LeftIs
<1>4. t # c => (t - e) % Wrap = ((t - c) % Wrap) - 1
  BY <1>2, <1>3, AlarmsAssumption DEF Ticks
<1>5. (t - c) % Wrap = 0 <=> t = c
  BY <1>3, AlarmsAssumption DEF Ticks
<1> QED
  BY <1>2, <1>4, <1>5 DEF e
-----------------------------------------------------------------------------
Lists(n, s, m) == n \in Nat /\ s \in [1 .. n -> Alarms] /\ m \in 1 .. n + 1

LEMMA ListedSuffices ==
  ASSUME NEW n, NEW s, NEW m, Lists(n, s, m),
         Chain(n, s)', Place(n, s, m)', Flags(n, s, m)'
  PROVE  Listed'
<1> USE DEF Lists
<1>1. n \in Nat /\ s \in [1 .. n -> Alarms] /\ m \in 1 .. n + 1
  OBVIOUS
<1>2. \E q \in 1 .. n + 1 : (Chain(n, s) /\ Place(n, s, q) /\ Flags(n, s, q))'
  <2> WITNESS m \in 1 .. n + 1
  <2> QED
    OBVIOUS
<1>3. (\E r \in [1 .. n -> Alarms] : \E q \in 1 .. n + 1 :
        Chain(n, r) /\ Place(n, r, q) /\ Flags(n, r, q))'
  <2> WITNESS s \in [1 .. n -> Alarms]
  <2> QED
    BY <1>2
<1> QED
  BY <1>1, <1>3, Zenon DEF Listed, Chain, Place, Flags, Linked

LEMMA InitAlarms == AlarmsInit => AlarmsInv
<1> SUFFICES ASSUME AlarmsInit PROVE AlarmsInv
  OBVIOUS
<1>1. AlarmsTypeOK
  <2>1. 0 \in Ticks
    BY AlarmsAssumption DEF Ticks
  <2>2. LinksOK
    BY DEF AlarmsInit, LinksOK
  <2> QED
    BY <2>1, <2>2 DEF AlarmsInit, AlarmsTypeOK, LinksOK
<1> DEFINE s == [i \in 1 .. 0 |-> CHOOSE a \in Alarms : TRUE]
<1>2. 0 \in Nat /\ s \in [1 .. 0 -> Alarms] /\ 1 \in 1 .. 0 + 1
  OBVIOUS
<1> HIDE DEF s
<1>3. Chain(0, s)
  BY <1>2, HeadApart DEF AlarmsInit, Chain, Linked, Entries
<1>4. Place(0, s, 1) /\ Flags(0, s, 1)
  BY <1>2 DEF AlarmsInit, Place, Flags
<1> QED
  BY <1>1, <1>2, <1>3, <1>4 DEF AlarmsInv, Listed

\* A witness of Listed, for the steps.
Lines(n, s, m) == Lists(n, s, m) /\ Chain(n, s) /\ Place(n, s, m) /\ Flags(n, s, m)

LEMMA TypesThen ==
  ASSUME AlarmsTypeOK, LinksOK',
         time' \in [Alarms -> Ticks], rollover' \in [Alarms -> BOOLEAN],
         alt_tick_rate' \in BOOLEAN, alt_nticks' \in Ticks,
         alarm' \in Alarms \cup {NoAlarm}, saved' \in Entries \cup {NoAlarm},
         calling' \in BOOLEAN
  PROVE  AlarmsTypeOK'
BY DEF AlarmsTypeOK, LinksOK, Entries, Ticks

LEMMA InvHas ==
  ASSUME AlarmsInv
  PROVE  /\ AlarmsTypeOK /\ LinksOK
         /\ \E n, s, m : Lines(n, s, m)
  BY DEF AlarmsInv, AlarmsTypeOK, LinksOK, Listed, Lines, Lists

\* The timer is connected; and steps that leave all but that alone.
LEMMA SameAlarms ==
  ASSUME AlarmsInv, alt_tick_rate' \in BOOLEAN,
         UNCHANGED <<alt_nticks, links, time, rollover, alarm, saved, calling>>
  PROVE  AlarmsInv'
<1>1. AlarmsTypeOK'
  BY InvHas DEF AlarmsTypeOK, links, Entries, Ticks
<1>2. PICK n, s, m : Lines(n, s, m)
  BY InvHas
<1>3. Chain(n, s)'
  BY <1>2 DEF Lines, Chain, Linked, links
<1>4. Place(n, s, m)' /\ Flags(n, s, m)'
  BY <1>2 DEF Lines, Place, Flags, Gone, Linked, links
<1> QED
  BY <1>1, <1>2, <1>3, <1>4, ListedSuffices DEF AlarmsInv, Lines

\* Starting an alarm puts it in front, where this tick has already been; but if
\* it is the one taken for the next, the tick begins again with it.
LEMMA StartAlarms ==
  ASSUME AlarmsInv, NEW a \in Alarms, NEW nticks \in 0 .. MaxPeriod, AlarmStart(a, nticks)
  PROVE  AlarmsInv'
<1>1. PICK n, s, m : Lines(n, s, m)
  BY InvHas
<1> DEFINE t == Pushed(a, n, s)
<1>2. /\ n \in Nat /\ s \in [1 .. n -> Alarms] /\ m \in 1 .. n + 1
      /\ Chain(n, s) /\ Place(n, s, m) /\ Flags(n, s, m)
  BY <1>1 DEF Lines, Lists
<1>3. AlarmsTypeOK /\ LinksOK /\ LinksOK' /\ ~Linked(a)
  BY InvHas, InsertLinks DEF AlarmStart
<1>4. t \in [1 .. n + 1 -> Alarms] /\ Chain(n + 1, t)'
  BY <1>2, <1>3, InsertChain DEF AlarmStart
<1>5. t[1] = a /\ \A i \in 2 .. n + 1 : i - 1 \in 1 .. n /\ t[i] = s[i - 1]
  BY <1>2 DEF Pushed
<1> HIDE DEF t
<1>6. \A i \in 1 .. n : s[i] # a /\ s[i] \in Alarms
  BY <1>2, <1>3 DEF Chain
<1>7. /\ time' \in [Alarms -> Ticks] /\ rollover' \in [Alarms -> BOOLEAN]
      /\ time'[a] # alt_nticks /\ (rollover'[a] <=> time'[a] < alt_nticks)
      /\ \A b \in Alarms \ {a} : time'[b] = time[b] /\ rollover'[b] = rollover[b]
  <2>1. nticks + 1 \in 1 .. MaxPeriod + 1 /\ nticks + alt_nticks + 1 = alt_nticks + (nticks + 1)
    BY <1>3, AlarmsAssumption DEF AlarmsTypeOK, Ticks
  <2> DEFINE x == (nticks + alt_nticks + 1) % Wrap
  <2>2. x \in Ticks /\ x # alt_nticks
    BY <1>3, <2>1, Ahead DEF AlarmsTypeOK
  <2> HIDE DEF x
  <2>3. time' = [time EXCEPT ![a] = x]
    BY DEF AlarmStart, x
  <2>4. time' \in [Alarms -> Ticks] /\ time'[a] = x
    BY <1>3, <2>2, <2>3 DEF AlarmsTypeOK
  <2>5. rollover' = [rollover EXCEPT ![a] = x < alt_nticks]
    BY <2>4 DEF AlarmStart
  <2>6. rollover \in [Alarms -> BOOLEAN] /\ (x < alt_nticks) \in BOOLEAN
    BY <1>3 DEF AlarmsTypeOK
  <2>7. rollover' \in [Alarms -> BOOLEAN] /\ rollover'[a] = (x < alt_nticks)
    BY <2>5, <2>6
  <2>8. \A b \in Alarms \ {a} : time'[b] = time[b] /\ rollover'[b] = rollover[b]
    BY <1>3, <2>3, <2>5 DEF AlarmsTypeOK
  <2> QED
    BY <2>2, <2>4, <2>7, <2>8
<1>8. UNCHANGED <<alt_tick_rate, alt_nticks, alarm, saved, calling>> /\ CodeRuns /\ a # alarm
  BY DEF AlarmStart
<1>9. PICK l \in 1 .. n + 1 + 1 :
        /\ a # saved => l = m + 1
        /\ a = saved => l = 1
        /\ \A i \in 1 .. n : i + 1 < l => i < m
        /\ \A i \in 1 .. n : i >= m => i + 1 >= l
  <2>1. CASE a = saved
    <3>1. 1 \in 1 .. n + 1 + 1 /\ \A i \in 1 .. n : ~(i + 1 < 1) /\ i + 1 >= 1
      BY <1>2
    <3> QED
      BY <2>1, <3>1
  <2>2. CASE a # saved
    <3>1. /\ m + 1 \in 1 .. n + 1 + 1
          /\ \A i \in 1 .. n : (i + 1 < m + 1 <=> i < m) /\ (i >= m <=> i + 1 >= m + 1)
      BY <1>2
    <3> QED
      BY <2>2, <3>1
  <2> QED
    BY <2>1, <2>2
<1>10. Place(n + 1, t, l)'
  <2>1. \A b \in Alarms \ {a} : Linked(b)' <=> Linked(b)
    BY <1>3, HeadApart DEF AlarmStart, Insert, Linked, LinksOK
  <2>2. CASE ~calling
    <3>1. alarm = NoAlarm /\ saved = NoAlarm /\ m = n + 1 /\ a # saved
      BY <1>2, <1>8, <2>2, HeadApart DEF Place, CodeRuns
    <3> QED
      BY <1>2, <1>8, <1>9, <2>2, <3>1 DEF Place
  <2>3. CASE calling /\ a = saved
    <3>1. l = 1 /\ saved = t[1] /\ 1 # n + 1 + 1
      BY <1>2, <1>5, <1>9, <2>3
    <3> QED
      BY <1>2, <1>8, <2>3, <3>1 DEF Place
  <2>4. CASE calling /\ a # saved
    <3>1. l = m + 1 /\ (m # n + 1 => t[m + 1] = s[m]) /\ (m + 1 = n + 1 + 1 <=> m = n + 1)
      BY <1>2, <1>5, <1>9, <2>4
    <3>2. Gone(saved) => Gone(saved)'
      BY <1>8, <2>1, <2>4 DEF Gone
    <3>3. Linked(alarm)' => saved # alarm
      <4>1. alarm \in Alarms \ {a}
        BY <1>2, <1>3, <1>8, <2>4 DEF Place, AlarmsTypeOK
      <4> QED
        BY <1>2, <1>8, <2>1, <2>4, <4>1 DEF Place
    <3> QED
      BY <1>2, <1>8, <2>4, <3>1, <3>2, <3>3 DEF Place
  <2> QED
    BY <2>2, <2>3, <2>4
<1>11. Flags(n + 1, t, l)'
  <2> SUFFICES ASSUME NEW i \in 1 .. n + 1
               PROVE  /\ i < l /\ ~(calling /\ t[i] = alarm) => time'[t[i]] # alt_nticks
                      /\ calling /\ t[i] = alarm => time'[t[i]] = alt_nticks
                      /\ (rollover'[t[i]] <=> time'[t[i]] < alt_nticks)
                         \/ (i >= l /\ alt_nticks = 0)
    BY <1>8 DEF Flags
  <2>1. CASE i = 1
    BY <1>5, <1>7, <1>8, <2>1
  <2>2. CASE i # 1
    <3>1. /\ i - 1 \in 1 .. n /\ t[i] = s[i - 1] /\ (i - 1) + 1 = i
      BY <1>2, <1>5, <2>2
    <3>2. (i < l => i - 1 < m) /\ (i - 1 >= m => i >= l)
      BY <1>9, <3>1
    <3>3. time'[t[i]] = time[s[i - 1]] /\ (rollover'[t[i]] <=> rollover[s[i - 1]])
      BY <1>6, <1>7, <3>1
    <3> QED
      BY <1>2, <3>1, <3>2, <3>3 DEF Flags
  <2> QED
    BY <2>1, <2>2
<1>13. Lists(n + 1, t, l)
  BY <1>2, <1>4, <1>9 DEF Lists
<1>12. AlarmsTypeOK'
  <2>1. AlarmsTypeOK
    BY <1>3
  <2> QED
    BY <1>3, <1>7, <1>8, <2>1, TypesThen DEF AlarmsTypeOK
<1> QED
  BY <1>4, <1>10, <1>11, <1>12, <1>13, ListedSuffices DEF AlarmsInv

\* Where this tick is in the list without its k-th alarm.
Closer(k, m) == IF k < m THEN m - 1 ELSE m

StillAhead(n, s, m, k) ==
  /\ Closer(k, m) \in 1 .. n
  /\ k # m => /\ Closer(k, m) = n <=> m = n + 1
              /\ Closer(k, m) # n => Without(k, n, s)[Closer(k, m)] = s[m]
  /\ \A i \in 1 .. n - 1 : \E x \in 1 .. n :
       Without(k, n, s)[i] = s[x] /\ s[x] # s[k] /\ (x < m <=> i < Closer(k, m))

LEMMA WithoutPlace ==
  ASSUME NEW n \in Nat, NEW s \in [1 .. n -> Alarms], NEW m \in 1 .. n + 1, NEW k \in 1 .. n,
         Chain(n, s)
  PROVE  StillAhead(n, s, m, k)
<1> DEFINE t == Without(k, n, s)
           l == Closer(k, m)
<1>1. l \in 1 .. n /\ (k # m => (l = n <=> m = n + 1))
  BY DEF Closer
<1>2. \A i \in 1 .. n - 1 : t[i] = IF i < k THEN s[i] ELSE s[i + 1]
  BY DEF Without
<1>3. ASSUME k # m PROVE l # n => t[l] = s[m]
  <2>1. CASE k < m
    <3>1. l = m - 1 /\ ~(l < k) /\ l + 1 = m
      BY <2>1 DEF Closer
    <3>2. l # n => l \in 1 .. n - 1
      BY <1>1, <1>3
    <3> HIDE DEF l
    <3> QED
      BY <1>2, <3>1, <3>2
  <2>2. CASE m < k
    <3>1. l = m /\ l < k /\ l \in 1 .. n - 1
      BY <2>2 DEF Closer
    <3> QED
      BY <1>2, <3>1
  <2> QED
    BY <1>3, <2>1, <2>2
<1>4. ASSUME NEW i \in 1 .. n - 1
      PROVE  \E x \in 1 .. n : t[i] = s[x] /\ s[x] # s[k] /\ (x < m <=> i < l)
  <2> DEFINE x == IF i < k THEN i ELSE i + 1
  <2>1. x \in 1 .. n /\ x # k /\ (x < m <=> i < l)
    BY DEF Closer
  <2>2. t[i] = s[x]
    BY <1>2
  <2>3. s[x] # s[k]
    BY <2>1 DEF Chain
  <2> HIDE DEF x, l, t
  <2> QED
    BY <2>1, <2>2, <2>3
<1> QED
  BY <1>1, <1>3, <1>4 DEF StillAhead

\* Stopping an alarm takes it out; it may be the one taken for the next.
LEMMA StopAlarms ==
  ASSUME AlarmsInv, NEW a \in Alarms, AlarmStop(a)
  PROVE  AlarmsInv'
<1>1. PICK n, s, m : Lines(n, s, m)
  BY InvHas
<1>2. /\ n \in Nat /\ s \in [1 .. n -> Alarms] /\ m \in 1 .. n + 1
      /\ Chain(n, s) /\ Place(n, s, m) /\ Flags(n, s, m)
  BY <1>1 DEF Lines, Lists
<1>3. PICK k \in 1 .. n : s[k] = a
  BY <1>2 DEF AlarmStop, Chain
<1> DEFINE t == Without(k, n, s)
           l == Closer(k, m)
<1>4. UNCHANGED <<alt_tick_rate, alt_nticks, time, rollover, alarm, saved, calling>>
      /\ CodeRuns
  BY DEF AlarmStop
<1>6. AlarmsTypeOK /\ LinksOK /\ Remove(s[k])
  BY <1>3, InvHas DEF AlarmStop
<1>7. /\ LinksOK' /\ n - 1 \in Nat /\ t \in [1 .. n - 1 -> Alarms] /\ Chain(n - 1, t)'
      /\ \A b \in Alarms : Linked(b)' <=> Linked(b) /\ b # a
  BY <1>2, <1>3, <1>6, RemoveChain DEF Linked
<1>8. /\ l \in 1 .. n /\ (k # m => (l = n <=> m = n + 1) /\ (l # n => t[l] = s[m]))
      /\ \A i \in 1 .. n - 1 : \E x \in 1 .. n :
           t[i] = s[x] /\ s[x] # s[k] /\ (x < m <=> i < l)
  <2>1. StillAhead(n, s, m, k)
    BY <1>2, WithoutPlace
  <2> QED
    BY <2>1 DEF StillAhead
<1> HIDE DEF t, l
<1>9. Place(n - 1, t, l)'
  <2>1. CASE ~calling
    <3>1. alarm = NoAlarm /\ m = n + 1 /\ k # m
      BY <1>2, <1>4, <2>1 DEF Place, CodeRuns
    <3>2. l = n - 1 + 1
      BY <1>2, <1>8, <3>1
    <3> QED
      BY <1>2, <1>4, <2>1, <3>1, <3>2 DEF Place
  <2>2. CASE calling
    <3>1. alarm \in Alarms /\ saved \in Entries
      BY <1>2, <1>6, <2>2 DEF Place, AlarmsTypeOK
    <3>2. Linked(alarm)' => saved # alarm
      BY <1>2, <1>4, <1>7, <2>2, <3>1 DEF Place
    <3>3. Gone(saved)' \/ saved = IF l = n - 1 + 1 THEN Head ELSE t[l]
      <4>1. CASE Gone(saved) \/ saved = a
        BY <1>4, <1>7, <4>1 DEF Gone
      <4>2. CASE ~Gone(saved) /\ saved # a
        <5>1. saved = IF m = n + 1 THEN Head ELSE s[m]
          BY <1>2, <2>2, <4>2 DEF Place
        <5>2. k # m
          BY <1>2, <1>3, <4>2, <5>1
        <5>3. (l = n - 1 + 1 <=> m = n + 1) /\ (l # n - 1 + 1 => t[l] = s[m])
          BY <1>2, <1>8, <5>2
        <5> QED
          BY <5>1, <5>3
      <4> QED
        BY <4>1, <4>2
    <3> QED
      BY <1>2, <1>4, <2>2, <3>1, <3>2, <3>3 DEF Place
  <2> QED
    BY <2>1, <2>2
<1>10. Flags(n - 1, t, l)'
  <2> SUFFICES ASSUME NEW i \in 1 .. n - 1
               PROVE  /\ i < l /\ ~(calling /\ t[i] = alarm) => time[t[i]] # alt_nticks
                      /\ calling /\ t[i] = alarm => time[t[i]] = alt_nticks
                      /\ (rollover[t[i]] <=> time[t[i]] < alt_nticks)
                         \/ (i >= l /\ alt_nticks = 0)
    BY <1>4 DEF Flags
  <2>1. PICK x \in 1 .. n : t[i] = s[x] /\ (x < m <=> i < l)
    BY <1>8
  <2>2. x >= m <=> i >= l
    BY <1>2, <1>8, <2>1
  <2> QED
    BY <1>2, <2>1, <2>2 DEF Flags
<1>11. Lists(n - 1, t, l)
  BY <1>2, <1>7, <1>8 DEF Lists
<1>12. AlarmsTypeOK'
  <2>1. AlarmsTypeOK
    BY <1>6
  <2> QED
    BY <1>4, <1>7, <2>1, TypesThen DEF AlarmsTypeOK
<1> QED
  BY <1>7, <1>9, <1>10, <1>11, <1>12, ListedSuffices DEF AlarmsInv

\* A tick begins with the first alarm.
LEMMA TickAlarms ==
  ASSUME AlarmsInv, Tick
  PROVE  AlarmsInv'
<1>1. PICK n, s, m : Lines(n, s, m)
  BY InvHas
<1>2. /\ n \in Nat /\ s \in [1 .. n -> Alarms] /\ m = n + 1
      /\ Chain(n, s) /\ Place(n, s, m) /\ Flags(n, s, m)
  BY <1>1 DEF Lines, Lists, Tick, Place
<1>3. /\ UNCHANGED <<alt_tick_rate, links, time, rollover, saved, calling>>
      /\ ~calling /\ saved = NoAlarm /\ alarm = NoAlarm
      /\ alarm' = IF next[Head] = Head THEN NoAlarm ELSE next[Head]
      /\ alt_nticks' = (alt_nticks + 1) % Wrap
  BY <1>2 DEF Tick, Place, Goto
<1>4. AlarmsTypeOK /\ LinksOK
  BY InvHas
<1>5. alt_nticks \in Ticks /\ alt_nticks' \in Ticks
      /\ alt_nticks' = IF alt_nticks + 1 < Wrap THEN alt_nticks + 1 ELSE 0
  <2>1. 1 \in Ticks /\ Wrap \in Nat
    BY AlarmsAssumption DEF Ticks
  <2>2. alt_nticks \in Ticks
    BY <1>4 DEF AlarmsTypeOK
  <2>3. /\ alt_nticks' \in Ticks
        /\ alt_nticks' = IF alt_nticks + 1 < Wrap THEN alt_nticks + 1 ELSE alt_nticks + 1 - Wrap
    BY <1>3, <2>1, <2>2, PlusIs
  <2> QED
    BY <2>1, <2>2, <2>3 DEF Ticks
<1>6. next[Head] = IF n = 0 THEN Head ELSE s[1]
  BY <1>2 DEF Chain
<1>7. n # 0 => 1 \in 1 .. n /\ s[1] \in Alarms /\ s[1] # Head /\ s[1] # NoAlarm
  BY <1>2, HeadApart
<1>8. Place(n, s, 1)'
  BY <1>2, <1>3, <1>6, <1>7 DEF Place
<1>9. Flags(n, s, 1)'
  <2> SUFFICES ASSUME NEW i \in 1 .. n
               PROVE  (rollover[s[i]] <=> time[s[i]] < alt_nticks') \/ alt_nticks' = 0
    BY <1>3 DEF Flags
  <2>1. time[s[i]] \in Ticks
    BY <1>2, <1>4 DEF AlarmsTypeOK
  <2>2. i < m /\ ~(i >= m)
    BY <1>2
  <2>3. time[s[i]] # alt_nticks /\ (rollover[s[i]] <=> time[s[i]] < alt_nticks)
    BY <1>2, <1>3, <2>2 DEF Flags
  <2>4. time[s[i]] < alt_nticks <=> time[s[i]] < alt_nticks' \/ alt_nticks' = 0
    <3>1. CASE alt_nticks + 1 < Wrap
      BY <1>5, <2>1, <2>3, <3>1 DEF Ticks
    <3>2. CASE ~(alt_nticks + 1 < Wrap)
      BY <1>5, <2>1, <2>3, <3>2, AlarmsAssumption DEF Ticks
    <3> QED
      BY <3>1, <3>2
  <2> QED
    BY <2>3, <2>4
<1>10. Chain(n, s)'
  BY <1>2, <1>3 DEF Chain, Linked, links
<1>11. Lists(n, s, 1)
  BY <1>2 DEF Lists
<1>12. AlarmsTypeOK'
  <2>1. alarm' \in Alarms \cup {NoAlarm}
    BY <1>2, <1>3, <1>6, <1>7
  <2> QED
    BY <1>3, <1>4, <1>5, <2>1 DEF AlarmsTypeOK, links, Entries, Ticks
<1> QED
  BY <1>8, <1>9, <1>10, <1>11, <1>12, ListedSuffices DEF AlarmsInv

\* alt_tick calls an alarm exactly when its time is now: the flag of one whose
\* time has passed is set, except in the tick that wraps the counter.
LEMMA DueNow ==
  ASSUME AlarmsInv, NEW n, NEW s, NEW m, Lines(n, s, m), alarm # NoAlarm, ~calling,
         Linked(alarm)
  PROVE  /\ m \in 1 .. n /\ s[m] = alarm /\ alarm \in Alarms /\ alt_nticks \in Ticks
         /\ time[alarm] \in Ticks /\ rollover[alarm] \in BOOLEAN
         /\ Expired(alarm) <=> time[alarm] = alt_nticks
         /\ Rolled(alarm) <=> time[alarm] < alt_nticks
<1>1. m \in 1 .. n /\ s[m] = alarm
  BY DEF Lines, Lists, Place
<1>2. alarm \in Alarms /\ alt_nticks \in Ticks /\ time[alarm] \in Ticks /\ rollover[alarm] \in BOOLEAN
  BY InvHas DEF AlarmsTypeOK
<1>3. (rollover[alarm] <=> time[alarm] < alt_nticks) \/ alt_nticks = 0
  <2>1. m >= m
    BY <1>1
  <2> QED
    BY <1>1, <2>1 DEF Lines, Flags
<1>4. Rolled(alarm) <=> time[alarm] < alt_nticks
  BY <1>2, <1>3 DEF Rolled, Ticks
<1>5. Expired(alarm) <=> time[alarm] = alt_nticks
  BY <1>2, <1>4 DEF Expired, Ticks
<1> QED
  BY <1>1, <1>2, <1>4, <1>5

LEMMA LookAlarms ==
  ASSUME AlarmsInv, Look, Linked(alarm)
  PROVE  AlarmsInv'
<1>1. PICK n, s, m : Lines(n, s, m)
  BY InvHas
<1>2. /\ n \in Nat /\ s \in [1 .. n -> Alarms]
      /\ Chain(n, s) /\ Place(n, s, m) /\ Flags(n, s, m)
  BY <1>1 DEF Lines, Lists
<1>3. /\ UNCHANGED <<alt_tick_rate, alt_nticks, links, time>>
      /\ alarm # NoAlarm /\ ~calling /\ saved = NoAlarm
      /\ rollover' = [rollover EXCEPT ![alarm] = Rolled(alarm)]
  BY <1>2 DEF Look, Place
<1>4. AlarmsTypeOK /\ LinksOK
  BY InvHas
<1>5. /\ m \in 1 .. n /\ s[m] = alarm /\ alarm \in Alarms
      /\ Expired(alarm) <=> time[alarm] = alt_nticks
      /\ Rolled(alarm) <=> time[alarm] < alt_nticks
  BY <1>1, <1>3, DueNow
<1>6. next[alarm] = IF m = n THEN Head ELSE s[m + 1]
  BY <1>2, <1>5 DEF Chain
<1>7. m # n => m + 1 \in 1 .. n /\ s[m + 1] \in Alarms /\ s[m + 1] # Head /\ s[m + 1] # NoAlarm
  BY <1>2, <1>5, HeadApart
<1>8. /\ rollover' \in [Alarms -> BOOLEAN] /\ (rollover'[alarm] <=> time[alarm] < alt_nticks)
      /\ \A b \in Alarms \ {alarm} : rollover'[b] = rollover[b]
  <2>1. Rolled(alarm) \in BOOLEAN /\ rollover \in [Alarms -> BOOLEAN]
    BY <1>4, <1>5 DEF AlarmsTypeOK, Rolled
  <2>2. rollover' \in [Alarms -> BOOLEAN] /\ rollover'[alarm] = Rolled(alarm)
    BY <1>3, <1>5, <2>1
  <2> QED
    BY <1>3, <1>5, <2>1, <2>2
<1>9. \A i \in 1 .. n : i # m => s[i] # alarm /\ s[i] \in Alarms
  BY <1>2, <1>5 DEF Chain
<1>10. \/ Expired(alarm) /\ calling' = TRUE /\ saved' = next[alarm] /\ alarm' = alarm
       \/ /\ ~Expired(alarm) /\ calling' = calling /\ saved' = saved
          /\ alarm' = IF next[alarm] = Head THEN NoAlarm ELSE next[alarm]
  BY DEF Look, Goto
<1>11. m + 1 = n + 1 <=> m = n
  BY <1>2, <1>5
<1>12. Place(n, s, m + 1)'
  <2>1. CASE Expired(alarm)
    <3>1. calling' /\ saved' = next[alarm] /\ alarm' = alarm
      BY <1>10, <2>1
    <3>2. saved' \in Entries /\ saved' # alarm
      BY <1>5, <1>6, <1>7, <1>9, <3>1, HeadApart
    <3> QED
      BY <1>3, <1>6, <1>11, <3>1, <3>2 DEF Place
  <2>2. CASE ~Expired(alarm)
    <3>1. ~calling' /\ saved' = NoAlarm
          /\ alarm' = IF next[alarm] = Head THEN NoAlarm ELSE next[alarm]
      BY <1>3, <1>10, <2>2
    <3>2. m # n => m + 1 <= n
      BY <1>2, <1>5
    <3> QED
      BY <1>6, <1>7, <1>11, <3>1, <3>2 DEF Place
  <2> QED
    BY <2>1, <2>2
<1>13. Flags(n, s, m + 1)'
  <2> SUFFICES ASSUME NEW i \in 1 .. n
               PROVE  /\ i < m + 1 /\ ~(calling' /\ s[i] = alarm') => time[s[i]] # alt_nticks
                      /\ calling' /\ s[i] = alarm' => time[s[i]] = alt_nticks
                      /\ (rollover'[s[i]] <=> time[s[i]] < alt_nticks)
                         \/ (i >= m + 1 /\ alt_nticks = 0)
    BY <1>3 DEF Flags
  <2>1. CASE i = m
    <3>1. ~(i >= m + 1) /\ s[i] = alarm
      BY <1>5, <2>1
    <3> QED
      BY <1>3, <1>5, <1>8, <1>10, <3>1
  <2>2. CASE i # m
    <3>1. (i < m + 1 <=> i < m) /\ (i >= m + 1 <=> i >= m)
      BY <1>5, <2>2
    <3>2. rollover'[s[i]] = rollover[s[i]] /\ s[i] # alarm
      BY <1>8, <1>9, <2>2
    <3>3. calling' => alarm' = alarm
      BY <1>3, <1>10
    <3> QED
      BY <1>2, <1>3, <3>1, <3>2, <3>3 DEF Flags
  <2> QED
    BY <2>1, <2>2
<1>14. Chain(n, s)'
  BY <1>2, <1>3 DEF Chain, Linked, links
<1>15. Lists(n, s, m + 1)
  BY <1>2, <1>5 DEF Lists
<1>16. AlarmsTypeOK'
  <2>1. next[alarm] \in Entries /\ (next[alarm] # Head => next[alarm] \in Alarms)
    BY <1>6, <1>7, HeadApart
  <2>2. alarm' \in Alarms \cup {NoAlarm} /\ saved' \in Entries \cup {NoAlarm}
        /\ calling' \in BOOLEAN
    BY <1>3, <1>4, <1>5, <1>10, <2>1 DEF AlarmsTypeOK
  <2> QED
    BY <1>3, <1>4, <1>8, <2>2 DEF AlarmsTypeOK, links, Entries, Ticks
<1> QED
  BY <1>12, <1>13, <1>14, <1>15, <1>16, ListedSuffices DEF AlarmsInv

\* Looking at an alarm that does not run concerns no other.
LEMMA LostAlarms ==
  ASSUME AlarmsInv, Look, ~Linked(alarm)
  PROVE  AlarmsInv'
<1>1. PICK n, s, m : Lines(n, s, m)
  BY InvHas
<1>2. /\ n \in Nat /\ s \in [1 .. n -> Alarms] /\ m \in 1 .. n + 1
      /\ Chain(n, s) /\ Place(n, s, m) /\ Flags(n, s, m)
  BY <1>1 DEF Lines, Lists
<1>3. /\ UNCHANGED <<alt_tick_rate, alt_nticks, links, time>>
      /\ alarm # NoAlarm /\ ~calling /\ saved = NoAlarm
      /\ rollover' = [rollover EXCEPT ![alarm] = Rolled(alarm)]
  BY <1>2 DEF Look, Place
<1>4. AlarmsTypeOK /\ LinksOK /\ alarm \in Alarms /\ next[alarm] = alarm
  BY <1>3, InvHas DEF AlarmsTypeOK, Linked
<1>5. /\ rollover' \in [Alarms -> BOOLEAN]
      /\ \A b \in Alarms \ {alarm} : rollover'[b] = rollover[b]
  <2>1. Rolled(alarm) \in BOOLEAN /\ rollover \in [Alarms -> BOOLEAN]
    BY <1>4 DEF AlarmsTypeOK, Rolled
  <2> QED
    BY <1>3, <2>1
<1>6. alarm' = alarm /\ calling' \in BOOLEAN /\ saved' = IF calling' THEN alarm ELSE NoAlarm
  <2>1. calling \in BOOLEAN
    BY <1>4 DEF AlarmsTypeOK
  <2> QED
    BY <1>3, <1>4, <2>1, HeadApart DEF Look, Goto
<1>7. \A i \in 1 .. n : s[i] # alarm /\ s[i] \in Alarms
  BY <1>2, <1>4 DEF Chain
<1>8. Place(n, s, m)'
  <2>1. ~Linked(alarm)'
    BY <1>3, <1>4, <1>6 DEF Linked, links
  <2> QED
    BY <1>3, <1>4, <1>6, <2>1, HeadApart DEF Place, Gone
<1>9. Flags(n, s, m)'
  BY <1>2, <1>3, <1>5, <1>6, <1>7 DEF Flags
<1>10. Chain(n, s)'
  BY <1>2, <1>3 DEF Chain, Linked, links
<1>11. Lists(n, s, m)
  BY <1>2 DEF Lists
<1>12. AlarmsTypeOK'
  <2>1. alarm' \in Alarms \cup {NoAlarm} /\ saved' \in Entries \cup {NoAlarm}
    BY <1>4, <1>6, HeadApart
  <2> QED
    BY <1>3, <1>4, <1>5, <1>6, <2>1 DEF AlarmsTypeOK, links, Entries, Ticks
<1> QED
  BY <1>8, <1>9, <1>10, <1>11, <1>12, ListedSuffices DEF AlarmsInv

\* While a callback runs its alarm is due, if it still runs, and alt_tick goes on
\* with the one it has taken for the next, if that still runs.
LEMMA Returning ==
  ASSUME AlarmsInv, NEW n, NEW s, NEW m, Lines(n, s, m), calling
  PROVE  /\ alarm \in Alarms /\ saved \in Entries
         /\ Gone(saved) \/ saved = IF m = n + 1 THEN Head ELSE s[m]
         /\ Linked(alarm) => saved # alarm /\ time[alarm] = alt_nticks
         /\ \A i \in 1 .. n : s[i] = alarm => Linked(alarm)
         /\ Linked(alarm) => \E i \in 1 .. n : s[i] = alarm
         /\ m # n + 1 => m \in 1 .. n /\ s[m] \in Alarms /\ s[m] # Head /\ s[m] # NoAlarm
<1>1. /\ n \in Nat /\ s \in [1 .. n -> Alarms] /\ m \in 1 .. n + 1
      /\ Chain(n, s) /\ Place(n, s, m) /\ Flags(n, s, m)
  BY DEF Lines, Lists
<1>2. /\ alarm \in Alarms /\ saved \in Entries /\ (Linked(alarm) => saved # alarm)
      /\ Gone(saved) \/ saved = IF m = n + 1 THEN Head ELSE s[m]
  BY <1>1, InvHas DEF AlarmsTypeOK, Place
<1>3. m # n + 1 => m \in 1 .. n /\ s[m] \in Alarms /\ s[m] # Head /\ s[m] # NoAlarm
  BY <1>1, HeadApart
<1>4. Linked(alarm) <=> \E i \in 1 .. n : s[i] = alarm
  BY <1>1, <1>2 DEF Chain
<1>5. \A i \in 1 .. n : s[i] = alarm => time[alarm] = alt_nticks
  BY <1>1 DEF Flags
<1> QED
  BY <1>2, <1>3, <1>4, <1>5

\* The callback ends its alarm.
LEMMA EndAlarms ==
  ASSUME AlarmsInv, CallbackReturns(0), Linked(alarm)
  PROVE  AlarmsInv'
<1>1. PICK n, s, m : Lines(n, s, m)
  BY InvHas
<1>2. /\ n \in Nat /\ s \in [1 .. n -> Alarms] /\ m \in 1 .. n + 1
      /\ Chain(n, s) /\ Place(n, s, m) /\ Flags(n, s, m)
  BY <1>1 DEF Lines, Lists
<1>3. /\ UNCHANGED <<alt_tick_rate, alt_nticks, time, rollover>>
      /\ calling /\ calling' = FALSE /\ saved' = NoAlarm /\ Remove(alarm)
      /\ alarm' = IF saved = Head THEN NoAlarm ELSE saved
  BY DEF CallbackReturns, Goto
<1>4. /\ alarm \in Alarms /\ saved \in Entries
      /\ Gone(saved) \/ saved = IF m = n + 1 THEN Head ELSE s[m]
      /\ saved # alarm
      /\ m # n + 1 => m \in 1 .. n /\ s[m] \in Alarms /\ s[m] # Head /\ s[m] # NoAlarm
      /\ \E i \in 1 .. n : s[i] = alarm
  BY <1>1, <1>3, Returning
<1>5. PICK k \in 1 .. n : s[k] = alarm
  BY <1>4
<1> DEFINE t == Without(k, n, s)
           l == Closer(k, m)
<1>6. Gone(saved) \/ k # m
  BY <1>2, <1>4, <1>5
<1>7. AlarmsTypeOK /\ LinksOK /\ Remove(s[k])
  BY <1>3, <1>5, InvHas
<1>8. /\ LinksOK' /\ n - 1 \in Nat /\ t \in [1 .. n - 1 -> Alarms] /\ Chain(n - 1, t)'
      /\ \A b \in Alarms : Linked(b)' <=> Linked(b) /\ b # alarm
  BY <1>2, <1>5, <1>7, RemoveChain DEF Linked
<1>9. /\ l \in 1 .. n /\ (k # m => (l = n <=> m = n + 1) /\ (l # n => t[l] = s[m]))
      /\ \A i \in 1 .. n - 1 : \E x \in 1 .. n :
           t[i] = s[x] /\ s[x] # s[k] /\ (x < m <=> i < l)
  <2>1. StillAhead(n, s, m, k)
    BY <1>2, WithoutPlace
  <2> QED
    BY <2>1 DEF StillAhead
<1> HIDE DEF t, l
<1>10. Place(n - 1, t, l)'
  <2>1. CASE Gone(saved)
    <3>1. PICK e \in Alarms : e = saved /\ ~Linked(e) /\ e # Head /\ e # NoAlarm
      BY <2>1, HeadApart DEF Gone
    <3>2. alarm' = e /\ ~Linked(e)'
      BY <1>3, <1>8, <3>1
    <3>3. ~Linked(alarm)'
      BY <3>2 DEF Linked
    <3> QED
      BY <1>3, <3>1, <3>2, <3>3 DEF Place
  <2>2. CASE ~Gone(saved)
    <3>1. (l = n - 1 + 1 <=> m = n + 1) /\ (l # n => l <= n - 1 /\ t[l] = s[m])
      BY <1>2, <1>6, <1>9, <2>2
    <3> QED
      BY <1>2, <1>3, <1>4, <2>2, <3>1 DEF Place
  <2> QED
    BY <2>1, <2>2
<1>11. Flags(n - 1, t, l)'
  <2> SUFFICES ASSUME NEW i \in 1 .. n - 1
               PROVE  /\ i < l => time[t[i]] # alt_nticks
                      /\ (rollover[t[i]] <=> time[t[i]] < alt_nticks)
                         \/ (i >= l /\ alt_nticks = 0)
    BY <1>3 DEF Flags
  <2>1. PICK x \in 1 .. n : t[i] = s[x] /\ s[x] # alarm /\ (x < m <=> i < l)
    BY <1>5, <1>9
  <2>2. x >= m <=> i >= l
    BY <1>2, <1>9, <2>1
  <2> QED
    BY <1>2, <2>1, <2>2 DEF Flags
<1>12. Lists(n - 1, t, l)
  BY <1>2, <1>8, <1>9 DEF Lists
<1>13. AlarmsTypeOK'
  <2>1. AlarmsTypeOK /\ alarm' \in Alarms \cup {NoAlarm}
    BY <1>3, <1>4, <1>7, HeadApart DEF Entries
  <2> QED
    BY <1>3, <1>8, <2>1, TypesThen DEF AlarmsTypeOK
<1> QED
  BY <1>8, <1>10, <1>11, <1>12, <1>13, ListedSuffices DEF AlarmsInv

\* Removing an alarm that does not run does nothing.
LEMMA RemoveNothing ==
  ASSUME LinksOK, NEW a \in Alarms, ~Linked(a), Remove(a)
  PROVE  UNCHANGED links
<1>1. a \in Entries /\ next[a] = a /\ previous[a] = a
  BY HeadApart DEF LinksOK, Linked
<1>2. next' = next
  BY <1>1 DEF Remove, LinksOK
<1>3. previous' = previous
  BY <1>1 DEF Remove, LinksOK
<1> QED
  BY <1>2, <1>3 DEF links

\* The callback has its alarm go on, or has stopped it.
LEMMA AgainAlarms ==
  ASSUME AlarmsInv, NEW period \in 0 .. MaxPeriod, CallbackReturns(period),
         period # 0 \/ ~Linked(alarm)
  PROVE  AlarmsInv'
<1>1. PICK n, s, m : Lines(n, s, m)
  BY InvHas
<1>2. /\ n \in Nat /\ s \in [1 .. n -> Alarms] /\ m \in 1 .. n + 1
      /\ Chain(n, s) /\ Place(n, s, m) /\ Flags(n, s, m)
  BY <1>1 DEF Lines, Lists
<1>3. /\ UNCHANGED <<alt_tick_rate, alt_nticks>>
      /\ calling /\ calling' = FALSE /\ saved' = NoAlarm
      /\ alarm' = IF saved = Head THEN NoAlarm ELSE saved
  BY DEF CallbackReturns, Goto
<1>4. /\ alarm \in Alarms /\ saved \in Entries
      /\ Gone(saved) \/ saved = IF m = n + 1 THEN Head ELSE s[m]
      /\ Linked(alarm) => time[alarm] = alt_nticks
      /\ m # n + 1 => m \in 1 .. n /\ s[m] \in Alarms /\ s[m] # Head /\ s[m] # NoAlarm
      /\ \A i \in 1 .. n : s[i] = alarm => Linked(alarm)
  BY <1>1, <1>3, Returning
<1>5. AlarmsTypeOK /\ LinksOK
  BY InvHas
<1>6. UNCHANGED links
  BY <1>4, <1>5, RemoveNothing DEF CallbackReturns
<1>7. /\ time' \in [Alarms -> Ticks] /\ rollover' \in [Alarms -> BOOLEAN]
      /\ \A b \in Alarms \ {alarm} : time'[b] = time[b] /\ rollover'[b] = rollover[b]
      /\ Linked(alarm) => /\ time'[alarm] # alt_nticks
                          /\ rollover'[alarm] <=> time'[alarm] < alt_nticks
  <2>1. CASE period = 0
    BY <1>5, <2>1 DEF CallbackReturns, AlarmsTypeOK
  <2>2. CASE period # 0
    <3> DEFINE x == (time[alarm] + period) % Wrap
    <3>1. /\ period \in Ticks /\ period \in 1 .. MaxPeriod + 1
          /\ time[alarm] \in Ticks
      BY <1>4, <1>5, <2>2, AlarmsAssumption DEF AlarmsTypeOK, Ticks
    <3>2. x \in Ticks /\ (time[alarm] = alt_nticks => x # alt_nticks)
      BY <3>1, PlusIs, Ahead
    <3> HIDE DEF x
    <3>3. time' = [time EXCEPT ![alarm] = x]
      BY <2>2 DEF CallbackReturns, x
    <3>4. time' \in [Alarms -> Ticks] /\ time'[alarm] = x
      BY <1>4, <1>5, <3>2, <3>3 DEF AlarmsTypeOK
    <3>5. rollover' = [rollover EXCEPT ![alarm] = x < alt_nticks]
      BY <2>2, <3>4 DEF CallbackReturns
    <3>6. rollover \in [Alarms -> BOOLEAN] /\ (x < alt_nticks) \in BOOLEAN
      BY <1>5 DEF AlarmsTypeOK
    <3>7. rollover' \in [Alarms -> BOOLEAN] /\ rollover'[alarm] = (x < alt_nticks)
      BY <1>4, <3>5, <3>6
    <3>8. \A b \in Alarms \ {alarm} : time'[b] = time[b] /\ rollover'[b] = rollover[b]
      BY <1>5, <3>3, <3>5 DEF AlarmsTypeOK
    <3>9. Linked(alarm) => time[alarm] = alt_nticks
      BY <1>4
    <3> QED
      BY <3>2, <3>4, <3>7, <3>8, <3>9
  <2> QED
    BY <2>1, <2>2
<1>8. Place(n, s, m)'
  <2>1. CASE Gone(saved)
    <3>1. saved # Head /\ saved # NoAlarm /\ alarm' = saved
      BY <1>3, <2>1, HeadApart DEF Gone
    <3>2. ~Linked(alarm)'
      BY <1>6, <2>1, <3>1 DEF Gone, Linked, links
    <3> QED
      BY <1>3, <3>1, <3>2 DEF Place
  <2>2. CASE ~Gone(saved)
    <3>1. m # n + 1 => m <= n
      BY <1>2
    <3> QED
      BY <1>3, <1>4, <2>2, <3>1 DEF Place
  <2> QED
    BY <2>1, <2>2
<1>9. Flags(n, s, m)'
  <2> SUFFICES ASSUME NEW i \in 1 .. n
               PROVE  /\ i < m => time'[s[i]] # alt_nticks
                      /\ (rollover'[s[i]] <=> time'[s[i]] < alt_nticks)
                         \/ (i >= m /\ alt_nticks = 0)
    BY <1>3 DEF Flags
  <2>1. CASE s[i] = alarm
    <3>1. Linked(alarm)
      BY <1>4, <2>1
    <3> QED
      BY <1>7, <2>1, <3>1
  <2>2. CASE s[i] # alarm
    BY <1>2, <1>7, <2>2 DEF Flags
  <2> QED
    BY <2>1, <2>2
<1>10. Chain(n, s)'
  BY <1>2, <1>6 DEF Chain, Linked, links
<1>11. Lists(n, s, m)
  BY <1>2 DEF Lists
<1>12. AlarmsTypeOK'
  <2>1. alarm' \in Alarms \cup {NoAlarm}
    BY <1>3, <1>4, HeadApart DEF Entries
  <2> QED
    BY <1>3, <1>5, <1>6, <1>7, <2>1 DEF AlarmsTypeOK, links, Entries, Ticks
<1> QED
  BY <1>8, <1>9, <1>10, <1>11, <1>12, ListedSuffices DEF AlarmsInv

LEMMA NextAlarms == AlarmsInv /\ [AlarmsNext]_alarmVars => AlarmsInv'
<1> SUFFICES ASSUME AlarmsInv, [AlarmsNext]_alarmVars PROVE AlarmsInv'
  OBVIOUS
<1>1. alt_tick_rate \in BOOLEAN
  BY InvHas DEF AlarmsTypeOK
<1>2. CASE SysclkInit
  BY <1>2, SameAlarms DEF SysclkInit
<1>3. CASE Tick
  BY <1>3, TickAlarms
<1>4. CASE Look
  BY <1>4, LookAlarms, LostAlarms
<1>5. ASSUME NEW period \in 0 .. MaxPeriod, CallbackReturns(period) PROVE AlarmsInv'
  <2>1. CASE period = 0 /\ Linked(alarm)
    BY <1>5, <2>1, EndAlarms
  <2>2. CASE period # 0 \/ ~Linked(alarm)
    BY <1>5, <2>2, AgainAlarms
  <2> QED
    BY <2>1, <2>2
<1>6. ASSUME NEW a \in Alarms, AlarmStop(a) PROVE AlarmsInv'
  BY <1>6, StopAlarms
<1>7. ASSUME NEW a \in Alarms, NEW nticks \in 0 .. MaxPeriod, AlarmStart(a, nticks)
      PROVE  AlarmsInv'
  BY <1>7, StartAlarms
<1>8. CASE UNCHANGED alarmVars
  BY <1>1, <1>8, SameAlarms DEF alarmVars
<1> QED
  BY <1>2, <1>3, <1>4, <1>5, <1>6, <1>7, <1>8 DEF AlarmsNext, Process

LEMMA AlarmsInvariance == AlarmsSpec => []AlarmsInv
<1> QED
  BY InitAlarms, NextAlarms, PTL DEF AlarmsSpec

\* The types are right, and the list's links agree in both directions, whatever
\* the callbacks start and stop while alt_tick walks the list.
THEOREM AlarmsTypeCorrect == AlarmsSpec => []AlarmsTypeOK
<1>1. AlarmsInv => AlarmsTypeOK
  BY DEF AlarmsInv
<1> QED
  BY <1>1, AlarmsInvariance, PTL
-----------------------------------------------------------------------------
\* The refinement: each step of the list is one of the timers.
On == {b \in Alarms : Linked(b)}
LeftOf(a) == (time[a] - alt_nticks) % Wrap
Left == [a \in On |-> LeftOf(a)]

LEMMA LeftSame ==
  ASSUME UNCHANGED <<alt_nticks, links, time>>
  PROVE  Left' = Left
<1>1. On' = On
  BY DEF On, Linked, links
<1>2. \A a \in On : LeftOf(a)' = LeftOf(a)
  BY DEF LeftOf
<1> QED
  BY <1>1, <1>2 DEF Left

LEMMA InitTimers == AlarmsInit => OnTime!Init
<1> SUFFICES ASSUME AlarmsInit PROVE Left = [a \in {} |-> 0]
  BY DEF OnTime!Init, Left, On, LeftOf
<1>1. On = {}
  BY DEF AlarmsInit, On, Linked, Entries
<1> QED
  BY <1>1 DEF Left

LEMMA TickTimers ==
  ASSUME AlarmsInv, Tick
  PROVE  /\ \A a \in On : Left[a] > 0
         /\ Left' = [a \in On |-> Left[a] - 1]
<1>1. PICK n, s, m : Lines(n, s, m)
  BY InvHas
<1>2. /\ n \in Nat /\ s \in [1 .. n -> Alarms] /\ m = n + 1 /\ ~calling
      /\ Chain(n, s) /\ Flags(n, s, m)
  BY <1>1 DEF Lines, Lists, Tick, Place
<1>3. /\ alt_nticks \in Ticks /\ time \in [Alarms -> Ticks]
      /\ alt_nticks' = (alt_nticks + 1) % Wrap /\ time' = time
  BY InvHas DEF AlarmsTypeOK, Tick
<1>4. ASSUME NEW a \in On PROVE time[a] # alt_nticks /\ time[a] \in Ticks
  <2>1. PICK i \in 1 .. n : s[i] = a
    BY <1>2 DEF Chain, On
  <2>2. i < m
    BY <1>2
  <2> QED
    BY <1>2, <1>3, <2>1, <2>2 DEF Flags, On
<1>5. ASSUME NEW a \in On PROVE LeftOf(a) > 0 /\ LeftOf(a)' = LeftOf(a) - 1
  <2>1. (time[a] - alt_nticks) % Wrap # 0
        /\ (time[a] - ((alt_nticks + 1) % Wrap)) % Wrap = ((time[a] - alt_nticks) % Wrap) - 1
    BY <1>3, <1>4, Countdown
  <2>2. (time[a] - alt_nticks) % Wrap \in Ticks
    BY <1>3, <1>4, LeftIs
  <2>3. (time[a] - alt_nticks) % Wrap > 0
    BY <2>1, <2>2, AlarmsAssumption DEF Ticks
  <2>4. LeftOf(a)' = (time[a] - ((alt_nticks + 1) % Wrap)) % Wrap
    BY <1>3 DEF LeftOf
  <2> QED
    BY <2>1, <2>3, <2>4 DEF LeftOf
<1>6. On' = On
  BY DEF On, Linked, Tick, links
<1> QED
  BY <1>5, <1>6 DEF Left

LEMMA StartTimers ==
  ASSUME AlarmsInv, NEW a \in Alarms, NEW nticks \in 0 .. MaxPeriod, AlarmStart(a, nticks)
  PROVE  /\ a \notin On /\ nticks + 1 \in 1 .. MaxPeriod + 1
         /\ Left' = [b \in On \cup {a} |-> IF b = a THEN nticks + 1 ELSE Left[b]]
<1>1. /\ LinksOK /\ ~Linked(a) /\ Insert(a) /\ alt_nticks' = alt_nticks
      /\ alt_nticks \in Ticks /\ time \in [Alarms -> Ticks]
      /\ time' = [time EXCEPT ![a] = (nticks + alt_nticks + 1) % Wrap]
  BY InvHas DEF AlarmsTypeOK, AlarmStart
<1>2. /\ nticks + 1 \in 1 .. MaxPeriod + 1
      /\ nticks + alt_nticks + 1 = alt_nticks + (nticks + 1)
  BY <1>1, AlarmsAssumption DEF Ticks
<1>3. LeftOf(a)' = nticks + 1
  <2>1. LeftOf(a)' = (((alt_nticks + (nticks + 1)) % Wrap) - alt_nticks) % Wrap
    BY <1>1, <1>2 DEF LeftOf
  <2> QED
    BY <1>1, <1>2, <2>1, Ahead
<1>4. \A b \in On : b # a /\ LeftOf(b)' = LeftOf(b)
  BY <1>1 DEF LeftOf, On
<1>5. On' = On \cup {a}
  <2>1. a \in Entries /\ a # Head /\ next[a] = a /\ Head \in Entries
    BY <1>1, HeadApart DEF Linked
  <2>2. next[Head] # a
    BY <1>1, <2>1 DEF LinksOK
  <2>3. next'[a] = next[Head] /\ \A b \in Alarms \ {a} : next'[b] = next[b]
    BY <1>1, <2>1, HeadApart DEF Insert, LinksOK
  <2> QED
    BY <2>2, <2>3 DEF On, Linked
<1>6. Left' = [b \in On' |-> LeftOf(b)']
  BY DEF Left
<1> QED
  BY <1>1, <1>2, <1>3, <1>4, <1>5, <1>6 DEF Left, On

LEMMA StopTimers ==
  ASSUME AlarmsInv, NEW a \in Alarms, Linked(a), Remove(a), UNCHANGED <<alt_nticks, time>>
  PROVE  Left' = [b \in On \ {a} |-> Left[b]]
<1>1. PICK n, s, m : Lines(n, s, m)
  BY InvHas
<1>2. n \in Nat /\ s \in [1 .. n -> Alarms] /\ Chain(n, s) /\ LinksOK
  BY <1>1, InvHas DEF Lines, Lists
<1>3. PICK k \in 1 .. n : s[k] = a
  BY <1>2 DEF Chain
<1>4. \A b \in Alarms : next'[b] # b <=> next[b] # b /\ b # a
  BY <1>2, <1>3, RemoveChain
<1>5. On' = On \ {a}
  BY <1>4 DEF On, Linked
<1>6. \A b \in On : LeftOf(b)' = LeftOf(b)
  BY DEF LeftOf
<1> QED
  BY <1>5, <1>6 DEF Left

LEMMA ReturnTimers ==
  ASSUME AlarmsInv, NEW period \in 0 .. MaxPeriod, CallbackReturns(period)
  PROVE  \/ Left' = Left
         \/ alarm \in On /\ alarm \in Alarms /\ Left' = [b \in On \ {alarm} |-> Left[b]]
         \/ /\ alarm \in On /\ alarm \in Alarms /\ Left[alarm] = 0
            /\ period \in 1 .. MaxPeriod + 1 /\ Left' = [Left EXCEPT ![alarm] = period]
<1>1. PICK n, s, m : Lines(n, s, m)
  BY InvHas
<1>2. /\ alarm \in Alarms /\ (Linked(alarm) => time[alarm] = alt_nticks)
      /\ LinksOK /\ alt_nticks \in Ticks /\ time \in [Alarms -> Ticks]
      /\ alt_nticks' = alt_nticks
  BY <1>1, InvHas, Returning DEF AlarmsTypeOK, CallbackReturns
<1>3. CASE ~Linked(alarm)
  <2>1. UNCHANGED links
    BY <1>2, <1>3, RemoveNothing DEF CallbackReturns
  <2>2. On' = On
    BY <2>1 DEF On, Linked, links
  <2>3. \A b \in On : LeftOf(b)' = LeftOf(b)
    <3>1. \A b \in On : time'[b] = time[b]
      BY <1>2, <1>3 DEF CallbackReturns, On
    <3> QED
      BY <1>2, <3>1 DEF LeftOf
  <2> QED
    BY <2>2, <2>3 DEF Left
<1>4. CASE Linked(alarm) /\ period = 0
  <2>1. Remove(alarm) /\ UNCHANGED <<alt_nticks, time>>
    BY <1>4 DEF CallbackReturns
  <2> QED
    BY <1>2, <1>4, <2>1, StopTimers DEF On
<1>5. CASE Linked(alarm) /\ period # 0
  <2>1. PICK a \in Alarms : a = alarm
    BY <1>2
  <2>2. /\ period \in 1 .. MaxPeriod + 1 /\ UNCHANGED links
        /\ time' = [time EXCEPT ![a] = (alt_nticks + period) % Wrap]
    BY <1>2, <1>5, <2>1, AlarmsAssumption DEF CallbackReturns
  <2>3. On' = On /\ a \in On
    BY <1>5, <2>1, <2>2 DEF On, Linked, links
  <2>4. LeftOf(a) = 0
    BY <1>2, <1>5, <2>1, Countdown DEF LeftOf
  <2>5. LeftOf(a)' = period
    <3>1. LeftOf(a)' = (((alt_nticks + period) % Wrap) - alt_nticks) % Wrap
      BY <1>2, <2>2 DEF LeftOf
    <3> QED
      BY <1>2, <2>2, <3>1, Ahead
  <2>6. \A b \in On \ {a} : LeftOf(b)' = LeftOf(b)
    BY <1>2, <2>2 DEF LeftOf, On
  <2>7. Left[a] = 0
    BY <2>3, <2>4 DEF Left
  <2>8. Left' = [Left EXCEPT ![a] = period]
    BY <2>3, <2>5, <2>6 DEF Left
  <2> QED
    BY <2>1, <2>2, <2>3, <2>7, <2>8
<1> QED
  BY <1>3, <1>4, <1>5

LEMMA NextTimers == AlarmsInv /\ [AlarmsNext]_alarmVars => [OnTime!Next]_Left
<1> SUFFICES ASSUME AlarmsInv, [AlarmsNext]_alarmVars PROVE OnTime!Next \/ Left' = Left
  OBVIOUS
<1>1. DOMAIN Left = On
  BY DEF Left
<1>2. CASE SysclkInit \/ Look \/ UNCHANGED alarmVars
  BY <1>2, LeftSame DEF SysclkInit, Look, alarmVars
<1>3. CASE Tick
  BY <1>1, <1>3, TickTimers DEF OnTime!Next, OnTime!Tick, OnTime!Running, Left, On, LeftOf
<1>4. ASSUME NEW a \in Alarms, NEW nticks \in 0 .. MaxPeriod, AlarmStart(a, nticks)
      PROVE  OnTime!Next
  BY <1>1, <1>4, StartTimers DEF OnTime!Next, OnTime!Start, OnTime!Running, Left, On, LeftOf
<1>5. ASSUME NEW a \in Alarms, AlarmStop(a)
      PROVE  OnTime!Next
  BY <1>1, <1>5, StopTimers DEF AlarmStop, OnTime!Next, OnTime!Stop, OnTime!Running, Left, On, LeftOf
<1>6. ASSUME NEW period \in 0 .. MaxPeriod, CallbackReturns(period)
      PROVE  OnTime!Next \/ Left' = Left
  BY <1>1, <1>6, ReturnTimers
  DEF OnTime!Next, OnTime!Stop, OnTime!Serve, OnTime!Running, Left, On, LeftOf
<1> QED
  BY <1>2, <1>3, <1>4, <1>5, <1>6 DEF AlarmsNext, Process

\* Every alarm is called on the very tick it was meant for, neither early nor
\* late, for every number of alarms and every width of the counter: the alarms
\* and alt_tick implement the timers.
THEOREM TimersRefinement == AlarmsSpec => IsTimers
<1>1. AlarmsInv /\ [AlarmsNext]_alarmVars => [OnTime!Next]_Left
  BY NextTimers
<1> QED
  BY <1>1, InitTimers, AlarmsInvariance, PTL
  DEF AlarmsSpec, IsTimers, OnTime!Spec, Left, On, LeftOf
-----------------------------------------------------------------------------
(***************************************************************************)
(* The two side by side, as the run checks them.                           *)
(***************************************************************************)
LEMMA HalInv == HalSpec => [](IInv /\ AlarmsInv)
<1>1. HalInit => IInv /\ AlarmsInv
  BY InitInv, InitAlarms DEF HalInit
<1>2. IInv /\ AlarmsInv /\ [HalNext]_<<fileVars, alarmVars>> => (IInv /\ AlarmsInv)'
  BY NextInv, NextAlarms DEF HalNext
<1> QED
  BY <1>1, <1>2, PTL DEF HalSpec

\* Type correctness: of the descriptors, and of the list of alarms.
THEOREM HalTypeCorrect == HalSpec => []HalTypeOK
<1>1. IInv /\ AlarmsInv => HalTypeOK
  BY DEF IInv, AlarmsInv, HalTypeOK
<1> QED
  BY <1>1, HalInv, PTL
=============================================================================
