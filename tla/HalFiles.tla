------------------------------ MODULE HalFiles ------------------------------
(***************************************************************************)
(* File descriptors of the HAL.  alt_main registers the devices, redirects *)
(* the three standard descriptors, which start on /dev/null, to the JTAG   *)
(* UART and calls main; a program then opens and closes devices, sets      *)
(* flags, and locks a device for exclusive access (TIOCEXCL).  There is    *)
(* one thread and no file system: alt_fs_list stays empty.  What read and  *)
(* write do to the UART is JtagUart's; the devices' open is null, and      *)
(* close() releases a descriptor whatever the driver's close returns.      *)
(***************************************************************************)
EXTENDS Integers, FiniteSetsExt, Sequences

CONSTANTS
  ALT_MAX_FD,
  Names,         \* what open() is called with
  alt_dev_null,  \* /dev/null
  jtag_uart_0,   \* /dev/jtag_uart_0
  NULL,
  OpenFlags,     \* the flags open() is called with
  StatusFlags    \* O_APPEND and O_NONBLOCK, which F_SETFL may change

STDIN_FILENO  == 0
STDOUT_FILENO == 1
STDERR_FILENO == 2

HalFlags == {"ALT_FD_EXCL", "ALT_FD_DEV"}
AllFlags == (UNION OpenFlags) \union StatusFlags \union HalFlags \union {"O_WRONLY"}
Fds      == 0 .. ALT_MAX_FD - 1
Std      == {STDIN_FILENO, STDOUT_FILENO, STDERR_FILENO}

ASSUME FilesAssumption ==
  /\ ALT_MAX_FD \in Nat /\ ALT_MAX_FD > 3
  /\ alt_dev_null # jtag_uart_0 /\ NULL \notin {alt_dev_null, jtag_uart_0}
  /\ StatusFlags \intersect (HalFlags \union {"O_WRONLY"}) = {}

VARIABLES
  stage,         \* what alt_main does next
  alt_dev_list,  \* the devices registered
  dev, fd_flags, \* alt_fd_list
  alt_max_fd,
  held           \* descriptors open() returned and nobody has closed since

vars == <<stage, alt_dev_list, dev, fd_flags, alt_max_fd, held>>

TypeOK ==
  /\ stage \in {"alt_sys_init", "stdout", "stdin", "stderr", "main", "exit"}
  /\ alt_dev_list \subseteq {alt_dev_null, jtag_uart_0}
  /\ dev \in [Fds -> {alt_dev_null, jtag_uart_0, NULL}]
  /\ fd_flags \in [Fds -> SUBSET AllFlags]
  /\ alt_max_fd \in -1 .. ALT_MAX_FD - 1
  /\ held \subseteq Fds \ Std

Init ==
  /\ stage = "alt_sys_init"
  /\ alt_dev_list = {alt_dev_null}
  /\ dev = [fd \in Fds |-> IF fd \in Std THEN alt_dev_null ELSE NULL]
  /\ fd_flags = [fd \in Fds |-> {}]
  /\ alt_max_fd = -1
  /\ held = {}

alt_sys_init ==
  /\ stage = "alt_sys_init"
  /\ stage' = "stdout"
  /\ alt_dev_list' = alt_dev_list \union {jtag_uart_0}
  /\ UNCHANGED <<dev, fd_flags, alt_max_fd, held>>

(***************************************************************************)
(* open(): the first free descriptor is taken, alt_max_fd goes up to it    *)
(* and stays there, and a locked device is found out only then.            *)
(***************************************************************************)
Free == { fd \in Fds : dev[fd] = NULL }

alt_get_fd == Min(Free)

Highest == Max({alt_max_fd, alt_get_fd})

(* The descriptor at alt_max_fd is left out. *)
LockedBelow(d) ==
  \E i \in (0 .. Highest - 1) \ {alt_get_fd} : dev[i] = d /\ "ALT_FD_EXCL" \in fd_flags[i]

alt_file_locked(d) ==
  \E i \in (0 .. Highest) \ {alt_get_fd} : dev[i] = d /\ "ALT_FD_EXCL" \in fd_flags[i]

Found(d)    == d \in alt_dev_list /\ Free # {}
CanOpen(d)  == Found(d) /\ ~alt_file_locked(d)

OpenedFlags(flags) == (flags \ HalFlags) \union {"ALT_FD_DEV"}

Open(d, flags) ==
  /\ CanOpen(d)
  /\ dev' = [dev EXCEPT ![alt_get_fd] = d]
  /\ fd_flags' = [fd_flags EXCEPT ![alt_get_fd] = OpenedFlags(flags)]
  /\ alt_max_fd' = Highest
  /\ held' = held \union {alt_get_fd}

(* The early return leaves the descriptor taken. *)
OpenFailsUnreleased(d) ==
  /\ ~CanOpen(d)
  /\ IF Found(d) THEN alt_max_fd' = Highest /\ dev' = [dev EXCEPT ![alt_get_fd] = d]
                 ELSE UNCHANGED <<alt_max_fd, dev>>
  /\ UNCHANGED <<fd_flags, held>>

OpenFails(d) ==
  /\ ~CanOpen(d)
  /\ alt_max_fd' = IF Found(d) THEN Highest ELSE alt_max_fd
  /\ UNCHANGED <<dev, fd_flags, held>>

(* alt_open_fd opens, copies and releases. *)
alt_open_fd(std, d, flags) ==
  /\ IF CanOpen(d)
       THEN /\ dev' = [dev EXCEPT ![std] = d]
            /\ fd_flags' = [fd_flags EXCEPT ![std] = OpenedFlags(flags)]
       ELSE UNCHANGED <<dev, fd_flags>>
  /\ alt_max_fd' = IF Found(d) THEN Highest ELSE alt_max_fd
  /\ UNCHANGED <<alt_dev_list, held>>

alt_io_redirect ==
  \/ stage = "stdout" /\ alt_open_fd(STDOUT_FILENO, jtag_uart_0, {"O_WRONLY"}) /\ stage' = "stdin"
  \/ stage = "stdin"  /\ alt_open_fd(STDIN_FILENO, jtag_uart_0, {}) /\ stage' = "stderr"
  \/ stage = "stderr" /\ alt_open_fd(STDERR_FILENO, jtag_uart_0, {"O_WRONLY"}) /\ stage' = "main"

(* Standard descriptors are released like any other. *)
ReleaseAny(fd) ==
  /\ dev' = [dev EXCEPT ![fd] = NULL]
  /\ fd_flags' = [fd_flags EXCEPT ![fd] = {}]

alt_release_fd(fd) ==
  IF fd \in Std THEN UNCHANGED <<dev, fd_flags>>
  ELSE /\ dev' = [dev EXCEPT ![fd] = NULL]
       /\ fd_flags' = [fd_flags EXCEPT ![fd] = {}]

Close(fd) ==
  /\ alt_release_fd(fd)
  /\ held' = held \ {fd}
  /\ UNCHANGED <<alt_dev_list, alt_max_fd>>

(* fcntl(fd, F_SETFL, flags). *)
SetFlags(fd, flags) ==
  /\ fd_flags' = [fd_flags EXCEPT ![fd] = (@ \ StatusFlags) \union (flags \intersect StatusFlags)]
  /\ UNCHANGED <<alt_dev_list, dev, alt_max_fd, held>>

(* ioctl(fd, TIOCEXCL) and ioctl(fd, TIOCNXCL). *)

(* Only a locked descriptor counts. *)
OthersLocked(fd) ==
  { i \in 0 .. alt_max_fd - 1 : i # fd /\ dev[i] = dev[fd] /\ "ALT_FD_EXCL" \in fd_flags[i] }

Others(fd) == { i \in 0 .. alt_max_fd - 1 : i # fd /\ dev[i] = dev[fd] }

alt_fd_lock(fd) ==
  /\ "ALT_FD_DEV" \in fd_flags[fd] /\ Others(fd) = {}
  /\ fd_flags' = [fd_flags EXCEPT ![fd] = @ \union {"ALT_FD_EXCL"}]
  /\ UNCHANGED <<alt_dev_list, dev, alt_max_fd, held>>

alt_fd_unlock(fd) ==
  /\ "ALT_FD_DEV" \in fd_flags[fd]
  /\ fd_flags' = [fd_flags EXCEPT ![fd] = @ \ {"ALT_FD_EXCL"}]
  /\ UNCHANGED <<alt_dev_list, dev, alt_max_fd, held>>

(* main uses the standard descriptors and what it holds.                   *)
main ==
  /\ stage = "main"
  /\ UNCHANGED stage
  /\ \/ \E d \in Names : \/ \E flags \in OpenFlags : Open(d, flags) /\ UNCHANGED alt_dev_list
                         \/ OpenFails(d) /\ UNCHANGED alt_dev_list
     \/ \E fd \in Std \union held :
          \/ Close(fd)
          \/ \E flags \in SUBSET (StatusFlags \union HalFlags) : SetFlags(fd, flags)
          \/ alt_fd_lock(fd)
          \/ alt_fd_unlock(fd)

(* main returns, alt_main closes standard output and calls exit(), which   *)
(* ends in a loop.                                                         *)
MainReturns ==
  /\ stage = "main"
  /\ stage' = "exit"
  /\ Close(STDOUT_FILENO)

Spin == stage = "exit" /\ UNCHANGED vars

Next == alt_sys_init \/ alt_io_redirect \/ main \/ MainReturns \/ Spin

Spec == Init /\ [][Next]_vars

(***************************************************************************)
(* Properties.                                                             *)
(***************************************************************************)
Locked(fd)  == "ALT_FD_EXCL" \in fd_flags[fd]
Sharers(fd) == { i \in Fds \ {fd} : dev[i] = dev[fd] }

(* However calls of open() fail and whatever a driver's close returns, the *)
(* pool holds exactly what the program holds, within alt_max_fd; a free    *)
(* descriptor keeps no flags.                                              *)
NothingLeaks ==
  /\ Fds \ (Std \union Free) = held
  /\ \A fd \in held : fd <= alt_max_fd
  /\ \A fd \in Free : fd_flags[fd] = {}

(* From main to the end of the program the standard descriptors read and   *)
(* write the UART, closed or not, and nobody ever gets it for exclusive    *)
(* access: they share it.                                                  *)
ConsoleStaysOpen ==
  stage \in {"main", "exit"} =>
    /\ \A fd \in Std : dev[fd] = jtag_uart_0
    /\ "O_WRONLY" \in fd_flags[STDOUT_FILENO] /\ "O_WRONLY" \notin fd_flags[STDIN_FILENO]
    /\ \A fd \in Fds : dev[fd] = jtag_uart_0 => ~Locked(fd)

(* As long as a descriptor is locked nobody else gets one for its device.  *)
LockExcludes ==
  [][\A fd \in Fds : Locked(fd) /\ Locked(fd)' => Sharers(fd)' \subseteq Sharers(fd)]_vars

(* A lock is granted only to the sole descriptor of the device, the one at *)
(* alt_max_fd aside, which alt_fd_lock does not look at.                   *)
LockIsAlone ==
  [][\A fd \in Fds : (Locked(fd)' /\ ~Locked(fd)) => Sharers(fd) \subseteq {alt_max_fd}]_vars
=============================================================================
