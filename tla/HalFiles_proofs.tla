-------------------------- MODULE HalFiles_proofs --------------------------
(***************************************************************************)
(* What the descriptor pool guarantees from boot to exit, for every size   *)
(* of the pool, every flags argument and every name that is opened.        *)
(***************************************************************************)
EXTENDS HalFiles, WellFoundedInduction, TLAPS

Booting == {"alt_sys_init", "stdout", "stdin", "stderr"}

(* What alt_main has done by each of its stages.  The first open leaves    *)
(* alt_max_fd above the standard descriptors for good.                     *)
BootInv ==
  /\ stage \in Booting => held = {} /\ \A fd \in Fds : ~Locked(fd)
  /\ stage # "alt_sys_init" => jtag_uart_0 \in alt_dev_list
  /\ \A fd \in Std : dev[fd] # NULL
  /\ stage \notin {"alt_sys_init", "stdout"} =>
       /\ dev[STDOUT_FILENO] = jtag_uart_0 /\ "O_WRONLY" \in fd_flags[STDOUT_FILENO]
       /\ alt_max_fd >= 3
  /\ stage \in {"stderr", "main", "exit"} =>
       dev[STDIN_FILENO] = jtag_uart_0 /\ "O_WRONLY" \notin fd_flags[STDIN_FILENO]
  /\ stage \in {"main", "exit"} => dev[STDERR_FILENO] = jtag_uart_0

(* A descriptor of the console is never locked, as three others have it.   *)
ConsoleFree == \A fd \in Fds : dev[fd] = jtag_uart_0 => ~Locked(fd)

IInv == TypeOK /\ NothingLeaks /\ BootInv /\ ConsoleFree

LEMMA FlagSets ==
  /\ {"O_WRONLY", "ALT_FD_DEV", "ALT_FD_EXCL"} \subseteq AllFlags
  /\ StatusFlags \subseteq AllFlags
  /\ \A flags \in OpenFlags : flags \subseteq AllFlags
  <1>1. HalFlags \subseteq AllFlags /\ "O_WRONLY" \in AllFlags /\ StatusFlags \subseteq AllFlags
    BY DEF AllFlags
  <1>2. UNION OpenFlags \subseteq AllFlags
    BY DEF AllFlags
  <1>3. "ALT_FD_DEV" \in HalFlags /\ "ALT_FD_EXCL" \in HalFlags
    BY DEF HalFlags
  <1> QED
    BY <1>1, <1>2, <1>3

LEMMA LessIsWellFounded == IsWellFoundedOn({ss \in Nat \X Nat : ss[1] < ss[2]}, Nat)
  BY NatLessThanWellFounded, Zenon DEF OpToRel

(* Min is the least element of every set of naturals that has one.         *)
LEMMA MinOfNaturals ==
  ASSUME NEW T \in SUBSET Nat, T # {}
  PROVE  Min(T) \in T /\ \A y \in T : Min(T) <= y
  <1> DEFINE R == {ss \in Nat \X Nat : ss[1] < ss[2]}
  <1>1. PICK x \in T : \A y \in T : ~(<<y, x>> \in R)
    <2>1. IsWellFoundedOn(R, Nat)
      BY LessIsWellFounded
    <2> HIDE DEF R
    <2> QED
      BY <2>1, WFMin
  <1>2. \A y \in T : x <= y
    <2> TAKE y \in T
    <2>1. <<y, x>> \in Nat \X Nat /\ ~(y < x)
      BY <1>1
    <2> QED
      BY <2>1
  <1> QED
    BY <1>2 DEF Min

LEMMA MaxOfTwo ==
  ASSUME NEW a \in Int, NEW b \in Int
  PROVE  Max({a, b}) \in {a, b} /\ Max({a, b}) >= a /\ Max({a, b}) >= b
  <1>1. \E x \in {a, b} : \A y \in {a, b} : x >= y
    <2>1. CASE a >= b
      BY <2>1
    <2>2. CASE b >= a
      BY <2>2
    <2> QED
      BY <2>1, <2>2
  <1> QED
    BY <1>1 DEF Max

(* The descriptor open() takes is free, so none of the standard ones.      *)
LEMMA FreeDescriptor ==
  ASSUME IInv, Free # {}
  PROVE  /\ alt_get_fd \in Fds \ Std /\ dev[alt_get_fd] = NULL /\ alt_get_fd \notin held
         /\ Highest \in 0 .. ALT_MAX_FD - 1 /\ Highest >= alt_max_fd /\ Highest >= alt_get_fd
         /\ Highest \in {alt_max_fd, alt_get_fd}
  <1> USE FilesAssumption
  <1>1. Free \subseteq Nat
    BY DEF Free, Fds
  <1>2. alt_get_fd \in Free
    BY <1>1, MinOfNaturals DEF alt_get_fd
  <1>3. alt_get_fd \in Fds /\ dev[alt_get_fd] = NULL
    BY <1>2 DEF Free
  <1>4. alt_get_fd \notin Std /\ alt_get_fd \notin held
    BY <1>2, <1>3 DEF IInv, BootInv, NothingLeaks
  <1>5. alt_max_fd \in Int /\ alt_get_fd \in Int
    BY <1>3 DEF IInv, TypeOK, Fds
  <1>6. Highest \in {alt_max_fd, alt_get_fd} /\ Highest >= alt_max_fd /\ Highest >= alt_get_fd
    BY <1>5, MaxOfTwo DEF Highest
  <1> QED
    BY <1>3, <1>4, <1>6 DEF IInv, TypeOK, Fds

(* Only descriptors the program holds can be locked.                       *)
LEMMA LockedIsHeld ==
  ASSUME IInv, NEW fd \in Fds, Locked(fd)
  PROVE  fd \in held /\ fd <= alt_max_fd /\ dev[fd] # NULL
  <1>1. fd \notin Free
    BY DEF IInv, NothingLeaks, Locked
  <1>2. fd \notin Std
    <2>1. stage \notin Booting
      BY DEF IInv, BootInv
    <2>2. \A i \in Std : dev[i] = jtag_uart_0
      BY <2>1 DEF IInv, BootInv, TypeOK, Booting, Std
    <2> QED
      BY <2>2 DEF IInv, ConsoleFree
  <1> QED
    BY <1>1, <1>2 DEF IInv, NothingLeaks, Free

LEMMA InitInv == Init => IInv
  <1> SUFFICES ASSUME Init PROVE IInv
    OBVIOUS
  <1> USE FilesAssumption DEF Init
  <1>1. Std \subseteq Fds
    BY DEF Std, Fds, STDIN_FILENO, STDOUT_FILENO, STDERR_FILENO
  <1>2. TypeOK
    BY <1>1 DEF TypeOK, Fds
  <1>3. NothingLeaks
    BY <1>1 DEF NothingLeaks, Free, Fds
  <1>4. BootInv
    BY <1>1 DEF BootInv, Booting, Locked
  <1>5. ConsoleFree
    BY DEF ConsoleFree, Locked
  <1> QED
    BY <1>2, <1>3, <1>4, <1>5 DEF IInv

LEMMA alt_sys_initInv ==
  ASSUME IInv, alt_sys_init
  PROVE  IInv'
  <1> USE FilesAssumption DEF IInv, alt_sys_init
  <1>1. TypeOK'
    BY DEF TypeOK
  <1>2. NothingLeaks'
    BY DEF NothingLeaks, Free
  <1>3. BootInv'
    <2>1. alt_dev_list \subseteq {alt_dev_null, jtag_uart_0} /\ stage = "alt_sys_init"
      BY DEF TypeOK
    <2> QED
      BY <2>1 DEF BootInv, Booting, Locked
  <1>4. ConsoleFree'
    BY DEF ConsoleFree, Locked
  <1> QED
    BY <1>1, <1>2, <1>3, <1>4

(* While the console is redirected the pool has a free descriptor and no   *)
(* lock, so that the open inside alt_open_fd succeeds.                     *)
LEMMA RedirectOpens ==
  ASSUME IInv, stage \in Booting, stage # "alt_sys_init"
  PROVE  Free # {} /\ CanOpen(jtag_uart_0) /\ Highest >= 3
  <1> USE FilesAssumption
  <1>1. 3 \in Free
    <2>1. 3 \in Fds \ Std
      BY DEF Fds, Std, STDIN_FILENO, STDOUT_FILENO, STDERR_FILENO
    <2> QED
      BY <2>1 DEF IInv, BootInv, NothingLeaks
  <1>2. ~alt_file_locked(jtag_uart_0)
    <2>1. \A i \in 0 .. Highest : i \in Fds
      BY <1>1, FreeDescriptor DEF Fds
    <2> QED
      BY <2>1 DEF alt_file_locked, IInv, BootInv, Locked
  <1>3. Highest >= 3
    <2>1. alt_get_fd \in Nat /\ alt_get_fd \notin {0, 1, 2}
      BY <1>1, FreeDescriptor DEF Fds, Std, STDIN_FILENO, STDOUT_FILENO, STDERR_FILENO
    <2> QED
      BY <1>1, <2>1, FreeDescriptor
  <1> QED
    BY <1>1, <1>2, <1>3 DEF CanOpen, Found, IInv, BootInv

LEMMA alt_io_redirectInv ==
  ASSUME IInv, alt_io_redirect
  PROVE  IInv'
  <1> USE FilesAssumption
  <1>1. PICK std \in Std, flags \in {{}, {"O_WRONLY"}} :
          /\ alt_open_fd(std, jtag_uart_0, flags)
          /\ \/ stage = "stdout" /\ stage' = "stdin" /\ std = STDOUT_FILENO /\ flags = {"O_WRONLY"}
             \/ stage = "stdin" /\ stage' = "stderr" /\ std = STDIN_FILENO /\ flags = {}
             \/ stage = "stderr" /\ stage' = "main" /\ std = STDERR_FILENO /\ flags = {"O_WRONLY"}
    BY DEF alt_io_redirect, Std
  <1>2. Std \subseteq Fds
    BY DEF Std, Fds, STDIN_FILENO, STDOUT_FILENO, STDERR_FILENO
  <1>3. stage \in Booting /\ stage # "alt_sys_init"
    BY <1>1 DEF Booting
  <1>4. /\ CanOpen(jtag_uart_0) /\ Found(jtag_uart_0)
        /\ Highest \in 0 .. ALT_MAX_FD - 1 /\ Highest >= alt_max_fd /\ Highest >= 3
    BY <1>3, RedirectOpens, FreeDescriptor DEF CanOpen
  <1>5. /\ dev' = [dev EXCEPT ![std] = jtag_uart_0]
        /\ fd_flags' = [fd_flags EXCEPT ![std] = flags \union {"ALT_FD_DEV"}]
        /\ alt_max_fd' = Highest
        /\ UNCHANGED <<alt_dev_list, held>>
    BY <1>1, <1>4 DEF alt_open_fd, OpenedFlags, HalFlags
  <1>6. /\ dev \in [Fds -> {alt_dev_null, jtag_uart_0, NULL}]
        /\ DOMAIN fd_flags = Fds
    BY DEF IInv, TypeOK
  <1>7. TypeOK'
    <2>1. dev' \in [Fds -> {alt_dev_null, jtag_uart_0, NULL}]
      BY <1>5, <1>6
    <2>2. flags \union {"ALT_FD_DEV"} \in SUBSET AllFlags
      BY <1>1, FlagSets
    <2>3. fd_flags' \in [Fds -> SUBSET AllFlags]
      BY <1>5, <2>2 DEF IInv, TypeOK
    <2> QED
      BY <1>1, <1>4, <1>5, <2>1, <2>3 DEF IInv, TypeOK
  <1>8. NothingLeaks'
    <2>1. Free' = Free
      BY <1>2, <1>5, <1>6 DEF Free, IInv, BootInv
    <2>2. held = {}
      BY <1>3 DEF IInv, BootInv
    <2> QED
      BY <1>5, <1>6, <2>1, <2>2 DEF IInv, NothingLeaks, Free, BootInv
  <1>9. \A fd \in Fds : ~Locked(fd)'
    BY <1>1, <1>3, <1>5, <1>6 DEF IInv, BootInv, Locked
  <1>10. BootInv'
    <2>1. \A fd \in Std : dev[fd]' # NULL
      BY <1>5, <1>6 DEF IInv, BootInv
    <2>2. CASE stage = "stdout"
      BY <1>1, <1>2, <1>4, <1>5, <1>6, <1>9, <2>1, <2>2 DEF IInv, BootInv, Booting, STDIN_FILENO, STDOUT_FILENO, STDERR_FILENO
    <2>3. CASE stage = "stdin"
      BY <1>1, <1>2, <1>4, <1>5, <1>6, <1>9, <2>1, <2>3 DEF IInv, BootInv, Booting, STDIN_FILENO, STDOUT_FILENO, STDERR_FILENO
    <2>4. CASE stage = "stderr"
      BY <1>1, <1>2, <1>4, <1>5, <1>6, <1>9, <2>1, <2>4 DEF IInv, BootInv, Booting, STDIN_FILENO, STDOUT_FILENO, STDERR_FILENO
    <2> QED
      BY <1>1, <2>2, <2>3, <2>4
  <1>11. ConsoleFree'
    BY <1>9 DEF ConsoleFree
  <1> QED
    BY <1>7, <1>8, <1>10, <1>11 DEF IInv

LEMMA OpenInv ==
  ASSUME IInv, stage = "main", UNCHANGED <<stage, alt_dev_list>>,
         NEW d, NEW flags \in OpenFlags, Open(d, flags)
  PROVE  IInv'
  <1> USE FilesAssumption
  <1> DEFINE new == alt_get_fd
  <1>1. /\ new \in Fds \ Std /\ dev[new] = NULL /\ new \notin held
        /\ Highest \in 0 .. ALT_MAX_FD - 1 /\ Highest >= alt_max_fd /\ Highest >= new
    BY FreeDescriptor DEF Open, CanOpen, Found
  <1>2. d \in {alt_dev_null, jtag_uart_0}
    BY DEF Open, CanOpen, Found, IInv, TypeOK
  <1>3. /\ dev' = [dev EXCEPT ![new] = d]
        /\ fd_flags' = [fd_flags EXCEPT ![new] = (flags \ HalFlags) \union {"ALT_FD_DEV"}]
        /\ alt_max_fd' = Highest
        /\ held' = held \union {new}
    BY DEF Open, OpenedFlags
  <1> HIDE DEF new
  <1>4. /\ dev \in [Fds -> {alt_dev_null, jtag_uart_0, NULL}]
        /\ DOMAIN fd_flags = Fds
        /\ alt_max_fd \in Int /\ held \subseteq Fds /\ Highest \in Int /\ Fds \subseteq Int
    BY <1>1 DEF IInv, TypeOK, Fds
  <1>5. TypeOK'
    <2>1. (flags \ HalFlags) \union {"ALT_FD_DEV"} \in SUBSET AllFlags
      BY FlagSets
    <2>2. fd_flags' \in [Fds -> SUBSET AllFlags]
      BY <1>3, <2>1 DEF IInv, TypeOK
    <2>3. dev' \in [Fds -> {alt_dev_null, jtag_uart_0, NULL}]
      BY <1>2, <1>3, <1>4
    <2> QED
      BY <1>1, <1>3, <2>2, <2>3 DEF IInv, TypeOK
  <1>6. NothingLeaks'
    <2>1. Free' = Free \ {new}
      BY <1>1, <1>2, <1>3, <1>4 DEF Free
    <2>2. Fds \ (Std \union Free') = held'
      BY <1>1, <1>3, <2>1 DEF IInv, NothingLeaks, Free
    <2>3. \A fd \in held' : fd <= alt_max_fd'
      BY <1>1, <1>3, <1>4 DEF IInv, NothingLeaks
    <2>4. \A fd \in Free' : fd_flags'[fd] = {}
      BY <1>3, <1>4, <2>1 DEF IInv, NothingLeaks, Free
    <2> QED
      BY <2>2, <2>3, <2>4 DEF NothingLeaks
  <1>7. BootInv'
    BY <1>1, <1>3, <1>4 DEF IInv, BootInv, Booting, Std
  <1>8. ConsoleFree'
    BY <1>1, <1>3, <1>4 DEF IInv, ConsoleFree, Locked, HalFlags
  <1> QED
    BY <1>5, <1>6, <1>7, <1>8 DEF IInv

(* A call of open() that fails leaves the pool as it was; only alt_max_fd  *)
(* may have gone up.                                                       *)
LEMMA OpenFailsInv ==
  ASSUME IInv, UNCHANGED <<stage, alt_dev_list>>, NEW d, OpenFails(d)
  PROVE  IInv'
  <1> USE FilesAssumption
  <1>1. alt_max_fd' \in -1 .. ALT_MAX_FD - 1 /\ alt_max_fd' >= alt_max_fd
    BY FreeDescriptor DEF OpenFails, Found, IInv, TypeOK
  <1>2. UNCHANGED <<dev, fd_flags, held>>
    BY DEF OpenFails
  <1>3. TypeOK'
    BY <1>1, <1>2 DEF IInv, TypeOK
  <1>4. NothingLeaks'
    <2>1. \A fd \in held : fd <= alt_max_fd'
      BY <1>1 DEF IInv, NothingLeaks, TypeOK, Fds
    <2> QED
      BY <1>2, <2>1 DEF IInv, NothingLeaks, Free
  <1>5. BootInv'
    BY <1>1, <1>2 DEF IInv, BootInv, Locked, TypeOK
  <1>6. ConsoleFree'
    BY <1>2 DEF IInv, ConsoleFree, Locked
  <1> QED
    BY <1>3, <1>4, <1>5, <1>6 DEF IInv

(* main closes a descriptor, also when it is one of the standard ones or   *)
(* when main has just returned.                                            *)
LEMMA CloseInv ==
  ASSUME IInv, stage = "main", stage' \in {"main", "exit"},
         NEW fd \in Std \union held, Close(fd)
  PROVE  IInv'
  <1> USE FilesAssumption
  <1>1. UNCHANGED <<alt_dev_list, alt_max_fd>> /\ held' = held \ {fd}
    BY DEF Close
  <1>2. CASE fd \in Std
    <2>1. UNCHANGED <<dev, fd_flags, held>>
      BY <1>1, <1>2 DEF Close, alt_release_fd, IInv, TypeOK
    <2>2. TypeOK'
      BY <1>1, <2>1 DEF IInv, TypeOK
    <2>3. NothingLeaks'
      BY <1>1, <2>1 DEF IInv, NothingLeaks, Free
    <2>4. BootInv'
      BY <1>1, <2>1 DEF IInv, BootInv, Booting
    <2>5. ConsoleFree'
      BY <2>1 DEF IInv, ConsoleFree, Locked
    <2> QED
      BY <2>2, <2>3, <2>4, <2>5 DEF IInv
  <1>3. CASE fd \notin Std
    <2>1. /\ dev' = [dev EXCEPT ![fd] = NULL]
          /\ fd_flags' = [fd_flags EXCEPT ![fd] = {}]
      BY <1>3 DEF Close, alt_release_fd
    <2>2. /\ dev \in [Fds -> {alt_dev_null, jtag_uart_0, NULL}] /\ DOMAIN fd_flags = Fds
          /\ fd \in Fds /\ fd \in held
      BY <1>3 DEF IInv, TypeOK
    <2>3. TypeOK'
      <3>1. dev' \in [Fds -> {alt_dev_null, jtag_uart_0, NULL}]
        BY <2>1, <2>2
      <3>2. fd_flags' \in [Fds -> SUBSET AllFlags]
        BY <2>1 DEF IInv, TypeOK
      <3> QED
        BY <1>1, <3>1, <3>2 DEF IInv, TypeOK
    <2>4. Free' = Free \union {fd}
      BY <2>1, <2>2 DEF Free
    <2>5. NothingLeaks'
      <3>1. Fds \ (Std \union Free') = held'
        BY <1>1, <2>4 DEF IInv, NothingLeaks
      <3>2. \A i \in Free' : fd_flags'[i] = {}
        BY <2>1, <2>2, <2>4 DEF IInv, NothingLeaks, Free
      <3> QED
        BY <1>1, <3>1, <3>2 DEF IInv, NothingLeaks
    <2>6. BootInv'
      BY <1>1, <1>3, <2>1, <2>2 DEF IInv, BootInv, Booting, Std
    <2>7. ConsoleFree'
      BY <2>1, <2>2 DEF IInv, ConsoleFree, Locked
    <2> QED
      BY <2>3, <2>5, <2>6, <2>7 DEF IInv
  <1> QED
    BY <1>2, <1>3

(* F_SETFL reaches neither the lock nor the access mode.                   *)
LEMMA SetFlagsInv ==
  ASSUME IInv, UNCHANGED stage, stage = "main",
         NEW fd \in Std \union held, NEW flags, SetFlags(fd, flags)
  PROVE  IInv'
  <1> USE FilesAssumption
  <1> DEFINE fl == (fd_flags[fd] \ StatusFlags) \union (flags \intersect StatusFlags)
  <1>1. fd \in Fds /\ fd \notin Free
    BY DEF IInv, TypeOK, NothingLeaks, BootInv, Free, Std, Fds, STDIN_FILENO, STDOUT_FILENO, STDERR_FILENO
  <1>2. fd_flags' = [fd_flags EXCEPT ![fd] = fl] /\ UNCHANGED <<alt_dev_list, dev, alt_max_fd, held>>
    BY DEF SetFlags
  <1>3. fl \in SUBSET AllFlags
    <2>1. fd_flags[fd] \in SUBSET AllFlags
      BY <1>1 DEF IInv, TypeOK
    <2> QED
      BY <2>1, FlagSets
  <1>4. \A x \in {"O_WRONLY", "ALT_FD_EXCL"} : x \in fl <=> x \in fd_flags[fd]
    BY DEF HalFlags
  <1> HIDE DEF fl
  <1>5. DOMAIN fd_flags = Fds
    BY DEF IInv, TypeOK
  <1>6. \A x \in {"O_WRONLY", "ALT_FD_EXCL"} : \A i \in Fds : x \in fd_flags'[i] <=> x \in fd_flags[i]
    BY <1>1, <1>2, <1>4, <1>5
  <1>7. TypeOK'
    BY <1>1, <1>2, <1>3 DEF IInv, TypeOK
  <1>8. NothingLeaks'
    BY <1>1, <1>2, <1>5 DEF IInv, NothingLeaks, Free
  <1>9. BootInv'
    <2>1. Std \subseteq Fds
      BY DEF Fds, Std, STDIN_FILENO, STDOUT_FILENO, STDERR_FILENO
    <2> QED
      BY <1>2, <1>6, <2>1 DEF IInv, BootInv, Booting, Std
  <1>10. ConsoleFree'
    BY <1>2, <1>6 DEF IInv, ConsoleFree, Locked
  <1> QED
    BY <1>7, <1>8, <1>9, <1>10 DEF IInv

(* The console cannot be locked: of the three standard descriptors one is  *)
(* another one than fd and below alt_max_fd.                               *)
LEMMA ConsoleIsShared ==
  ASSUME IInv, stage = "main", NEW fd \in Fds, dev[fd] = jtag_uart_0
  PROVE  Others(fd) # {}
  <1>1. dev[0] = jtag_uart_0 /\ dev[1] = jtag_uart_0 /\ alt_max_fd >= 3 /\ alt_max_fd \in Int
    BY DEF IInv, BootInv, TypeOK, STDIN_FILENO, STDOUT_FILENO
  <1>2. {0, 1} \subseteq 0 .. alt_max_fd - 1
    BY <1>1
  <1>3. CASE fd = 0
    BY <1>1, <1>2, <1>3 DEF Others
  <1>4. CASE fd # 0
    BY <1>1, <1>2, <1>4 DEF Others
  <1> QED
    BY <1>3, <1>4

LEMMA LockInv ==
  ASSUME IInv, UNCHANGED stage, stage = "main", NEW fd \in Std \union held, alt_fd_lock(fd)
  PROVE  IInv'
  <1> USE FilesAssumption
  <1>1. fd \in Fds /\ fd \notin Free
    BY DEF IInv, TypeOK, NothingLeaks, BootInv, Free, Std, Fds, STDIN_FILENO, STDOUT_FILENO, STDERR_FILENO
  <1>2. /\ fd_flags' = [fd_flags EXCEPT ![fd] = fd_flags[fd] \union {"ALT_FD_EXCL"}]
        /\ UNCHANGED <<alt_dev_list, dev, alt_max_fd, held>>
    BY DEF alt_fd_lock
  <1>3. dev[fd] # jtag_uart_0
    BY <1>1, ConsoleIsShared DEF alt_fd_lock
  <1>4. fd_flags[fd] \union {"ALT_FD_EXCL"} \in SUBSET AllFlags
    <2>1. fd_flags[fd] \in SUBSET AllFlags
      BY <1>1 DEF IInv, TypeOK
    <2> QED
      BY <2>1, FlagSets
  <1>5. DOMAIN fd_flags = Fds
    BY DEF IInv, TypeOK
  <1>6. \A i \in Fds : "O_WRONLY" \in fd_flags'[i] <=> "O_WRONLY" \in fd_flags[i]
    BY <1>1, <1>2, <1>5
  <1>7. TypeOK'
    BY <1>1, <1>2, <1>4 DEF IInv, TypeOK
  <1>8. NothingLeaks'
    BY <1>1, <1>2, <1>5 DEF IInv, NothingLeaks, Free
  <1>9. BootInv'
    <2>1. Std \subseteq Fds
      BY DEF Fds, Std, STDIN_FILENO, STDOUT_FILENO, STDERR_FILENO
    <2> QED
      BY <1>2, <1>6, <2>1 DEF IInv, BootInv, Booting, Std
  <1>10. ConsoleFree'
    BY <1>1, <1>2, <1>3, <1>5 DEF IInv, ConsoleFree, Locked
  <1> QED
    BY <1>7, <1>8, <1>9, <1>10 DEF IInv

LEMMA UnlockInv ==
  ASSUME IInv, UNCHANGED stage, stage = "main", NEW fd \in Std \union held, alt_fd_unlock(fd)
  PROVE  IInv'
  <1> USE FilesAssumption
  <1>1. fd \in Fds /\ fd \notin Free
    BY DEF IInv, TypeOK, NothingLeaks, BootInv, Free, Std, Fds, STDIN_FILENO, STDOUT_FILENO, STDERR_FILENO
  <1>2. /\ fd_flags' = [fd_flags EXCEPT ![fd] = fd_flags[fd] \ {"ALT_FD_EXCL"}]
        /\ UNCHANGED <<alt_dev_list, dev, alt_max_fd, held>>
    BY DEF alt_fd_unlock
  <1>3. DOMAIN fd_flags = Fds
    BY DEF IInv, TypeOK
  <1>4. \A i \in Fds : /\ "O_WRONLY" \in fd_flags'[i] <=> "O_WRONLY" \in fd_flags[i]
                      /\ "ALT_FD_EXCL" \in fd_flags'[i] => "ALT_FD_EXCL" \in fd_flags[i]
    BY <1>1, <1>2, <1>3
  <1>5. TypeOK'
    <2>1. fd_flags[fd] \ {"ALT_FD_EXCL"} \in SUBSET AllFlags
      BY <1>1 DEF IInv, TypeOK
    <2> QED
      BY <1>1, <1>2, <2>1 DEF IInv, TypeOK
  <1>6. NothingLeaks'
    BY <1>1, <1>2, <1>3 DEF IInv, NothingLeaks, Free
  <1>7. BootInv'
    <2>1. Std \subseteq Fds
      BY DEF Fds, Std, STDIN_FILENO, STDOUT_FILENO, STDERR_FILENO
    <2> QED
      BY <1>2, <1>4, <2>1 DEF IInv, BootInv, Booting, Std
  <1>8. ConsoleFree'
    BY <1>2, <1>4 DEF IInv, ConsoleFree, Locked
  <1> QED
    BY <1>5, <1>6, <1>7, <1>8 DEF IInv

LEMMA StepInv == IInv /\ [Next]_vars => IInv'
  <1> SUFFICES ASSUME IInv, [Next]_vars PROVE IInv'
    OBVIOUS
  <1>1. CASE UNCHANGED vars
    BY <1>1 DEF vars, IInv, TypeOK, NothingLeaks, Free, BootInv, ConsoleFree, Locked
  <1>2. CASE Next
    <2>1. CASE main
      <3>1. stage = "main" /\ UNCHANGED stage
        BY <2>1 DEF main
      <3> QED
        BY <2>1, <3>1, OpenInv, OpenFailsInv, CloseInv, SetFlagsInv, LockInv, UnlockInv DEF main
    <2>2. CASE MainReturns
      BY <2>2, CloseInv DEF MainReturns, Std
    <2> QED
      BY <1>1, <1>2, <2>1, <2>2, alt_sys_initInv, alt_io_redirectInv DEF Next, Spin
  <1> QED
    BY <1>1, <1>2

THEOREM Invariance == Spec => []IInv
  BY InitInv, StepInv, PTL DEF Spec

(* The types of the pool's state hold of every run, whatever the program   *)
(* opens, closes, sets and locks.                                          *)
THEOREM TypeCorrect == Spec => []TypeOK
  BY Invariance, PTL DEF IInv

(* However calls of open() fail, the pool holds exactly the descriptors    *)
(* the program holds, all within alt_max_fd, and a free one has no flags.  *)
THEOREM PoolNeverLeaks == Spec => []NothingLeaks
  BY Invariance, PTL DEF IInv

(* From main to the end the standard descriptors stay on the JTAG UART     *)
(* with their access modes, and no descriptor of the UART is locked.       *)
THEOREM ConsoleIsOpen == Spec => []ConsoleStaysOpen
  <1>1. IInv => ConsoleStaysOpen
    BY DEF IInv, BootInv, ConsoleFree, ConsoleStaysOpen, Std
  <1> QED
    BY <1>1, Invariance, PTL

(* As long as a descriptor stays locked no call gives the program another  *)
(* descriptor of the same device: a locked descriptor is within            *)
(* alt_max_fd, where alt_file_locked looks.                                *)
THEOREM LocksExclude == Spec => LockExcludes
  <1> DEFINE Step == \A fd \in Fds : Locked(fd) /\ Locked(fd)' => Sharers(fd)' \subseteq Sharers(fd)
  <1>1. IInv /\ [Next]_vars => [Step]_vars
    <2> SUFFICES ASSUME IInv, Next, NEW fd \in Fds, Locked(fd), Locked(fd)'
                 PROVE  Sharers(fd)' \subseteq Sharers(fd)
      BY DEF vars, Sharers, Locked
    <2>1. fd \in held /\ fd <= alt_max_fd /\ dev[fd] # NULL
      BY LockedIsHeld
    <2>2. stage \in {"main", "exit"}
      BY <2>1 DEF IInv, BootInv, Booting, TypeOK
    <2>3. CASE UNCHANGED dev
      BY <2>3 DEF Sharers
    <2>4. ASSUME NEW d, NEW flags \in OpenFlags, Open(d, flags)
          PROVE  Sharers(fd)' \subseteq Sharers(fd)
      <3>1. /\ alt_get_fd \in Fds \ held /\ Highest >= alt_max_fd /\ Highest \in Int
        BY <2>4, FreeDescriptor, FilesAssumption DEF Open, CanOpen, Found
      <3>2. fd \in (0 .. Highest) \ {alt_get_fd}
        BY <2>1, <3>1 DEF Fds, IInv, TypeOK
      <3>3. dev[fd] # d
        BY <2>4, <3>2 DEF Open, CanOpen, alt_file_locked, Locked
      <3> QED
        BY <2>1, <2>4, <3>1, <3>3 DEF Open, Sharers, IInv, TypeOK
    <2>5. ASSUME NEW i \in Fds, alt_release_fd(i)
          PROVE  Sharers(fd)' \subseteq Sharers(fd)
      <3>1. CASE UNCHANGED dev
        BY <3>1 DEF Sharers
      <3>2. CASE dev' = [dev EXCEPT ![i] = NULL] /\ fd_flags' = [fd_flags EXCEPT ![i] = {}]
        <4>1. fd # i
          BY <3>2 DEF Locked, IInv, TypeOK
        <4> QED
          BY <2>1, <3>2, <4>1 DEF Sharers, IInv, TypeOK
      <3> QED
        BY <2>5, <3>1, <3>2 DEF alt_release_fd
    <2>6. Std \union held \subseteq Fds
      BY FilesAssumption DEF IInv, TypeOK, Fds, Std, STDIN_FILENO, STDOUT_FILENO, STDERR_FILENO
    <2>7. CASE main
      BY <2>3, <2>4, <2>5, <2>6, <2>7 DEF main, OpenFails, Close, SetFlags, alt_fd_lock, alt_fd_unlock
    <2>8. CASE MainReturns
      BY <2>5, <2>6, <2>8 DEF MainReturns, Close, Std
    <2>9. CASE alt_sys_init \/ alt_io_redirect \/ Spin
      BY <2>2, <2>3, <2>9 DEF alt_sys_init, alt_io_redirect, Spin, vars
    <2> QED
      BY <2>7, <2>8, <2>9 DEF Next
  <1>2. Spec => [][Step]_vars
    BY <1>1, Invariance, PTL DEF Spec
  <1> QED
    BY <1>2 DEF LockExcludes

(* A lock is granted only to the sole descriptor of a device, but for the  *)
(* one at alt_max_fd.                                                      *)
THEOREM LocksAreAlone == Spec => LockIsAlone
  <1> DEFINE Step == \A fd \in Fds : (Locked(fd)' /\ ~Locked(fd)) => Sharers(fd) \subseteq {alt_max_fd}
  <1>1. IInv /\ [Next]_vars => [Step]_vars
    <2> SUFFICES ASSUME IInv, Next, NEW fd \in Fds, Locked(fd)', ~Locked(fd)
                 PROVE  Sharers(fd) \subseteq {alt_max_fd}
      OBVIOUS
    <2>1. DOMAIN fd_flags = Fds /\ Std \union held \subseteq Fds /\ dev \in [Fds -> {alt_dev_null, jtag_uart_0, NULL}]
      BY FilesAssumption DEF IInv, TypeOK, Fds, Std, STDIN_FILENO, STDOUT_FILENO, STDERR_FILENO
    <2>2. ASSUME stage = "main", NEW i \in Std \union held, alt_fd_lock(i)
          PROVE  Sharers(fd) \subseteq {alt_max_fd}
      <3>1. i = fd
        BY <2>1, <2>2 DEF alt_fd_lock, Locked
      <3>2. Others(fd) = {}
        BY <2>2, <3>1 DEF alt_fd_lock
      <3>3. alt_max_fd >= 3 /\ alt_max_fd \in Int
        BY <2>2 DEF IInv, BootInv, TypeOK
      <3>4. fd \notin Free
        BY <2>2, <3>1 DEF IInv, NothingLeaks, BootInv, Free
      <3>5. \A j \in Fds \ Free : j \in 0 .. alt_max_fd
        <4> SUFFICES ASSUME NEW j \in Fds \ Free PROVE j \in 0 .. alt_max_fd
          OBVIOUS
        <4>1. j \in Std \/ j \in held
          BY DEF IInv, NothingLeaks
        <4> QED
          BY <4>1, <3>3 DEF IInv, NothingLeaks, Fds, Std, STDIN_FILENO, STDOUT_FILENO, STDERR_FILENO
      <3>6. \A j \in Sharers(fd) : j \in 0 .. alt_max_fd
        BY <3>4, <3>5 DEF Sharers, Free
      <3> QED
        BY <3>2, <3>3, <3>6 DEF Others, Sharers
    <2>3. ~ alt_sys_init /\ ~ Spin
      BY DEF alt_sys_init, Spin, vars, Locked
    <2>4. ~ alt_io_redirect
      BY <2>1 DEF alt_io_redirect, alt_open_fd, OpenedFlags, HalFlags, Locked
    <2>5. ASSUME NEW i \in Std \union held PROVE ~ alt_release_fd(i)
      BY <2>1, <2>5 DEF alt_release_fd, Locked
    <2>6. ASSUME NEW d, NEW flags PROVE ~ Open(d, flags)
      BY <2>1 DEF Open, OpenedFlags, HalFlags, Locked
    <2>7. ASSUME NEW i \in Std \union held, NEW flags PROVE ~ SetFlags(i, flags)
      BY <2>1, FilesAssumption DEF SetFlags, HalFlags, Locked
    <2>8. ASSUME NEW i \in Std \union held PROVE ~ alt_fd_unlock(i)
      BY <2>1 DEF alt_fd_unlock, Locked
    <2>9. ASSUME NEW d PROVE ~ OpenFails(d)
      BY DEF OpenFails, Locked
    <2>10. ~ MainReturns
      BY <2>5 DEF MainReturns, Close, Std
    <2> QED
      BY <2>2, <2>3, <2>4, <2>5, <2>6, <2>7, <2>8, <2>9, <2>10 DEF Next, main, Close
  <1>2. Spec => [][Step]_vars
    BY <1>1, Invariance, PTL DEF Spec
  <1> QED
    BY <1>2 DEF LockIsAlone
=============================================================================
