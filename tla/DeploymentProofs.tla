--------------------------- MODULE DeploymentProofs ---------------------------
(***************************************************************************)
(* Theorems about the configuration, the root key and the socket of the    *)
(* daemon, for every set of initialisations and daemons, however many run  *)
(* at once and however often they are killed.                              *)
(***************************************************************************)
EXTENDS DaemonLife, TLAPS, FiniteSetTheorems

-----------------------------------------------------------------------------
(* The configuration, with one initialisation at a time *)

Stage == {"new", "tested", "opened", "written", "private", "done", "failed"}

SetupTyped ==
  /\ config \in Setup \cup {None} /\ tmp \in Setup \cup {None}
  /\ holds \in [Setup -> Setup \cup {None}]
  /\ step \in [Setup -> Stage] /\ fd \in [Setup -> Setup \cup {None}]

\* An initialisation goes on alone, and only while there is no configuration.
OnlySetup == \A i, j \in GoingOn : i = j
BeforeConfig == GoingOn # {} => config = None
\* What it has opened is config.tmp, and after it has written that is whole.
OwnTmp ==
  \A i \in Setup :
    /\ step[i] \in {"opened", "written", "private"} => tmp # None /\ fd[i] = tmp
    /\ step[i] \in {"written", "private"} => holds[tmp] # None

SetupInv == SetupTyped /\ OnlySetup /\ BeforeConfig /\ OwnTmp /\ ConfigWhole

\* A run that goes on, under a label of its own, adds none to those that go on.
LEMMA ProceedGoesOn ==
  ASSUME SetupTyped, NEW i \in GoingOn, NEW p \in Stage, Proceed(i, p)
  PROVE  /\ GoingOn' \subseteq GoingOn
         /\ p \in {"done", "failed"} => GoingOn' = GoingOn \ {i}
BY DEF SetupTyped, GoingOn, Proceed, Stage

\* No step of an initialisation breaks the invariant, and one that finds a
\* configuration, or replaces none, leaves configuration and root key alone.
LEMMA SetupKept ==
  ASSUME SetupsAtOnce = 1, SetupInv, NEW i \in Setup, SetupStep(i)
  PROVE  /\ SetupInv'
         /\ config # None => config' = config /\ holds' = holds
<1> USE SetupAssumption
<1>1. CASE Test(i)
  <2>1. GoingOn \in SUBSET Setup BY DEF GoingOn
  <2>2. IsFiniteSet(GoingOn) BY <2>1, FS_Subset
  <2>3. GoingOn = {}
    <3>1. Cardinality(GoingOn) \in Nat /\ Cardinality(GoingOn) < 1
      BY <1>1, <2>2, FS_CardinalityType DEF Test
    <3> QED BY <3>1, <2>2, FS_EmptySet
  <2>4. \/ config = None /\ Proceed(i, "tested")
        \/ config # None /\ Proceed(i, "failed")
    BY <1>1 DEF Test
  <2>5. GoingOn' \subseteq {i} /\ (config # None => GoingOn' = {})
    BY <2>3, <2>4 DEF GoingOn, Proceed, SetupInv, SetupTyped
  <2>6. UNCHANGED <<config, tmp, holds, fd>> BY <1>1 DEF Test
  <2>7. SetupTyped' /\ ConfigWhole' /\ OwnTmp'
    BY <2>4, <2>6 DEF SetupInv, SetupTyped, ConfigWhole, OwnTmp, Proceed, Stage
  <2>8. OnlySetup' /\ BeforeConfig'
    BY <2>5, <2>6 DEF OnlySetup, BeforeConfig
  <2> QED BY <2>6, <2>7, <2>8 DEF SetupInv
<1>2. ASSUME i \in GoingOn,
             Open(i) \/ Write(i) \/ Chmod(i) \/ Replace(i) \/ CutShort(i)
      PROVE  SetupInv' /\ config = None
  <2>1. config = None BY <1>2 DEF SetupInv, BeforeConfig
  <2>2. \A j \in Setup : j # i => step[j] \in {"new", "done", "failed"}
    BY <1>2 DEF SetupInv, OnlySetup, GoingOn
  <2>3. CASE Open(i)
    <3>1. SetupTyped'
      BY <2>3 DEF Open, SetupInv, SetupTyped, Proceed, Stage
    <3>2. OnlySetup' /\ BeforeConfig'
      BY <1>2, <2>1, <2>3, ProceedGoesOn
      DEF Open, SetupInv, OnlySetup, BeforeConfig, Stage
    <3>3. OwnTmp'
      BY <2>2, <2>3 DEF Open, SetupInv, SetupTyped, OwnTmp, Proceed
    <3>4. ConfigWhole' BY <2>1, <2>3 DEF Open, ConfigWhole
    <3> QED BY <2>1, <3>1, <3>2, <3>3, <3>4 DEF SetupInv
  <2>4. CASE Write(i)
    <3>1. SetupTyped'
      BY <2>4 DEF Write, SetupInv, SetupTyped, Proceed, Stage
    <3>2. OnlySetup' /\ BeforeConfig'
      BY <1>2, <2>1, <2>4, ProceedGoesOn
      DEF Write, SetupInv, OnlySetup, BeforeConfig, Stage
    <3>3. OwnTmp'
      BY <2>2, <2>4 DEF Write, SetupInv, SetupTyped, OwnTmp, Proceed
    <3>4. ConfigWhole' BY <2>1, <2>4 DEF Write, ConfigWhole
    <3> QED BY <2>1, <3>1, <3>2, <3>3, <3>4 DEF SetupInv
  <2>5. CASE Chmod(i)
    <3>1. Proceed(i, "private")
      BY <2>5 DEF Chmod, SetupInv, OwnTmp
    <3>2. SetupTyped'
      BY <2>5, <3>1 DEF Chmod, SetupInv, SetupTyped, Proceed, Stage
    <3>3. OnlySetup' /\ BeforeConfig'
      BY <1>2, <2>1, <2>5, <3>1, ProceedGoesOn
      DEF Chmod, SetupInv, OnlySetup, BeforeConfig, Stage
    <3>4. OwnTmp'
      BY <2>2, <2>5, <3>1 DEF Chmod, SetupInv, SetupTyped, OwnTmp, Proceed
    <3>5. ConfigWhole' BY <2>1, <2>5 DEF Chmod, ConfigWhole
    <3> QED BY <2>1, <3>2, <3>3, <3>4, <3>5 DEF SetupInv
  <2>6. CASE Replace(i)
    <3>1. /\ tmp # None /\ holds[tmp] # None /\ Proceed(i, "done")
          /\ config' = tmp /\ tmp' = None /\ UNCHANGED <<holds, fd>>
      BY <2>6 DEF Replace, SetupInv, OwnTmp
    <3>2. SetupTyped'
      BY <3>1 DEF SetupInv, SetupTyped, Proceed, Stage
    <3>3. GoingOn' = {}
      BY <1>2, <3>1, ProceedGoesOn DEF SetupInv, OnlySetup, Stage
    <3>4. OwnTmp'
      BY <2>2, <3>1 DEF SetupInv, SetupTyped, OwnTmp, Proceed
    <3>5. ConfigWhole' BY <3>1 DEF ConfigWhole
    <3>6. OnlySetup' /\ BeforeConfig' BY <3>3 DEF OnlySetup, BeforeConfig
    <3> QED BY <2>1, <3>2, <3>4, <3>5, <3>6 DEF SetupInv
  <2>7. CASE CutShort(i)
    <3>1. SetupTyped'
      BY <2>7 DEF CutShort, SetupInv, SetupTyped, Proceed, Stage
    <3>2. OnlySetup' /\ BeforeConfig'
      BY <2>1, <2>7, ProceedGoesOn
      DEF CutShort, SetupInv, OnlySetup, BeforeConfig, Stage
    <3>3. OwnTmp' /\ ConfigWhole'
      BY <2>2, <2>7
      DEF CutShort, SetupInv, SetupTyped, OwnTmp, ConfigWhole, Proceed
    <3> QED BY <2>1, <3>1, <3>2, <3>3 DEF SetupInv
  <2> QED BY <1>2, <2>3, <2>4, <2>5, <2>6, <2>7
<1>3. Open(i) \/ Write(i) \/ Chmod(i) \/ Replace(i) \/ CutShort(i) => i \in GoingOn
  BY DEF Open, Write, Chmod, Replace, CutShort, GoingOn
<1>4. Test(i) => UNCHANGED <<config, holds>> BY DEF Test
<1> QED BY <1>1, <1>2, <1>3, <1>4 DEF SetupStep

-----------------------------------------------------------------------------
(* The root key that daemons work with *)

DaemonPc == {"off", "starting", "clearing", "binding", "bound", "serving",
             "closing", "unlinking"}

\* A daemon that runs has the root key of config.json.
KeyHeld ==
  \A d \in Daemon : pc[d] # "off" => config # None /\ key[d] = holds[config]

DeploymentTyped ==
  /\ pc \in [Daemon -> DaemonPc]
  /\ key \in [Daemon -> Setup \cup {None}]

KeyInv == SetupInv /\ DeploymentTyped /\ KeyHeld /\ RowsOpen

\* Except when it is started, a daemon that runs has been running, with the same key.
LEMMA KeyCarried ==
  ASSUME KeyInv, NEW d \in Daemon, GoOn(d) \/ ((Signal(d) \/ Kill(d)) /\ DropKey(d))
  PROVE  /\ DeploymentTyped' /\ UNCHANGED <<setups, rows>>
         /\ \A e \in Daemon : pc'[e] # "off" => pc[e] # "off" /\ key'[e] = key[e]
<1>1. /\ pc[d] # "off" \/ UNCHANGED pc
      /\ \/ UNCHANGED pc
         \/ \E p \in DaemonPc : Goto(d, p)
  BY DEF DaemonPc, GoOn, Step, LookForSocket, ClearSocket, Bind, EnterLoop, Shutdown,
         LeaveLoop, CloseSocket, Unlink, Signal, Kill
<1>2. DropKey(d) BY DEF GoOn
<1> QED BY <1>1, <1>2 DEF KeyInv, DeploymentTyped, DropKey, Goto

\* No step breaks the invariant of the configuration and the keys.
LEMMA KeyStep ==
  ASSUME SetupsAtOnce = 1, KeyInv, [Next]_vars
  PROVE  KeyInv'
<1>1. CASE UNCHANGED vars
  BY <1>1 DEF vars, setups, daemons, KeyInv, SetupInv, SetupTyped, OnlySetup,
              BeforeConfig, OwnTmp, ConfigWhole, GoingOn, DeploymentTyped,
              KeyHeld, RowsOpen
<1>2. ASSUME NEW i \in Setup, SetupStep(i), UNCHANGED <<daemons, alone, rows>>
      PROVE  KeyInv'
  <2>1. SetupInv' /\ (config # None => config' = config /\ holds' = holds)
    BY <1>2, SetupKept DEF KeyInv
  <2> QED BY <1>2, <2>1 DEF KeyInv, DeploymentTyped, KeyHeld, RowsOpen, daemons
<1>3. ASSUME UNCHANGED setups PROVE SetupInv'
  BY <1>3 DEF setups, KeyInv, SetupInv, SetupTyped, OnlySetup, BeforeConfig,
              OwnTmp, ConfigWhole, GoingOn
<1>4. ASSUME NEW d \in Daemon, DaemonStep(d) PROVE KeyInv'
  <2>1. CASE Start(d) /\ UNCHANGED <<setups, rows>>
    <3>1. DeploymentTyped' /\ KeyHeld'
      BY <2>1 DEF Start, Goto, KeyInv, SetupInv, SetupTyped, DeploymentTyped,
                  KeyHeld, DaemonPc, setups
    <3> QED BY <1>3, <2>1, <3>1 DEF KeyInv, RowsOpen, setups
  <2>2. CASE GoOn(d) \/ ((Signal(d) \/ Kill(d)) /\ DropKey(d))
    <3>1. /\ DeploymentTyped' /\ UNCHANGED <<setups, rows>>
          /\ \A e \in Daemon : pc'[e] # "off" => pc[e] # "off" /\ key'[e] = key[e]
      BY <2>2, KeyCarried
    <3> QED BY <1>3, <3>1 DEF KeyInv, KeyHeld, RowsOpen, setups
  <2>3. CASE Store(d) /\ UNCHANGED <<setups, alone>>
    BY <1>3, <2>3 DEF Store, KeyInv, DeploymentTyped, KeyHeld, RowsOpen, setups,
                      daemons
  <2> QED BY <1>4, <2>1, <2>2, <2>3 DEF DaemonStep
<1> QED BY <1>1, <1>2, <1>4 DEF Next

\* The invariant of the configuration and the keys.
LEMMA KeyAlways ==
  ASSUME SetupsAtOnce = 1
  PROVE  Spec => []KeyInv
<1>1. Init => KeyInv
  BY SetupAssumption
  DEF Init, SetupInit, KeyInv, SetupInv, SetupTyped, OnlySetup, BeforeConfig,
      OwnTmp, ConfigWhole, GoingOn, DeploymentTyped, KeyHeld, RowsOpen, Stage, DaemonPc
<1>2. KeyInv /\ [Next]_vars => KeyInv' BY KeyStep
<1> QED BY <1>1, <1>2, PTL DEF Spec

\* Config.initialize: with one initialisation at a time, config.json is whole or
\* not there at all, however many initialisations were killed and wherever.
THEOREM ConfigAlwaysWhole ==
  ASSUME SetupsAtOnce = 1
  PROVE  Spec => []ConfigWhole
<1>1. KeyInv => ConfigWhole BY DEF KeyInv, SetupInv
<1> QED BY <1>1, KeyAlways, PTL

\* Config.initialize and Vault.from_passphrase: with one initialisation at a time,
\* every row that any daemon has stored opens under the root key of config.json.
THEOREM RowsAlwaysOpen ==
  ASSUME SetupsAtOnce = 1
  PROVE  Spec => []RowsOpen
<1>1. KeyInv => RowsOpen BY DEF KeyInv
<1> QED BY <1>1, KeyAlways, PTL

-----------------------------------------------------------------------------
(* The socket of a daemon that has been alone *)

\* Nothing runs beside a daemon that has been alone since its start: the path it
\* binds is free, and from then on it is its own.
Undisturbed ==
  \A d \in alone :
    /\ pc[d] # "off" => Running = {d}
    /\ pc[d] = "binding" => path = None
    /\ pc[d] \in {"bound", "serving"} => d \in live /\ path = d

AloneInv == pc \in [Daemon -> DaemonPc] /\ alone \subseteq Daemon /\ Undisturbed

\* A step of a daemon that runs leaves every other where it is, and it starts none.
LEMMA DaemonMoves ==
  ASSUME AloneInv, NEW e \in Daemon,
         Step(e) \/ Signal(e) \/ Kill(e), UNCHANGED alone
  PROVE  /\ pc' \in [Daemon -> DaemonPc]
         /\ \A d \in Daemon : d # e => pc'[d] = pc[d]
         /\ pc[e] = "off" => UNCHANGED <<pc, path, live>>
         /\ Running' \subseteq Running
<1>1. \/ UNCHANGED pc
      \/ pc[e] # "off" /\ \E p \in DaemonPc : Goto(e, p)
  BY DEF Step, LookForSocket, ClearSocket, Bind, EnterLoop, Shutdown, LeaveLoop,
         CloseSocket, Unlink, Signal, Kill, DaemonPc
<1>2. pc[e] = "off" => UNCHANGED <<pc, path, live>>
  BY DEF Step, LookForSocket, ClearSocket, Bind, EnterLoop, Shutdown, LeaveLoop,
         CloseSocket, Unlink, Signal, Kill
<1> QED BY <1>1, <1>2 DEF AloneInv, Goto, Running

\* No step breaks the invariant of the daemons that have been alone.
LEMMA AloneStep ==
  ASSUME AloneInv, [Next]_vars
  PROVE  AloneInv'
<1>1. ASSUME UNCHANGED <<path, live, pc, alone>> PROVE AloneInv'
  BY <1>1 DEF AloneInv, Undisturbed, Running
<1>2. ASSUME NEW e \in Daemon, Start(e) PROVE AloneInv'
  <2>1. /\ pc[e] = "off" /\ pc' \in [Daemon -> DaemonPc] /\ pc'[e] = "starting"
        /\ alone' = IF Running = {} THEN {e} ELSE {}
    BY <1>2 DEF Start, Goto, AloneInv, DaemonPc
  <2>2. Running = {} => Running' = {e}
    BY <1>2, <2>1 DEF Start, Goto, AloneInv, Running
  <2> QED BY <2>1, <2>2 DEF AloneInv, Undisturbed
<1>3. ASSUME NEW e \in Daemon, Step(e) \/ Signal(e) \/ Kill(e), UNCHANGED alone
      PROVE  AloneInv'
  <2>1. /\ pc' \in [Daemon -> DaemonPc]
        /\ \A d \in Daemon : d # e => pc'[d] = pc[d]
        /\ pc[e] = "off" => UNCHANGED <<pc, path, live>>
        /\ Running' \subseteq Running
    BY <1>3, DaemonMoves
  <2>2. SUFFICES ASSUME NEW d \in alone, pc'[d] # "off"
                 PROVE  /\ Running' = {d}
                        /\ pc'[d] = "binding" => path' = None
                        /\ pc'[d] \in {"bound", "serving"} => d \in live' /\ path' = d
    BY <1>3, <2>1 DEF AloneInv, Undisturbed
  <2>3. d \in Daemon BY DEF AloneInv
  <2>4. pc[d] # "off" BY <2>1, <2>2, <2>3 DEF Running
  <2>5. Running = {d} BY <2>4 DEF AloneInv, Undisturbed
  <2>6. Running' = {d} BY <2>1, <2>2, <2>3, <2>5 DEF Running
  <2>7. CASE e = d
    BY <1>3, <2>2, <2>3, <2>4, <2>6, <2>7
    DEF Step, LookForSocket, ClearSocket, Bind, EnterLoop, Shutdown, LeaveLoop,
        CloseSocket, Unlink, Signal, Kill, Goto, AloneInv, Undisturbed
  <2>8. CASE e # d
    <3>1. pc[e] = "off" BY <2>5, <2>8 DEF Running
    <3> QED BY <2>1, <2>4, <2>6, <3>1 DEF AloneInv, Undisturbed
  <2> QED BY <2>7, <2>8
<1>4. ASSUME NEW e \in Daemon, DaemonStep(e) PROVE AloneInv'
  BY <1>1, <1>2, <1>3, <1>4 DEF DaemonStep, GoOn, DropKey, Store, daemons
<1> QED BY <1>1, <1>4 DEF Next, vars, daemons

\* server.serve and its UnixSocketServer: a daemon that serves, and beside which no
\* other has run since it was started, is the one that its socket's path leads to,
\* however many daemons were started before and however they ended.
THEOREM AlwaysReachable == Spec => []ServingReachable
<1>1. Init => AloneInv
  BY DEF Init, AloneInv, Undisturbed, DaemonPc
<1>2. AloneInv /\ [Next]_vars => AloneInv' BY AloneStep
<1>3. AloneInv => ServingReachable BY DEF AloneInv, Undisturbed, ServingReachable
<1> QED BY <1>1, <1>2, <1>3, PTL DEF Spec
=============================================================================
