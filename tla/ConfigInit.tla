------------------------------ MODULE ConfigInit ------------------------------
(***************************************************************************)
(* config.json: runs of `passd init`, which may be killed anywhere.  A     *)
(* file is told apart from its path, as an initialisation writes to the    *)
(* file it opened as config.tmp wherever that has been renamed to.         *)
(* DaemonLife adds the daemons that read it.                               *)
(***************************************************************************)
EXTENDS FiniteSets, Naturals

CONSTANTS
  Setup,        \* runs of `passd init`, each drawing a root key of its own
  SetupsAtOnce, \* how many of them go on at the same time
  None

ASSUME SetupAssumption == IsFiniteSet(Setup) /\ None \notin Setup

\* The file that a run creates has its name; what a file holds is the root key
\* of a run, that is its salt and root check, or None while it is empty.
VARIABLES
  config, tmp,  \* the files that the two paths name, or None
  holds,        \* what each file holds
  step, fd      \* where a run is, and the file it has opened

setups == <<config, tmp, holds, step, fd>>

SetupInit ==
  /\ config = None /\ tmp = None
  /\ holds = [i \in Setup |-> None]
  /\ step = [i \in Setup |-> "new"] /\ fd = [i \in Setup |-> None]

-----------------------------------------------------------------------------
GoingOn == {i \in Setup : step[i] \notin {"new", "done", "failed"}}
Proceed(i, p) == step' = [step EXCEPT ![i] = p]

\* Mutant: initialising again starts afresh.
Test_Never(i) ==
  /\ step[i] = "new" /\ Cardinality(GoingOn) < SetupsAtOnce
  /\ Proceed(i, "tested")
  /\ UNCHANGED <<config, tmp, holds, fd>>
Test(i) ==
  /\ step[i] = "new" /\ Cardinality(GoingOn) < SetupsAtOnce
  /\ Proceed(i, IF config = None THEN "tested" ELSE "failed")
  /\ UNCHANGED <<config, tmp, holds, fd>>

\* Mutant: the configuration is written in place.
Open_InPlace(i) ==
  /\ step[i] = "tested" /\ Proceed(i, "opened")
  /\ config' = i /\ tmp' = i
  /\ fd' = [fd EXCEPT ![i] = i]
  /\ UNCHANGED holds
\* write_text opens the file, which empties it if it is there,
Open(i) ==
  LET f == IF tmp = None THEN i ELSE tmp IN
  /\ step[i] = "tested" /\ Proceed(i, "opened")
  /\ tmp' = f
  /\ holds' = [holds EXCEPT ![f] = None]
  /\ fd' = [fd EXCEPT ![i] = f]
  /\ UNCHANGED config
\* and writes.
Write(i) ==
  /\ step[i] = "opened" /\ Proceed(i, "written")
  /\ holds' = [holds EXCEPT ![fd[i]] = i]
  /\ UNCHANGED <<config, tmp, fd>>

\* chmod and replace, which fail when config.tmp is gone.
Chmod(i) ==
  /\ step[i] = "written" /\ Proceed(i, IF tmp = None THEN "failed" ELSE "private")
  /\ UNCHANGED <<config, tmp, holds, fd>>
Replace(i) ==
  /\ step[i] = "private"
  /\ IF tmp = None THEN Proceed(i, "failed") /\ UNCHANGED <<config, tmp>>
     ELSE Proceed(i, "done") /\ config' = tmp /\ tmp' = None
  /\ UNCHANGED <<holds, fd>>

CutShort(i) ==
  /\ i \in GoingOn /\ Proceed(i, "failed")
  /\ UNCHANGED <<config, tmp, holds, fd>>

SetupStep(i) ==
  Test(i) \/ Open(i) \/ Write(i) \/ Chmod(i) \/ Replace(i) \/ CutShort(i)

-----------------------------------------------------------------------------
(* Properties *)

\* Wherever an initialisation is killed, config.json is whole or not there: a
\* daemon never reads a part of one, and another initialisation can still make it.
\* With one initialisation at a time: of two, one may empty the config.tmp that the
\* other is about to rename (config.py:63).
ConfigWhole == config # None => holds[config] # None
=============================================================================
