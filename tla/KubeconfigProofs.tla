--------------------------- MODULE KubeconfigProofs ---------------------------
(***************************************************************************)
(* For any number of commands, contexts and changes by other tools: as     *)
(* long as auth refresh is not given a path, a command writes where it was *)
(* told to, and a command that was alone with its file disturbs no other   *)
(* entry.  With a path for auth refresh neither holds.                     *)
(***************************************************************************)
EXTENDS Kubeconfig, TLAPS

\* A running command has a context, and while it is alone with its file its copy
\* is what the file holds.
CopyCurrent(p) ==
  cmds[p].pc # "idle" =>
    /\ cmds[p].context \in Contexts
    /\ cmds[p].kind = "refresh" => cmds[p].path \in RefreshPaths
    /\ cmds[p].alone => cmds[p].copy = files[Target(cmds[p])]

CopiesCurrent == \A p \in Procs : CopyCurrent(p)

Inv == TypeOK /\ CopiesCurrent

\* The parameters the results are about.
Parameters == NoContext \notin Contexts /\ RefreshPaths = {"default"}

-----------------------------------------------------------------------------
\* A command that ends, that fetched its certificate or that is no longer alone
\* is a command.
LEMMA CommandShape ==
  /\ Done \in Command
  /\ \A cmd \in Command : [cmd EXCEPT !.alone = FALSE] \in Command
  /\ \A cmd \in Command, cert \in Nat : [cmd EXCEPT !.pc = "fetched", !.cert = cert] \in Command
<1>1. Done \in Command
  BY DEF Done, Command, Files, NoEntry
<1>2. ASSUME NEW cmd \in Command PROVE [cmd EXCEPT !.alone = FALSE] \in Command
  BY DEF Command
<1>3. ASSUME NEW cmd \in Command, NEW cert \in Nat
      PROVE [cmd EXCEPT !.pc = "fetched", !.cert = cert] \in Command
  BY DEF Command
<1>4. QED BY <1>1, <1>2, <1>3

\* The invariant holds in every initial state.
LEMMA InitInv == Init => Inv
  BY DEF Init, Inv, TypeOK, Command, CopiesCurrent, CopyCurrent, Done, Files, NoEntry, Foreign, Odd

\* Starting a command of either kind keeps it (StartInit, StartRefresh).
LEMMA LoadInv ==
  ASSUME Parameters, Inv, NEW p \in Procs, NEW kind \in {"init", "refresh"}, NEW path \in Files,
         NEW context \in Contexts, NEW force \in BOOLEAN,
         kind = "refresh" => path \in RefreshPaths,
         Load(p, kind, path, context, force)
  PROVE  Inv'
<1>1. TypeOK'
  <2>1. [Done EXCEPT !.pc = "loaded", !.kind = kind, !.path = path, !.context = context,
                     !.force = force, !.copy = files[path]] \in Command
    BY DEF Inv, TypeOK, Command, Done
  <2>2. cmds' \in [Procs -> Command]
    BY <2>1 DEF Inv, TypeOK, Load
  <2>3. runs' \in Nat /\ UNCHANGED <<files, current, expired, issued, edits>>
    BY DEF Inv, TypeOK, Load
  <2>4. QED BY <2>2, <2>3 DEF Inv, TypeOK
<1>2. CopiesCurrent'
  <2>1. SUFFICES ASSUME NEW q \in Procs PROVE CopyCurrent(q)'
    BY DEF CopiesCurrent
  <2>2. CASE q # p
    BY <2>2 DEF Inv, TypeOK, Command, CopiesCurrent, CopyCurrent, Load, Target
  <2>3. CASE q = p
    BY <2>3 DEF Inv, TypeOK, Command, CopiesCurrent, CopyCurrent, Load, Target, Done, Parameters
  <2>4. QED BY <2>2, <2>3
<1>3. QED BY <1>1, <1>2 DEF Inv

\* What a write leaves in the files is again entries (ModifyConfig).
LEMMA ModifyConfigShape ==
  ASSUME Inv, NEW p \in Procs, cmds[p].pc = "fetched"
  PROVE  /\ Merged(cmds[p]) \in [Contexts -> Int]
         /\ ModifyConfig(cmds[p], Merged(cmds[p])) \in [Files -> [Contexts -> Int]]
<1>1. Merged(cmds[p]) \in [Contexts -> Int]
  BY DEF Inv, TypeOK, Command, CopiesCurrent, CopyCurrent, Merged
<1>2. Target(cmds[p]) \in Files
  BY DEF Inv, TypeOK, Command, Target, Files
<1> DEFINE config == Merged(cmds[p])
           entry(f, c) == ModifyConfig(cmds[p], config)[f][c]
<1>3. \A f \in Files, c \in Contexts : entry(f, c) \in {config[c], NoEntry, files[f][c]}
  BY DEF ModifyConfig
<1>4. \A f \in Files, c \in Contexts : entry(f, c) \in Int
  BY <1>1, <1>3 DEF Inv, TypeOK, NoEntry
<1>5. ModifyConfig(cmds[p], config) = [f \in Files |-> [c \in Contexts |-> entry(f, c)]]
  BY DEF ModifyConfig
<1> HIDE DEF entry
<1>6. QED BY <1>1, <1>4, <1>5

\* A write keeps the invariant: every other command with the same target is no
\* longer alone (MergeAndPersist).
LEMMA PersistInv ==
  ASSUME Inv, NEW p \in Procs, MergeAndPersist(p)
  PROVE  Inv'
<1> DEFINE written == ModifyConfig(cmds[p], Merged(cmds[p]))
<1>1. /\ cmds[p].pc = "fetched"
      /\ files' = written
      /\ current' = [current EXCEPT ![Target(cmds[p])] = cmds[p].context]
      /\ UNCHANGED <<expired, issued, runs, edits>>
      /\ cmds' = [x \in Procs |->
           IF x = p THEN Done
           ELSE IF written[Target(cmds[x])] # files[Target(cmds[x])]
                THEN [cmds[x] EXCEPT !.alone = FALSE] ELSE cmds[x]]
  BY DEF MergeAndPersist
<1>2. files' \in [Files -> [Contexts -> Int]]
  BY <1>1, ModifyConfigShape
<1>3. TypeOK'
  <2>1. cmds' \in [Procs -> Command]
    BY <1>1, CommandShape DEF Inv, TypeOK
  <2>2. current' \in [Files -> Contexts \cup {NoContext}]
    BY <1>1 DEF Inv, TypeOK, Command
  <2>3. QED BY <1>1, <1>2, <2>1, <2>2 DEF Inv, TypeOK
<1> HIDE DEF written
<1>4. CopiesCurrent'
  <2>1. SUFFICES ASSUME NEW q \in Procs PROVE CopyCurrent(q)'
    BY DEF CopiesCurrent
  <2>2. CASE q = p
    BY <2>2, <1>1 DEF CopyCurrent, Done
  <2>3. CASE q # p /\ written[Target(cmds[q])] # files[Target(cmds[q])]
    BY <2>3, <1>1 DEF Inv, TypeOK, Command, CopiesCurrent, CopyCurrent
  <2>4. CASE q # p /\ written[Target(cmds[q])] = files[Target(cmds[q])]
    BY <2>4, <1>1 DEF Inv, TypeOK, Command, CopiesCurrent, CopyCurrent
  <2>5. QED BY <2>2, <2>3, <2>4
<1>5. QED BY <1>3, <1>4 DEF Inv

\* A change by another tool keeps the invariant in the same way (OtherTool).
LEMMA OtherToolInv ==
  ASSUME Inv, NEW f \in Files, NEW c \in Contexts, NEW entry \in {Foreign, NoEntry}, OtherTool(f, c, entry)
  PROVE  Inv'
<1>1. TypeOK'
  <2>1. files' \in [Files -> [Contexts -> Int]] /\ issued' \in Nat
    BY DEF Inv, TypeOK, OtherTool, Foreign, NoEntry
  <2>2. cmds' \in [Procs -> Command]
    BY CommandShape DEF Inv, TypeOK, OtherTool
  <2>3. current' = current /\ expired' = expired /\ runs' = runs /\ edits' \in Nat
    BY DEF Inv, TypeOK, OtherTool
  <2>4. QED BY <2>1, <2>2, <2>3 DEF Inv, TypeOK
<1>2. CopiesCurrent'
  <2>1. SUFFICES ASSUME NEW q \in Procs PROVE CopyCurrent(q)'
    BY DEF CopiesCurrent
  <2>2. CASE Target(cmds[q]) = f
    BY <2>2 DEF Inv, TypeOK, Command, CopiesCurrent, CopyCurrent, OtherTool
  <2>3. CASE Target(cmds[q]) # f
    <3>1. cmds'[q] = cmds[q]
      BY <2>3 DEF Inv, TypeOK, OtherTool
    <3>2. files'[Target(cmds[q])] = files[Target(cmds[q])]
      BY <2>3 DEF Inv, TypeOK, OtherTool, Target, Files
    <3>3. QED BY <3>1, <3>2 DEF Inv, CopiesCurrent, CopyCurrent
  <2>4. QED BY <2>2, <2>3
<1>3. QED BY <1>1, <1>2 DEF Inv

\* Every step keeps the invariant.
LEMMA NextInv == Parameters /\ Inv /\ [Next]_vars => Inv'
<1> SUFFICES ASSUME Parameters, Inv, [Next]_vars PROVE Inv'
  OBVIOUS
<1>1. ASSUME NEW p \in Procs, StartInit(p) PROVE Inv'
  BY <1>1, LoadInv DEF StartInit
<1>2. ASSUME NEW p \in Procs, StartRefresh(p) PROVE Inv'
  BY <1>2, LoadInv DEF StartRefresh, Parameters, Files
<1>3. ASSUME NEW p \in Procs, GetCredentials(p) PROVE Inv'
  <2>1. TypeOK'
    <3>1. issued' \in Nat /\ UNCHANGED <<files, current, expired, runs, edits>>
      BY <1>3 DEF Inv, TypeOK, GetCredentials
    <3>2. [cmds[p] EXCEPT !.pc = "fetched", !.cert = issued + 1] \in Command
      <4>1. issued + 1 \in Nat /\ cmds[p] \in Command
        BY DEF Inv, TypeOK
      <4>2. QED BY <4>1, CommandShape, Zenon
    <3>3. cmds' \in [Procs -> Command]
      BY <1>3, <3>2 DEF Inv, TypeOK, GetCredentials
    <3>4. QED BY <3>1, <3>3 DEF Inv, TypeOK
  <2>2. CopiesCurrent'
    BY <1>3 DEF Inv, TypeOK, Command, CopiesCurrent, CopyCurrent, GetCredentials, Target
  <2>3. QED BY <2>1, <2>2 DEF Inv
<1>4. ASSUME NEW p \in Procs, Quit(p) PROVE Inv'
  BY <1>4, CommandShape DEF Inv, TypeOK, CopiesCurrent, CopyCurrent, Quit, Done, Target
<1>5. ASSUME NEW p \in Procs, MergeAndPersist(p) PROVE Inv'
  BY <1>5, PersistInv
<1>6. ASSUME NEW f \in Files, NEW c \in Contexts, NEW entry \in {Foreign, NoEntry}, OtherTool(f, c, entry)
      PROVE Inv'
  BY <1>6, OtherToolInv
<1>7. ASSUME NEW cert \in 0..issued, Expire(cert) PROVE Inv'
  BY <1>7 DEF Inv, TypeOK, Command, CopiesCurrent, CopyCurrent, Expire
<1>8. CASE UNCHANGED vars
  BY <1>8 DEF Inv, TypeOK, Command, CopiesCurrent, CopyCurrent, vars
<1>9. QED
  BY <1>1, <1>2, <1>3, <1>4, <1>5, <1>6, <1>7, <1>8 DEF Next

\* The invariant holds in every state.
LEMMA Invariance == ASSUME Parameters PROVE Spec => []Inv
  BY InitInv, NextInv, PTL DEF Spec

-----------------------------------------------------------------------------
\* The write of a command that is alone with its file touches one entry.
LEMMA WriteTouchesOne ==
  ASSUME Parameters, Inv, NEW p \in Procs, MergeAndPersist(p), cmds[p].alone,
         NEW f \in Files, NEW c \in Contexts, files'[f][c] # files[f][c]
  PROVE  f = Target(cmds[p]) /\ c = cmds[p].context
<1> DEFINE config == Merged(cmds[p])
           target == Target(cmds[p])
<1>1. cmds[p].pc = "fetched" /\ files' = ModifyConfig(cmds[p], config)
  BY DEF MergeAndPersist
<1>2. config \in [Contexts -> Int]
  BY <1>1, ModifyConfigShape
<1>3. \A x \in Contexts : x # cmds[p].context => config[x] = files[target][x]
  BY <1>1 DEF Inv, TypeOK, Command, CopiesCurrent, CopyCurrent, Merged
<1>4. cmds[p].context \in Contexts /\ config[cmds[p].context] = cmds[p].cert /\ cmds[p].cert # NoEntry
  BY <1>1 DEF Inv, TypeOK, Command, CopiesCurrent, CopyCurrent, Merged, NoEntry
<1> HIDE DEF config
<1>5. CASE c = cmds[p].context
  BY <1>1, <1>4, <1>5 DEF ModifyConfig
<1>6. CASE c # cmds[p].context
  <2>1. cmds[p].path = target
    BY <1>1 DEF Inv, TypeOK, Command, CopiesCurrent, CopyCurrent, Target, Parameters
  <2> QED BY <1>1, <1>3, <1>6, <2>1 DEF ModifyConfig
<1>7. QED BY <1>5, <1>6

\* The write of a command puts the certificate into the file it was started for.
LEMMA WriteWhereTold ==
  ASSUME Parameters, Inv, NEW p \in Procs, MergeAndPersist(p)
  PROVE  files'[cmds[p].path][cmds[p].context] = cmds[p].cert
<1> DEFINE config == Merged(cmds[p])
<1>1. cmds[p].pc = "fetched" /\ files' = ModifyConfig(cmds[p], config)
  BY DEF MergeAndPersist
<1>2. cmds[p].path = Target(cmds[p]) /\ cmds[p].path \in Files
  BY <1>1 DEF Inv, TypeOK, Command, CopiesCurrent, CopyCurrent, Target, Parameters
<1>3. cmds[p].context \in Contexts /\ config[cmds[p].context] = cmds[p].cert /\ cmds[p].cert # NoEntry
  BY <1>1 DEF Inv, TypeOK, Command, CopiesCurrent, CopyCurrent, Merged, NoEntry
<1> HIDE DEF config
<1>4. QED BY <1>1, <1>2, <1>3 DEF ModifyConfig

\* Every variable keeps its type, for any number of commands and any number of
\* certificates.
THEOREM TypeCorrect == ASSUME Parameters PROVE Spec => []TypeOK
<1>1. Inv => TypeOK
  BY DEF Inv
<1>2. QED BY Invariance, <1>1, PTL

\* Without a path for auth refresh, a command that was alone with the file it
\* writes leaves every other entry of every file as it is.
THEOREM AloneKeepsOthers == ASSUME Parameters PROVE Spec => OthersKept
<1>1. Inv /\ [Next]_vars =>
        [\A p \in Procs : MergeAndPersist(p) /\ cmds[p].alone =>
           \A f \in Files, c \in Contexts :
             files'[f][c] # files[f][c] => f = Target(cmds[p]) /\ c = cmds[p].context]_vars
  BY WriteTouchesOne
<1>2. QED BY Invariance, <1>1, PTL DEF Spec, OthersKept

\* Without a path for auth refresh, every write of a command ends in the file the
\* command was started for.
THEOREM PathsHonoured == ASSUME Parameters PROVE Spec => PathHonoured
<1>1. Inv /\ [Next]_vars =>
        [\A p \in Procs : MergeAndPersist(p) =>
           files'[cmds[p].path][cmds[p].context] = cmds[p].cert]_vars
  BY WriteWhereTold
<1>2. QED BY Invariance, <1>1, PTL DEF Spec, PathHonoured
=============================================================================
