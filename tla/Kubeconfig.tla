----------------------------- MODULE Kubeconfig -----------------------------
(***************************************************************************)
(* kubernikusctl auth init and auth refresh: commands that load a          *)
(* kubeconfig file, fetch a client certificate for one context from the    *)
(* API and write the merged configuration back.  Between the load and the  *)
(* write lie a password prompt and several requests, and other commands    *)
(* and tools change the same files meanwhile.                              *)
(*                                                                         *)
(* An entry stands for the cluster, the context and the user of one name;  *)
(* what matters of it is the client certificate, given by its number.      *)
(***************************************************************************)
EXTENDS Integers, FiniteSets

CONSTANTS
  Procs,         \* commands running at a time
  Contexts,      \* names of contexts, and of klusters
  NoContext,     \* no current-context
  RefreshPaths,  \* the files auth refresh is started for
  MaxRuns,       \* bound: commands started
  MaxEdits       \* bound: changes of a file by other tools

VARIABLES
  files,    \* the entries of every kubeconfig file
  current,  \* its current-context
  expired,  \* certificates past their 24 hours
  issued,   \* number of certificates issued, the last one included
  cmds,     \* the commands
  runs,     \* commands started so far
  edits     \* changes by other tools so far

vars == <<files, current, expired, issued, cmds, runs, edits>>

\* The default file, and one given with --kubeconfig.
Files == {"default", "explicit"}

\* No entry, one of a cluster that is not Kubernikus, one whose certificate lacks
\* the metadata a refresh needs;
\* the certificates that have all of it are numbered from 0.
NoEntry == -3
Foreign == -2
Odd     == -1
\* A command: the file it was started for, its context, its copy of the file, the
\* certificate it fetched, and for the properties whether the file it writes was
\* left alone since it was loaded.
Command ==
  [pc : {"idle", "loaded", "fetched"}, kind : {"init", "refresh"}, path : Files,
   context : Contexts \cup {NoContext}, force : BOOLEAN,
   copy : [Contexts -> Int], cert : Nat, alone : BOOLEAN]

Done == [pc |-> "idle", kind |-> "init", path |-> "default", context |-> NoContext,
         force |-> FALSE, copy |-> [c \in Contexts |-> NoEntry], cert |-> 0, alone |-> TRUE]

\* The type of the state.
TypeOK ==
  /\ files \in [Files -> [Contexts -> Int]]
  /\ current \in [Files -> Contexts \cup {NoContext}]
  /\ expired \subseteq Nat
  /\ issued \in Nat
  /\ cmds \in [Procs -> Command]
  /\ runs \in Nat
  /\ edits \in Nat

Init ==
  /\ files \in [Files -> [Contexts -> {NoEntry, Foreign, Odd, 0}]]
  /\ current = [f \in Files |-> NoContext]
  /\ expired \in SUBSET {0}
  /\ issued = 0
  /\ cmds = [p \in Procs |-> Done]
  /\ runs = 0
  /\ edits = 0

-----------------------------------------------------------------------------
(* Loading.                                                                *)

Load(p, kind, path, context, force) ==
  /\ runs < MaxRuns
  /\ runs' = runs + 1
  /\ cmds[p].pc = "idle"
  /\ cmds' = [cmds EXCEPT ![p] = [Done EXCEPT !.pc = "loaded", !.kind = kind, !.path = path,
                                     !.context = context, !.force = force, !.copy = files[path]]]
  /\ UNCHANGED <<files, current, expired, issued, edits>>

\* auth init: the name is given, or the only kluster of the project is taken.
StartInit(p) ==
  \E path \in Files, name \in Contexts : Load(p, "init", path, name, FALSE)

\* auth refresh: --context or the current-context, which must be in the file.
StartRefresh(p) ==
  \E path \in RefreshPaths, force \in BOOLEAN, c \in Contexts :
    /\ files[path][c] # NoEntry
    /\ Load(p, "refresh", path, c, force)

-----------------------------------------------------------------------------
(* Fetching.                                                               *)

\* The checks of auth refresh on its copy, in their order: the CA certificate is
\* of Kubernikus, the client certificate is out of date or --force is set, and
\* user, project and URLs can be read from the client certificate.
IsKubernikusContext(entry) == entry \notin {NoEntry, Foreign}
IsCertificateValid(entry) == entry \notin expired \cup {Odd}
AutoDetect(entry) == entry # Odd

Renews(cmd) ==
  LET entry == cmd.copy[cmd.context]
  IN cmd.kind = "refresh" =>
       /\ IsKubernikusContext(entry)
       /\ IsCertificateValid(entry) => cmd.force
       /\ AutoDetect(entry)

\* The certificate is fetched from the API.
GetCredentials(p) ==
  /\ cmds[p].pc = "loaded"
  /\ Renews(cmds[p])
  /\ issued' = issued + 1
  /\ cmds' = [cmds EXCEPT ![p] = [@ EXCEPT !.pc = "fetched", !.cert = issued + 1]]
  /\ UNCHANGED <<files, current, expired, runs, edits>>

\* The command ends without a write: nothing to renew, or a login, a password
\* prompt or a request that failed.
Quit(p) ==
  /\ cmds[p].pc # "idle"
  /\ cmds' = [cmds EXCEPT ![p] = Done]
  /\ UNCHANGED <<files, current, expired, issued, runs, edits>>

-----------------------------------------------------------------------------
(* Writing.                                                                *)

\* mergo.MergeWithOverwrite of the copy and the fetched configuration.
Merged(cmd) == [cmd.copy EXCEPT ![cmd.context] = cmd.cert]

\* The file that is modified: auth init passes the path on, auth refresh always
\* writes with the default path options.
Target(cmd) == IF cmd.kind = "init" THEN cmd.path ELSE "default"

\* clientcmd.ModifyConfig: entries that differ from those of the target, in what
\* they say or in the file they were loaded from, go to the file they were loaded
\* from; the fetched one, which comes from none, goes to the target; and entries
\* of the target that the configuration lacks are deleted.
ModifyConfig(cmd, config) ==
  LET target == Target(cmd)
      Writes(f, c) == /\ config[c] # NoEntry
                      /\ cmd.path # target \/ config[c] # files[target][c]
                      /\ f = (IF c = cmd.context THEN target ELSE cmd.path)
      Deletes(f, c) == f = target /\ config[c] = NoEntry
  IN [f \in Files |-> [c \in Contexts |-> IF Writes(f, c) THEN config[c]
                                          ELSE IF Deletes(f, c) THEN NoEntry ELSE files[f][c]]]

\* The fetched configuration also sets the current-context of the target.
MergeAndPersist(p) ==
  LET cmd == cmds[p]
      written == ModifyConfig(cmd, Merged(cmd))
  IN /\ cmd.pc = "fetched"
     /\ files' = written
     /\ current' = [current EXCEPT ![Target(cmd)] = cmd.context]
     /\ cmds' = [x \in Procs |->
          IF x = p THEN Done
          ELSE IF written[Target(cmds[x])] # files[Target(cmds[x])]
               THEN [cmds[x] EXCEPT !.alone = FALSE] ELSE cmds[x]]
     /\ UNCHANGED <<expired, issued, runs, edits>>

-----------------------------------------------------------------------------
\* Another tool adds, replaces or deletes an entry.
OtherTool(f, c, entry) ==
  /\ edits < MaxEdits
  /\ edits' = edits + 1
  /\ files[f][c] # entry
  /\ files' = [files EXCEPT ![f][c] = entry]
  /\ cmds' = [x \in Procs |-> IF Target(cmds[x]) = f THEN [cmds[x] EXCEPT !.alone = FALSE] ELSE cmds[x]]
  /\ UNCHANGED <<current, expired, issued, runs>>

\* A certificate is valid for 24 hours.
Expire(cert) ==
  /\ expired' = expired \cup {cert}
  /\ UNCHANGED <<files, current, issued, cmds, runs, edits>>

Next ==
  \/ \E p \in Procs : StartInit(p) \/ StartRefresh(p) \/ GetCredentials(p) \/ Quit(p) \/ MergeAndPersist(p)
  \/ \E f \in Files, c \in Contexts, entry \in {Foreign, NoEntry} : OtherTool(f, c, entry)
  \/ \E cert \in 0..issued : Expire(cert)

Spec == Init /\ [][Next]_vars

-----------------------------------------------------------------------------
\* A command that was alone with the file it writes changes the entry of its
\* context in that file and no other entry of any file, whatever other commands
\* do to other files meanwhile (mergeAndPersist of init.go and refresh.go).
OthersKept ==
  [][\A p \in Procs : MergeAndPersist(p) /\ cmds[p].alone =>
       \A f \in Files, c \in Contexts :
         files'[f][c] # files[f][c] => f = Target(cmds[p]) /\ c = cmds[p].context]_vars

\* A command that ends with a write leaves the certificate it fetched in the file
\* it was started for: --kubeconfig "Overwrites kubeconfig auto-detection with
\* explicit path" (BindFlags of both commands).
PathHonoured ==
  [][\A p \in Procs : MergeAndPersist(p) =>
       files'[cmds[p].path][cmds[p].context] = cmds[p].cert]_vars
=============================================================================
