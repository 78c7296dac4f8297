------------------------------- MODULE Iptables -------------------------------
(***************************************************************************)
(* pkg/util/iptables: the runner that executes iptables, iptables-save and *)
(* iptables-restore, and the locks that keep those programs apart.  The    *)
(* programs are external and modelled by what the runner relies on: which  *)
(* flags a version knows, which lock it takes, how it exits.  The nat      *)
(* table is the chain of the tunnels, the jumps to it and its rules (the   *)
(* destinations it redirects).  The mutex of the runner is taken by one    *)
(* worker only and is left out.                                            *)
(***************************************************************************)
EXTENDS Version, TLC

CONSTANTS Hosts,      \* [numbers, probe]: the version of iptables on a host, and
                      \* whether asking it for its version succeeds
          MaxFaults,  \* how often another program takes the iptables lock, one of
                      \* the programs cannot be run, or the controller crashes
          ServiceCIDR \* the destination every restore writes

\* The versions of iptables have three numbers or more.
ASSUME HostsAssumption ==
  \A h \in Hosts : h.numbers \in Seq(Nat) /\ Len(h.numbers) >= 3

VARIABLES host,    \* the host the program was started on
          runner,  \* the flags newInternal found
          nat,     \* [chain, jumps, rules]
          lock16,  \* who holds /run/xtables.lock
          lock14,  \* who holds the abstract socket @xtables
          faults   \* how many faults there were

iptablesVars == <<host, runner, nat, lock16, lock14, faults>>

MinCheckVersion == ParseGeneric(Text(<<1, 4, 11>>))

MinWaitVersion == ParseGeneric(Text(<<1, 4, 20>>))

MinWait2Version == ParseGeneric(Text(<<1, 4, 22>>))

\* getIPTablesVersionString, with newInternal's answer to its error.
GetIPTablesVersionString(h) == Text(IF h.probe THEN h.numbers ELSE <<1, 4, 11>>)

GetIPTablesHasCheckCommand(text) ==
  LET v == ParseGeneric(text) IN v.ok => AtLeast(v, MinCheckVersion)

GetIPTablesWaitFlag(text) ==
  LET v == ParseGeneric(text)
  IN  IF ~ v.ok \/ LessThan(v, MinWaitVersion) THEN "none"
      ELSE IF LessThan(v, MinWait2Version) THEN "-w" ELSE "-w2"

\* iptables-restore knows --version, and --wait, from 1.6.2 on.
GetIPTablesRestoreWaitFlag(h) == h.probe /\ ~ Before(h.numbers, <<1, 6, 2>>)

New(h) ==
  LET text == GetIPTablesVersionString(h)
  IN  [hasCheck    |-> GetIPTablesHasCheckCommand(text),
       waitFlag    |-> GetIPTablesWaitFlag(text),
       restoreWait |-> GetIPTablesRestoreWaitFlag(h)]

IptablesInit ==
  /\ host \in Hosts
  /\ runner = New(host)
  /\ nat = [chain |-> FALSE, jumps |-> 0, rules |-> {}]
  /\ lock16 = "free"
  /\ lock14 = "free"
  /\ faults = 0

-----------------------------------------------------------------------------
\* The lock the iptables of the host takes: none before 1.4.20, the socket in
\* 1.4.x, the file in 1.6.x.
XtablesLock ==
  IF Before(host.numbers, <<1, 4, 20>>) THEN "free"
  ELSE IF Before(host.numbers, <<1, 6, 0>>) THEN lock14 ELSE lock16

\* runner.run: the command may run, or it exits with an error because another
\* program has the lock; with -w it waits as long as it takes.
RunOk == XtablesLock # "other"

RunFails == XtablesLock = "other" /\ runner.waitFlag # "-w"

\* A call fails for a reason of its own, or because a program cannot be run or a
\* file not be opened, which is a fault.
CallFails(reason) ==
  \/ reason /\ UNCHANGED faults
  \/ faults < MaxFaults /\ faults' = faults + 1

\* Exit status 1 of -N means that the chain exists, which is no error.
EnsureChain(ok) ==
  /\ IF ok THEN RunOk /\ UNCHANGED faults ELSE CallFails(RunFails)
  /\ nat' = IF ok THEN [nat EXCEPT !.chain = TRUE] ELSE nat
  /\ UNCHANGED <<host, runner, lock16, lock14>>

KnowsCheck == ~ Before(host.numbers, <<1, 4, 11>>)

\* checkRule: with -C, which is a malformed command line for an older iptables,
\* or else from iptables-save, which takes no lock and fails by a fault only.
CheckRuleOk == runner.hasCheck => KnowsCheck /\ RunOk

CheckRuleFails == runner.hasCheck /\ (~ KnowsCheck \/ RunFails)

\* Mutant of EnsureRule: the rule is added without a look at what exists.
EnsureRuleUnchecked(ok) ==
  /\ IF ok THEN RunOk ELSE RunFails
  /\ nat' = IF ok THEN [nat EXCEPT !.jumps = IF @ < 2 THEN @ + 1 ELSE @] ELSE nat
  /\ UNCHANGED <<host, runner, lock16, lock14, faults>>

\* The check comes first; only a rule that is not there is added.
EnsureRule(ok) ==
  /\ \/ ok /\ CheckRuleOk /\ nat.jumps > 0 /\ UNCHANGED <<nat, faults>>
     \/ /\ ok /\ CheckRuleOk /\ nat.jumps = 0 /\ RunOk
        /\ nat' = [nat EXCEPT !.jumps = 1] /\ UNCHANGED faults
     \/ ~ ok /\ CallFails(CheckRuleFails \/ (nat.jumps = 0 /\ RunFails)) /\ UNCHANGED nat
  /\ UNCHANGED <<host, runner, lock16, lock14>>

\* Mutant of GrabIptablesLocks: the first lock stays when the second fails.
GrabIptablesLocksLeaks(result) ==
  /\ \/ result = "grab14" /\ lock16 = "free" /\ lock16' = "runner" /\ lock14' = lock14
     \/ result = "restore" /\ lock16 = "runner" /\ lock14 = "free"
        /\ lock14' = "runner" /\ lock16' = lock16
     \/ result = "fail" /\ "other" \in {lock16, lock14} /\ UNCHANGED <<lock16, lock14>>
  /\ UNCHANGED <<host, runner, nat, faults>>

\* Both locks are polled for two seconds each; when one cannot be had the
\* other is given back.  A step takes the file, then the socket.
GrabIptablesLocks(result) ==
  /\ \/ result = "grab14" /\ lock16 = "free" /\ lock16' = "runner" /\ lock14' = lock14
     \/ result = "restore" /\ lock16 = "runner" /\ lock14 = "free"
        /\ lock14' = "runner" /\ lock16' = lock16
     \/ /\ result = "fail"
        /\ lock16' = (IF lock16 = "runner" THEN "free" ELSE lock16)
        /\ lock14' = lock14
  /\ IF result = "fail" THEN CallFails(lock16 = "other" \/ (lock16 = "runner" /\ lock14 = "other"))
                        ELSE UNCHANGED faults
  /\ UNCHANGED <<host, runner, nat>>

\* locker.Close.
CloseLocks ==
  /\ lock16' = IF lock16 = "runner" THEN "free" ELSE lock16
  /\ lock14' = IF lock14 = "runner" THEN "free" ELSE lock14

\* restoreInternal with --noflush: the chain named in the input is flushed and
\* filled in one go, or nothing changes (a malformed line, or --wait=2 runs
\* out).  The locks are given back either way.
RestoreInternal(rules, wellFormed, ok) ==
  /\ IF ok THEN wellFormed /\ (runner.restoreWait => RunOk) /\ UNCHANGED faults
           ELSE CallFails(~ wellFormed \/ (runner.restoreWait /\ RunFails))
  /\ nat' = IF ok THEN [nat EXCEPT !.chain = TRUE, !.rules = rules] ELSE nat
  /\ CloseLocks
  /\ UNCHANGED <<host, runner>>

-----------------------------------------------------------------------------
\* Another program (kube-proxy, an administrator) changes the tables under the
\* lock of the host's iptables.
OtherTakesLock ==
  /\ faults < MaxFaults
  /\ faults' = faults + 1
  /\ ~ Before(host.numbers, <<1, 4, 20>>)
  /\ IF Before(host.numbers, <<1, 6, 0>>)
     THEN lock14 = "free" /\ lock14' = "other" /\ lock16' = lock16
     ELSE lock16 = "free" /\ lock16' = "other" /\ lock14' = lock14
  /\ UNCHANGED <<host, runner, nat>>

OtherReleasesLock ==
  /\ "other" \in {lock16, lock14}
  /\ lock16' = IF lock16 = "other" THEN "free" ELSE lock16
  /\ lock14' = IF lock14 = "other" THEN "free" ELSE lock14
  /\ UNCHANGED <<host, runner, nat, faults>>

-----------------------------------------------------------------------------
\* Once it could ask for the version, the runner passes no flag the iptables of
\* the host does not know and leaves none out that helps under a held lock: the
\* versions in the comments of iptables.go, compared as numbers are meant.
FlagsSupported == host.probe =>
  /\ runner.hasCheck <=> KnowsCheck
  /\ runner.waitFlag = IF Before(host.numbers, <<1, 4, 20>>) THEN "none"
                       ELSE IF Before(host.numbers, <<1, 4, 22>>) THEN "-w" ELSE "-w2"

\* The jump from OUTPUT to the chain of the tunnels exists at most once, however
\* often the rules are written and however often the program restarts.
JumpOnce == nat.jumps <= 1
=============================================================================
