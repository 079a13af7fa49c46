------------------------------- MODULE Repro --------------------------------
(***************************************************************************)
(* pkg/repro: a reproducer is extracted from the log of a crash, and made  *)
(* simpler.  The programs of the log are the elements of Slice; a program  *)
(* has one call, so that the log, and a program made of several ones, is a *)
(* set of them.  A test runs something on a VM: it crashes, it does not,   *)
(* or there is an error in three attempts (testWithInstance).              *)
(***************************************************************************)
EXTENDS Slice, FiniteSetsExt, FiniteSets

CONSTANTS
  MaxEntries,   \* bound: programs in the log
  ProcOf,       \* the process that ran a program
  Timeouts,     \* number of testTimeouts; the last one is above a minute
  startOpts

ASSUME ReproAssumption ==
  /\ Timeouts \in Nat \ {0} /\ MaxEntries \in Nat
  /\ startOpts \in [sandbox : STRING, on : SUBSET STRING]

VARIABLES
  pc, timeout,
  todo,         \* programs, or calls, that are still to be tried
  res,          \* the Result: the calls, those with simpler arguments, and the options
  CRepro,
  simplify,     \* index of the next simplification
  attempts, corrupted,
  report        \* what was run when ctx.report was made

reproVars == <<pc, timeout, todo, res, CRepro, simplify, attempts, corrupted, report>>
allVars == <<vars, reproVars>>

NoResult == [calls |-> {}, simple |-> {}, opts |-> startOpts]
Syz(r) == [kind |-> "syz", what |-> r]
C(r) == [kind |-> "c", what |-> r]
Log(progs) == [kind |-> "log", what |-> [NoResult EXCEPT !.calls = progs]]

(* The last program of each process. *)
lastEntries == {i \in 1 .. n : \A j \in i + 1 .. n : ProcOf[j] # ProcOf[i]}

Init ==
  /\ n \in 0 .. MaxEntries /\ guilty \in SUBSET (1 .. n) /\ flaky \in BOOLEAN
  /\ IF flaky \/ n = 0 THEN guilty = {} ELSE guilty # {}
  /\ Off
  /\ pc = "single" /\ timeout = 1 /\ todo = lastEntries
  /\ res = NoResult /\ CRepro = FALSE /\ simplify = 1
  /\ attempts = 0 /\ corrupted = FALSE /\ report = Log({})

-----------------------------------------------------------------------------
(* What a run of these programs can end with; testProgs refuses none.      *)
Ends(progs) == IF progs = {} THEN {"error"} ELSE Pred(progs)
(* A run of a C program, or with other options or arguments. *)
AnyEnd == IF flaky THEN {"true", "false", "error"} ELSE {"true", "false"}

Fail == pc' = "error" /\ UNCHANGED <<timeout, todo, res, CRepro, simplify, attempts, corrupted, report>>

(* The next of the timeouts, if there is one. *)
NextTimeout ==
  /\ IF timeout < Timeouts
     THEN pc' = "single" /\ timeout' = timeout + 1 /\ todo' = lastEntries
     ELSE pc' = "failed" /\ UNCHANGED <<timeout, todo>>
  /\ UNCHANGED <<res, CRepro, simplify, attempts, corrupted>>

(* A program has crashed the kernel: minimizeProg is next, with the calls. *)
Extracted(progs) ==
  /\ res' = [NoResult EXCEPT !.calls = progs]
  /\ pc' = "calls" /\ todo' = progs
  /\ report' = Syz(res')
  /\ UNCHANGED <<timeout, CRepro, simplify, attempts, corrupted>>

(* extractProgSingle, in reverse order. *)
extractProgSingle ==
  LET i == Max(todo)
  IN /\ pc = "single" /\ todo # {}
     /\ \E end \in Ends({i}) :
          \/ end = "true" /\ Extracted({i})
          \/ end = "false" /\ todo' = todo \ {i} /\ UNCHANGED <<pc, timeout, res, CRepro, simplify, attempts, corrupted, report>>
          \/ end = "error" /\ Fail
     /\ UNCHANGED vars

NoSingle ==
  /\ pc = "single" /\ todo = {}
  /\ IF n = 1 THEN NextTimeout /\ UNCHANGED report
     ELSE pc' = "log" /\ UNCHANGED <<timeout, todo, res, CRepro, simplify, attempts, corrupted, report>>
  /\ UNCHANGED vars

(* extractProgBisect: the whole log first.  An error counts as no crash. *)
extractProgBisect ==
  /\ pc = "log"
  /\ \E end \in Ends(1 .. n) :
       IF end = "true"
       THEN /\ SliceStart
            /\ pc' = "bisect" /\ report' = Log(1 .. n)
            /\ UNCHANGED <<timeout, todo, res, CRepro, simplify, attempts, corrupted>>
       ELSE NextTimeout /\ UNCHANGED <<vars, report>>

(* bisectProgs; an empty log is not tested. *)
bisectProgs ==
  /\ pc = "bisect" /\ UNCHANGED <<pc, timeout, todo, res, CRepro, simplify, attempts, corrupted>>
  /\ \/ SliceStep /\ UNCHANGED report
     \/ \E answer \in IF Without = {} THEN {"false"} ELSE Pred(Without) :
          predRun(answer) /\ report' = IF answer = "true" THEN Log(Without) ELSE report

(* The programs that are left are concatenated. *)
SliceOff ==
  /\ at' = "off" /\ err' = "none"
  /\ rest' = <<>> /\ newChunks' = <<>> /\ from' = 0 /\ till' = 0 /\ size' = 1
  /\ someNeeded' = FALSE /\ foundNeeded' = FALSE /\ predRuns' = 0 /\ held' = {}
  /\ UNCHANGED <<n, guilty, flaky>>

Concatenate ==
  /\ pc = "bisect" /\ at = "done"
  /\ IF err = "pred" THEN Fail
     ELSE IF err = "chunks" \/ elements(newChunks) = {} THEN NextTimeout /\ UNCHANGED report
     ELSE \E end \in Ends(elements(newChunks)) :
            \/ end = "true" /\ Extracted(elements(newChunks))
            \/ end = "false" /\ NextTimeout /\ UNCHANGED report
            \/ end = "error" /\ Fail
  /\ SliceOff

-----------------------------------------------------------------------------
(* prog.Minimize with a predicate that takes an error for no crash: calls  *)
(* are removed, from the last one on; then arguments and properties get    *)
(* simpler.                                                                *)
Minimized(r, i, ends) ==
  /\ \E end \in ends :
       IF end = "true" THEN res' = r /\ report' = Syz(r) ELSE UNCHANGED <<res, report>>
  /\ todo' = todo \ {i}
  /\ UNCHANGED <<vars, pc, timeout, CRepro, simplify, attempts, corrupted>>

removeCalls ==
  LET i == Max(todo)
      calls == res.calls \ {i}
  IN /\ pc = "calls" /\ todo # {}
     /\ Minimized([res EXCEPT !.calls = calls], i, Pred(calls))

minimizeArgs ==
  LET i == Min(todo)
  IN /\ pc = "args" /\ todo # {}
     /\ Minimized([res EXCEPT !.simple = @ \cup {i}], i, AnyEnd)

MinimizeNext ==
  /\ todo = {}
  /\ \/ pc = "calls" /\ pc' = "args" /\ todo' = res.calls
     \/ pc = "args" /\ pc' = "extractC" /\ UNCHANGED todo
  /\ UNCHANGED <<vars, timeout, res, CRepro, simplify, attempts, corrupted, report>>

-----------------------------------------------------------------------------
(* The options: the sandbox, and what is set ("Procs" if there are several). *)
Drop(o, flags) == [o EXCEPT !.on = @ \ flags]

(* progSimplifies and cSimplifies; a simplification that does not apply    *)
(* gives nothing.                                                          *)
OneFlag == <<"NetInjection", "NetDevices", "NetReset", "Cgroups", "BinfmtMisc", "CloseFDs", "DevlinkPCI", "NicVF",
             "USB", "VhciInjection", "Wifi", "IEEE802154", "UseTmpDir", "HandleSegv", "Sysctl", "Swap">>
(* Mutant: control groups stay. *)
SandboxFlags_Cgroups == {"NetInjection", "NetDevices", "NetReset", "BinfmtMisc", "VhciInjection", "Wifi"}

SandboxFlags == {"NetInjection", "NetDevices", "NetReset", "Cgroups", "BinfmtMisc", "CloseFDs", "DevlinkPCI", "NicVF",
                 "USB", "VhciInjection", "Wifi", "Swap"}
progSimplifies == 4
cSimplifies == 5 + Len(OneFlag)

Simplified(o, k) ==
  CASE k = 1 -> IF "Threaded" \in o.on /\ "Collide" \notin o.on THEN {Drop(o, {"Threaded"})} ELSE {}
    [] k = 2 -> IF "Repeat" \in o.on THEN {Drop(o, {"Repeat", "Cgroups", "NetReset", "Procs"})} ELSE {}
    [] k = 3 -> IF "Procs" \in o.on THEN {Drop(o, {"Procs"})} ELSE {}
    [] k = 4 -> IF o.sandbox # "none" THEN {[o EXCEPT !.sandbox = "none"]} ELSE {}
    [] k = 5 -> IF o.sandbox # "" THEN {[Drop(o, SandboxFlags) EXCEPT !.sandbox = ""]} ELSE {}
    [] OTHER ->
         LET flag == OneFlag[k - 5]
         IN IF \/ flag \notin o.on
               \/ flag = "CloseFDs" /\ "Repeat" \in o.on
               \/ flag = "UseTmpDir" /\ (o.sandbox = "namespace" \/ "Cgroups" \in o.on)
            THEN {} ELSE {Drop(o, {flag})}

(* checkOpts: no single run with a long timeout. *)
checkOpts(o) == "Repeat" \in o.on \/ timeout < Timeouts

Simplifying ==
  \/ pc = "simplifyProg" /\ simplify <= progSimplifies
  \/ pc = "simplifyC" /\ simplify <= cSimplifies

ToTest == {o \in Simplified(res.opts, simplify) : checkOpts(o)}

Skip ==
  /\ Simplifying /\ ToTest = {} /\ simplify' = simplify + 1
  /\ UNCHANGED <<vars, pc, timeout, todo, res, CRepro, attempts, corrupted, report>>

(* extractC, at first and after each simplification of the options. *)
extractC ==
  /\ pc = "extractC"
  /\ \E end \in AnyEnd :
       \/ end = "true" /\ CRepro' = TRUE /\ pc' = "simplifyC" /\ simplify' = 1 /\ report' = C(res)
       \/ end = "false" /\ pc' = "simplifyProg" /\ UNCHANGED <<CRepro, simplify, report>>
       \/ end = "error" /\ pc' = "error" /\ UNCHANGED <<CRepro, simplify, report>>
  /\ UNCHANGED <<vars, timeout, todo, res, attempts, corrupted>>

(* Mutant: the options are changed before the test. *)
simplifyProg_Early ==
  /\ pc = "simplifyProg" /\ Simplifying
  /\ \E o \in ToTest, end \in AnyEnd \ {"error"} :
       /\ res' = [res EXCEPT !.opts = o]
       /\ IF end = "true" THEN report' = Syz(res') /\ pc' = "extractC" ELSE UNCHANGED <<report, pc>>
  /\ simplify' = simplify + 1
  /\ UNCHANGED <<vars, timeout, todo, CRepro, attempts, corrupted>>

simplifyProg ==
  /\ pc = "simplifyProg" /\ Simplifying
  /\ \E o \in ToTest, end \in AnyEnd :
       \/ end = "true" /\ res' = [res EXCEPT !.opts = o] /\ report' = Syz(res') /\ pc' = "extractC"
       \/ end = "false" /\ UNCHANGED <<res, report, pc>>
       \/ end = "error" /\ pc' = "error" /\ UNCHANGED <<res, report>>
  /\ simplify' = simplify + 1
  /\ UNCHANGED <<vars, timeout, todo, CRepro, attempts, corrupted>>

simplifyC ==
  /\ pc = "simplifyC" /\ Simplifying
  /\ \E o \in ToTest, end \in AnyEnd :
       \/ end = "true" /\ res' = [res EXCEPT !.opts = o] /\ report' = C(res') /\ UNCHANGED pc
       \/ end = "false" /\ UNCHANGED <<res, report, pc>>
       \/ end = "error" /\ pc' = "error" /\ UNCHANGED <<res, report>>
  /\ simplify' = simplify + 1
  /\ UNCHANGED <<vars, timeout, todo, CRepro, attempts, corrupted>>

(* run: a corrupted report is replaced by the one of another run. *)
Rerun ==
  /\ pc \in {"simplifyProg", "simplifyC"} /\ ~Simplifying
  /\ pc' = "rerun" /\ corrupted' \in BOOLEAN
  /\ UNCHANGED <<vars, timeout, todo, res, CRepro, simplify, attempts, report>>

RunAgain ==
  /\ pc = "rerun"
  /\ IF corrupted /\ attempts < 3
     THEN \E end \in AnyEnd :
            /\ attempts' = attempts + 1
            /\ \/ end = "true" /\ report' = (IF CRepro THEN C(res) ELSE Syz(res)) /\ corrupted' \in BOOLEAN /\ UNCHANGED pc
               \/ end = "false" /\ UNCHANGED <<report, corrupted, pc>>
               \/ end = "error" /\ pc' = "error" /\ UNCHANGED <<report, corrupted>>
     ELSE pc' = "reproduced" /\ UNCHANGED <<attempts, report, corrupted>>
  /\ UNCHANGED <<vars, timeout, todo, res, CRepro, simplify>>

Ended == pc \in {"error", "failed", "reproduced"}

Next ==
  \/ extractProgSingle \/ NoSingle \/ extractProgBisect \/ bisectProgs \/ Concatenate
  \/ removeCalls \/ minimizeArgs \/ MinimizeNext
  \/ extractC \/ Skip \/ simplifyProg \/ simplifyC \/ Rerun \/ RunAgain
  \/ Ended /\ UNCHANGED allVars

Spec == Init /\ [][Next]_allVars
FairSpec == Spec /\ WF_allVars(Next)

-----------------------------------------------------------------------------
TypeOK ==
  /\ res.calls \subseteq 1 .. n /\ res.simple \subseteq res.calls /\ todo \subseteq 1 .. n
  /\ timeout \in 1 .. Timeouts /\ simplify \in 1 .. cSimplifies + 1 /\ attempts \in 0 .. 3

(* "Information about the final crash that we reproduced": the report of a *)
(* result is of a crash of this very program with these very options.      *)
ReportOfResult == pc = "reproduced" => report = IF CRepro THEN C(res) ELSE Syz(res)

(* If the crash needs certain programs of the log, the reproducer consists *)
(* of these; it is found unless they are more than the bisection pursues.  *)
GuiltyFound ==
  Ended /\ ~flaky /\ n > 0 =>
    /\ pc = "reproduced" => res.calls = guilty
    /\ pc = "failed" => Cardinality(guilty) > MaxChunks

(* opts.Check, for Linux. *)
Legal(o) ==
  /\ "Threaded" \notin o.on => "Collide" \notin o.on
  /\ "Repeat" \notin o.on => "Procs" \notin o.on /\ "NetReset" \notin o.on
  /\ o.sandbox = "" =>
       {"NetInjection", "NetDevices", "Cgroups", "BinfmtMisc", "VhciInjection", "Wifi"} \cap o.on = {}
  /\ o.sandbox = "namespace" => "UseTmpDir" \in o.on
  /\ "NetReset" \in o.on => o.sandbox \notin {"", "setuid"}
  /\ "Cgroups" \in o.on => "UseTmpDir" \in o.on

(* DefaultOpts panics if the options are not; createStartOptions only      *)
(* clears some that nothing else needs.                                    *)
ASSUME StartOptsLegal == Legal(startOpts)

(* "Invalid combinations must not be passed to Write": the options that a  *)
(* test is run with are legal, as those at the start are.                  *)
OptionsLegal ==
  Simplifying => \A o \in {res.opts} \cup ToTest : Legal(o)

(* A reproduction comes to an end. *)
ReproEnds == <>Ended
=============================================================================
