-------------------------------- MODULE Demo --------------------------------
(***************************************************************************)
(* main of main.cpp: the tests that keep state or can fail, in their       *)
(* order, in a process that can be killed and run again; a second process  *)
(* may use a CurlDownloader on the same directory.  The downloader is      *)
(* Downloader, the signal of TestSigSlot is Signal; TestGetPath is here.   *)
(***************************************************************************)
EXTENDS Downloader, Sequences

CONSTANTS
  Runs,          \* the processes that run main; the others only download
  MaxSlots,      \* bound: the slots TestSigSlot binds
  MaxDownloads,  \* bound: the calls of Download in TestCurl, the commented-out ones included
  PathMax,       \* PATH_MAX_LENGTH, made small
  SizeMod        \* size_t counts modulo this

ASSUME RunsAreProcesses == Runs \subseteq Process
ASSUME DemoBounds == MaxSlots \in Nat /\ MaxDownloads \in Nat /\ PathMax \in Nat /\ SizeMod \in Nat

VARIABLES
  slots_, emission, received,   \* the signal of sig_c
  calls,                        \* the calls of Download so far
  link                          \* what TestGetPath found, {} or a singleton

demoVars == <<vars, slots_, emission, received, calls, link>>

Sig == INSTANCE Signal

DemoInit ==
  /\ Init /\ Sig!SignalInit
  /\ calls = [p \in Process |-> 0]
  /\ link = [p \in Process |-> {}]

-----------------------------------------------------------------------------
\* A run begins, in a process without objects: TestCurl's constructor.
Start(p) ==
  /\ Construct(p)
  /\ Sig!Forget(p)
  /\ calls' = [calls EXCEPT ![p] = 0]
  /\ link' = [link EXCEPT ![p] = {}]

\* TestCurl calls Download ...
CallDownload(p) ==
  /\ calls[p] < MaxDownloads
  /\ \E u \in Url : Download(p, u)
  /\ calls' = [calls EXCEPT ![p] = @ + 1]
  /\ UNCHANGED <<slots_, emission, received, link>>

\* ... and the network answers.
Network(p) == (Receive(p) \/ Perform(p)) /\ UNCHANGED <<slots_, emission, received, calls, link>>

FileCall(p) == (Open(p) \/ Close(p)) /\ UNCHANGED <<slots_, emission, received, calls, link>>

\* The tests follow one another, whatever Download returned.
NextTest(p) ==
  /\ p \in Runs
  /\ \/ /\ pc[p] \in {"path", "failed"} /\ Goto(p, "signal")
        /\ UNCHANGED <<slots_, emission, received>>
     \/ pc[p] = "emitted" /\ Goto(p, "getPath") /\ Sig!Forget(p)
  /\ UNCHANGED <<downloadVars, calls, link>>

\* A process that only downloads.
Leave(p) == p \notin Runs /\ Return(p) /\ UNCHANGED <<slots_, emission, received, calls, link>>

TestSigSlot(p) == Sig!SignalStep(p) /\ UNCHANGED <<downloadVars, calls, link>>

SuffixSize == Len("build/")
ASSUME SizesHoldSuffix == SuffixSize \in 1..(SizeMod - 1)

(* readlink's result, the length of its path up to the last slash, and     *)
(* whether one of the bytes behind path[cnt], which nobody has written, is *)
(* zero: behind the last byte of path there is none.                       *)
Answer ==
  {a \in [cnt : (0 - 1)..PathMax, directory : 0..PathMax, zero : BOOLEAN] :
     (a.directory <= a.cnt \/ a.directory = 0) /\ (a.zero => a.cnt < PathMax - 1)}

\* The test of readlink's result; its message is all that follows from it.
LinkRead(cnt) == 0 <= cnt /\ cnt < PathMax

(* path[cnt] is written to, whatever cnt is.  The first write puts '$'     *)
(* where the path ends, and path is printed before the second one ends it: *)
(* the print stays inside path only if it finds a zero behind '$'.         *)
Printable(a) == LinkRead(a.cnt) /\ a.zero

\* Mutant: the difference is taken as a signed number.
MutantTailStart(d) == IF d >= SuffixSize THEN d - SuffixSize ELSE 0

\* res.size() - subfix.size(), both size_t.
TailStart(d) == (d - SuffixSize) % SizeMod

\* substr throws if it starts behind the end of the directory's name.
TestGetPath(p) ==
  /\ pc[p] = "getPath"
  /\ \E a \in Answer :
       /\ link' = [link EXCEPT ![p] = {a}]
       /\ Goto(p, IF ~Printable(a) THEN "undefined"
                  ELSE IF TailStart(a.directory) > a.directory THEN "terminated" ELSE "returned")
  /\ UNCHANGED <<downloadVars, slots_, emission, received, calls>>

Killed(p) == Kill(p) /\ UNCHANGED <<slots_, emission, received, calls, link>>

\* What the process does without waiting for anybody.
Local(p) == CallDownload(p) \/ FileCall(p) \/ NextTest(p) \/ Leave(p) \/ TestSigSlot(p) \/ TestGetPath(p)

DemoNext == \E p \in Process : Start(p) \/ Local(p) \/ Network(p) \/ Killed(p)

DemoSpec == DemoInit /\ [][DemoNext]_demoVars

\* Processes are scheduled.  No server has to answer, and nobody has to run main.
Fairness == \A p \in Process : WF_demoVars(Local(p))

-----------------------------------------------------------------------------
DemoPC == PC \cup {"signal", "emit", "emitted", "getPath"}

\* A part of EndsExplained.
TypeOK ==
  /\ pc \in [Process -> DemoPC]
  /\ file \in [Name -> Found]
  /\ url \in [Process -> Url \cup {NoUrl}] /\ sent \in [Process -> Url \cup {Page}]
  /\ got \in [Process -> 0..Parts] /\ ok \in [Process -> BOOLEAN]
  /\ \A p \in Process : pc[p] \in Inside \cup {"path", "failed"} => Target(p) \in Name
  /\ \A p \in Process : emission[p].end <= Len(slots_[p]) /\ calls[p] <= MaxDownloads
  /\ saved \in [Name -> SUBSET (Url \cup {Page})] /\ broken \subseteq Name

EmissionReachesSlots == Sig!EmissionReachesSlots

(* Main reaches `return 0` only if readlink's answer left two bytes of     *)
(* path, one of the bytes behind it happened to be zero, and the           *)
(* executable's directory has a name at least as long as "build/"; an      *)
(* exception that nobody catches comes from a URL without a slash, a slot  *)
(* that throws, or a directory name that is too short; and undefined       *)
(* behaviour from an fopen that failed before any slot was bound, from a   *)
(* slot that binds, from an answer that does not fit, or from the print of *)
(* a path that nothing ends.                                               *)
EndsExplained ==
  TypeOK /\
  \A p \in Process :
    /\ pc[p] = "returned" /\ p \in Runs =>
         \E a \in link[p] : 0 <= a.cnt /\ a.cnt < PathMax - 1 /\ a.zero /\ SuffixSize <= a.directory
    /\ pc[p] = "terminated" =>
         \/ NameOf[url[p]] = NoName
         \/ received[p] # <<>> /\ slots_[p][Len(received[p])] = "throws"
         \/ \E a \in link[p] : a.directory < SuffixSize
    /\ pc[p] = "undefined" =>
         \/ emission[p].iterators = "dangling"
         \/ \E a \in link[p] : ~(0 <= a.cnt /\ a.cnt < PathMax /\ a.zero)
         \/ calls[p] > 0 /\ slots_[p] = <<>> /\ link[p] = {}

Ended == {"absent", "none"} \cup Over

(* A run of main ends, one way or another, unless from some moment on it   *)
(* waits inside one transfer for ever: no time limit is set for curl.      *)
MainEnds ==
  \A p \in Process : (pc[p] \notin Ended) ~> (pc[p] \in Ended \/ [](pc[p] = "transfer"))
=============================================================================
